-------------------------- MODULE ResultCNF_proofs --------------------------
(***************************************************************************)
(* For every number of variables, every CNF with BNN constraints and every *)
(* sampling set, with repetitions or not: the formula that                 *)
(* duplicate_problem and add_fixed_clauses build means what the models of  *)
(* the rounds take it to mean, and the result that is taken back out of it *)
(* counts, with its factor, what the input does.                           *)
(***************************************************************************)
EXTENDS ResultCNF, FiniteSetTheorems, TLAPS

Lits == (-N .. N) \ {0}

\* The two assignments that an assignment of the doubled problem consists of.
First(d) == d \cap (1 .. N)
Second(d) == { w \in 1 .. N : w + N \in d }

CopyBnn(b) ==
    [lits |-> [m \in DOMAIN b.lits |-> Copy(b.lits[m])],
     cutoff |-> b.cutoff,
     out |-> IF b.out = 0 THEN 0 ELSE Copy(b.out)]

\* What duplicate_problem leaves.
BothClauses == input.cnf \cup { { Copy(l) : l \in cl } : cl \in input.cnf }
BothBnns == input.bnns \o [k \in DOMAIN input.bnns |-> CopyBnn(input.bnns[k])]

Indic(k) == N + N + k
Connected(n) == UNION { Connect(input.sampling[k], Indic(k)) : k \in 1 .. n }

-----------------------------------------------------------------------------
(* The meaning of the copies *)

\* A literal of the first copy looks at the first copy only, and the same for the second.
LEMMA LitFirst ==
    ASSUME NEW l \in Lits, NEW d PROVE True(l, First(d)) <=> True(l, d)
BY InputsAssumption DEF Lits, True, First

LEMMA LitSecond ==
    ASSUME NEW l \in Lits, NEW d PROVE True(l, Second(d)) <=> True(Copy(l), d)
<1>1. N \in Nat /\ l \in Int /\ l # 0 /\ -N <= l /\ l <= N  BY InputsAssumption DEF Lits
<1>2. CASE l > 0
  <2>1. l \in 1 .. N /\ Copy(l) = l + N /\ l + N > 0  BY <1>1, <1>2 DEF Copy
  <2> QED  BY <1>2, <2>1 DEF True, Second
<1>3. CASE ~ (l > 0)
  <2>1. /\ -l \in 1 .. N /\ Copy(l) = l - N /\ ~ (l - N > 0) /\ -(l - N) = (-l) + N
    BY <1>1, <1>3 DEF Copy
  <2> QED  BY <1>3, <2>1 DEF True, Second
<1> QED  BY <1>2, <1>3

BnnType(b) ==
    /\ \A k \in DOMAIN b.lits : b.lits[k] \in Lits
    /\ b.out \in -N .. N

Bnn(b, a) == AtLeast(b, a) <=> (b.out = 0 \/ True(b.out, a))

LEMMA BnnFirst ==
    ASSUME NEW b, BnnType(b), NEW d PROVE Bnn(b, First(d)) <=> Bnn(b, d)
<1>1. { k \in DOMAIN b.lits : True(b.lits[k], First(d)) } = { k \in DOMAIN b.lits : True(b.lits[k], d) }
  BY LitFirst DEF BnnType
<1>2. b.out # 0 => (True(b.out, First(d)) <=> True(b.out, d))
  BY LitFirst DEF BnnType, Lits
<1> QED  BY <1>1, <1>2 DEF Bnn, AtLeast

LEMMA BnnSecond ==
    ASSUME NEW b, BnnType(b), NEW d PROVE Bnn(b, Second(d)) <=> Bnn(CopyBnn(b), d)
<1> DEFINE c == CopyBnn(b)
<1>1. /\ DOMAIN c.lits = DOMAIN b.lits /\ c.cutoff = b.cutoff
      /\ \A k \in DOMAIN b.lits : c.lits[k] = Copy(b.lits[k])
      /\ c.out = IF b.out = 0 THEN 0 ELSE Copy(b.out)
  BY DEF CopyBnn
<1> HIDE DEF c
<1>2. { k \in DOMAIN b.lits : True(b.lits[k], Second(d)) } = { k \in DOMAIN c.lits : True(c.lits[k], d) }
  BY <1>1, LitSecond DEF BnnType
<1>3. AtLeast(b, Second(d)) <=> AtLeast(c, d)  BY <1>1, <1>2 DEF AtLeast
<1>4. (b.out = 0 \/ True(b.out, Second(d))) <=> (c.out = 0 \/ True(c.out, d))
  <2>1. CASE b.out = 0  BY <1>1, <2>1
  <2>2. CASE b.out # 0
    <3>1. b.out \in Lits  BY <2>2 DEF BnnType, Lits
    <3>2. c.out = Copy(b.out) /\ Copy(b.out) # 0
      BY <1>1, <2>2, <3>1, InputsAssumption DEF Copy, Lits
    <3> QED  BY <2>2, <3>1, <3>2, LitSecond
  <2> QED  BY <2>1, <2>2
<1>5. Bnn(b, Second(d)) <=> Bnn(c, d)  BY <1>3, <1>4 DEF Bnn
<1> QED  BY <1>5 DEF c

\* What the input is, in the terms of the lemmas.
LEMMA InputIs ==
    ASSUME input \in Inputs
    PROVE  /\ N \in Nat
           /\ \A cl \in input.cnf : \A l \in cl : l \in Lits
           /\ input.bnns \in Seq(Range(input.bnns))
           /\ \A b \in Range(input.bnns) : BnnType(b)
           /\ input.sampling \in Seq(1 .. N)
BY InputsAssumption DEF InputType, BnnType, Lits

\* The elements of a sequence followed by the images of its elements.
LEMMA RangeBoth ==
    ASSUME input \in Inputs
    PROVE  Range(BothBnns) = Range(input.bnns) \cup { CopyBnn(b) : b \in Range(input.bnns) }
<1> DEFINE s == input.bnns
           t == [k \in DOMAIN s |-> CopyBnn(s[k])]
           n == Len(s)
<1>1. s \in Seq(Range(s)) /\ n \in Nat /\ DOMAIN s = 1 .. n  BY InputIs
<1>2. t \in Seq({ CopyBnn(b) : b \in Range(s) }) /\ Len(t) = n /\ DOMAIN t = 1 .. n
  <2>1. \A k \in 1 .. n : CopyBnn(s[k]) \in { CopyBnn(b) : b \in Range(s) }
    BY <1>1 DEF Range
  <2>2. t \in [1 .. n -> { CopyBnn(b) : b \in Range(s) }]  BY <1>1, <2>1
  <2> QED  BY <1>1, <2>2
<1>3. \A k \in 1 .. n : t[k] = CopyBnn(s[k])  BY <1>1
<1> HIDE DEF t, n, s
<1>4. /\ DOMAIN (s \o t) = 1 .. (n + n)
      /\ \A k \in 1 .. (n + n) : (s \o t)[k] = IF k <= n THEN s[k] ELSE t[k - n]
  BY <1>1, <1>2 DEF n
<1>5. ASSUME NEW x \in Range(s \o t) PROVE x \in Range(s) \cup { CopyBnn(b) : b \in Range(s) }
  <2>1. PICK k \in 1 .. (n + n) : x = (s \o t)[k]  BY <1>4, <1>5 DEF Range
  <2>2. CASE k <= n
    <3>1. k \in DOMAIN s /\ x = s[k]  BY <1>1, <1>4, <2>1, <2>2
    <3> QED  BY <3>1 DEF Range
  <2>3. CASE ~ (k <= n)
    <3>1. k - n \in 1 .. n /\ x = t[k - n]  BY <1>1, <1>4, <2>1, <2>3
    <3>2. s[k - n] \in Range(s) /\ x = CopyBnn(s[k - n])  BY <1>1, <1>3, <3>1 DEF Range
    <3> QED  BY <3>2
  <2> QED  BY <2>2, <2>3
<1>6. ASSUME NEW b \in Range(s) PROVE b \in Range(s \o t) /\ CopyBnn(b) \in Range(s \o t)
  <2>1. PICK k \in 1 .. n : b = s[k]  BY <1>1, <1>6 DEF Range
  <2>2. /\ k \in 1 .. (n + n) /\ k + n \in 1 .. (n + n)
        /\ (s \o t)[k] = s[k] /\ (s \o t)[k + n] = t[k]
    BY <1>1, <1>4, <2>1
  <2> QED  BY <1>3, <1>4, <2>1, <2>2 DEF Range
<1>7. Range(s \o t) = Range(s) \cup { CopyBnn(b) : b \in Range(s) }  BY <1>5, <1>6
<1> QED  BY <1>7 DEF BothBnns, s, t

Satisfied(cl, a) == \E l \in cl : True(l, a)

\* The doubled constraints hold iff the input's hold of both parts.
LEMMA MeetsBoth ==
    ASSUME input \in Inputs, NEW d
    PROVE  Meets(d, BothClauses, BothBnns)
           <=> /\ Meets(First(d), input.cnf, input.bnns)
               /\ Meets(Second(d), input.cnf, input.bnns)
<1>1. ASSUME NEW cl \in input.cnf
      PROVE  /\ Satisfied(cl, First(d)) <=> Satisfied(cl, d)
             /\ Satisfied(cl, Second(d)) <=> Satisfied({ Copy(l) : l \in cl }, d)
  <2>1. \A l \in cl : l \in Lits  BY InputIs
  <2>2. \A l \in cl : True(l, First(d)) <=> True(l, d)  BY <2>1, LitFirst
  <2>3. \A l \in cl : True(l, Second(d)) <=> True(Copy(l), d)  BY <2>1, LitSecond
  <2> QED  BY <2>2, <2>3 DEF Satisfied
<1>2. (\A cl \in BothClauses : Satisfied(cl, d))
      <=> \A cl \in input.cnf : Satisfied(cl, First(d)) /\ Satisfied(cl, Second(d))
  BY <1>1 DEF BothClauses
<1>3. ASSUME NEW b \in Range(input.bnns)
      PROVE  /\ Bnn(b, First(d)) <=> Bnn(b, d)
             /\ Bnn(b, Second(d)) <=> Bnn(CopyBnn(b), d)
  BY InputIs, BnnFirst, BnnSecond
<1>4. (\A b \in Range(BothBnns) : Bnn(b, d))
      <=> \A b \in Range(input.bnns) : Bnn(b, First(d)) /\ Bnn(b, Second(d))
  BY <1>3, RangeBoth
<1> QED  BY <1>2, <1>4 DEF Meets, Satisfied, Bnn

-----------------------------------------------------------------------------
(* The indicators *)

Differs(v, d) == ~ (v \in d <=> v + N \in d)

LEMMA ThreeLits ==
    ASSUME NEW l, NEW m, NEW n, NEW d
    PROVE  Satisfied({l, m, n}, d) <=> True(l, d) \/ True(m, d) \/ True(n, d)
BY DEF Satisfied

\* The four clauses say: the indicator is true iff the copies differ.
LEMMA ConnectMeans ==
    ASSUME N \in Nat, NEW v \in 1 .. N, NEW f \in Nat, f > 0, NEW d
    PROVE  (\A cl \in Connect(v, f) : Satisfied(cl, d)) <=> (f \in d <=> Differs(v, d))
<1>1. /\ Copy(v) = v + N /\ v > 0 /\ v + N > 0 /\ f > 0
      /\ ~ (-v > 0) /\ ~ (-(v + N) > 0) /\ ~ (-f > 0)
      /\ -(-v) = v /\ -(-(v + N)) = v + N /\ -(-f) = f
  BY DEF Copy
<1>2. /\ True(v, d) <=> v \in d
      /\ True(-v, d) <=> v \notin d
      /\ True(v + N, d) <=> v + N \in d
      /\ True(-(v + N), d) <=> v + N \notin d
      /\ True(f, d) <=> f \in d
      /\ True(-f, d) <=> f \notin d
  BY <1>1 DEF True
<1>3. /\ Satisfied({v, -(v + N), f}, d) <=> v \in d \/ v + N \notin d \/ f \in d
      /\ Satisfied({-v, v + N, f}, d) <=> v \notin d \/ v + N \in d \/ f \in d
      /\ Satisfied({v, v + N, -f}, d) <=> v \in d \/ v + N \in d \/ f \notin d
      /\ Satisfied({-v, -(v + N), -f}, d) <=> v \notin d \/ v + N \notin d \/ f \notin d
  <2>1. Satisfied({v, -(v + N), f}, d) <=> v \in d \/ v + N \notin d \/ f \in d
    BY <1>2, ThreeLits
  <2>2. Satisfied({-v, v + N, f}, d) <=> v \notin d \/ v + N \in d \/ f \in d
    BY <1>2, ThreeLits
  <2>3. Satisfied({v, v + N, -f}, d) <=> v \in d \/ v + N \in d \/ f \notin d
    BY <1>2, ThreeLits
  <2>4. Satisfied({-v, -(v + N), -f}, d) <=> v \notin d \/ v + N \notin d \/ f \notin d
    BY <1>2, ThreeLits
  <2> QED  BY <2>1, <2>2, <2>3, <2>4
<1>4. Connect(v, f) = { {v, -(v + N), f}, {-v, v + N, f}, {v, v + N, -f}, {-v, -(v + N), -f} }
  BY <1>1 DEF Connect
<1>5. (\A cl \in Connect(v, f) : Satisfied(cl, d))
      <=> /\ Satisfied({v, -(v + N), f}, d) /\ Satisfied({-v, v + N, f}, d)
          /\ Satisfied({v, v + N, -f}, d) /\ Satisfied({-v, -(v + N), -f}, d)
  BY <1>4, Zenon
<1> QED  BY <1>3, <1>5, Zenon DEF Differs

\* The models of all that add_fixed_clauses has added for n entries of the sampling set.
LEMMA DoubledModels ==
    ASSUME input \in Inputs, NEW n \in 0 .. Len(input.sampling), NEW d
    PROVE  Meets(d, BothClauses \cup Connected(n), BothBnns)
           <=> /\ Meets(First(d), input.cnf, input.bnns)
               /\ Meets(Second(d), input.cnf, input.bnns)
               /\ \A k \in 1 .. n : Indic(k) \in d <=> Differs(input.sampling[k], d)
<1>1. Meets(d, BothClauses \cup Connected(n), BothBnns)
      <=> Meets(d, BothClauses, BothBnns) /\ \A cl \in Connected(n) : Satisfied(cl, d)
  BY DEF Meets, Satisfied
<1>2. (\A cl \in Connected(n) : Satisfied(cl, d))
      <=> \A k \in 1 .. n : \A cl \in Connect(input.sampling[k], Indic(k)) : Satisfied(cl, d)
  BY DEF Connected
<1>3. ASSUME NEW k \in 1 .. n
      PROVE  (\A cl \in Connect(input.sampling[k], Indic(k)) : Satisfied(cl, d))
             <=> (Indic(k) \in d <=> Differs(input.sampling[k], d))
  <2>1. input.sampling[k] \in 1 .. N /\ N \in Nat  BY InputIs
  <2>2. Indic(k) \in Nat /\ Indic(k) > 0  BY <2>1 DEF Indic
  <2> QED  BY <2>1, <2>2, ConnectMeans
<1> QED  BY <1>1, <1>2, <1>3, MeetsBoth

-----------------------------------------------------------------------------
(* How the formula is built *)

Entries(n) == { input.sampling[k] : k \in 1 .. n }
InputCopies == { Copy(v) : v \in Tested }

\* The solver after duplicate_problem.
Doubled == nVars = N + N /\ clauses = BothClauses /\ bnns = BothBnns /\ at = 1

\* The solver and the maps in the loop of add_fixed_clauses: the entries before `at` have
\* their clauses, and each variable among them the indicator of one of its entries.
Connecting ==
    /\ at \in 1 .. Len(input.sampling) + 1
    /\ nVars = Indic(at - 1)
    /\ clauses = BothClauses \cup Connected(at - 1) /\ bnns = BothBnns
    /\ DOMAIN varToIndic = Entries(at - 1)
    /\ \A v \in Entries(at - 1) : \E k \in 1 .. (at - 1) :
           input.sampling[k] = v /\ varToIndic[v] = Indic(k)
    /\ \A k \in 1 .. (at - 1) : Indic(k) \in dontElim

\* What may be gone by then.
Spared == eliminable \subseteq (1 .. (N + N)) \ (Tested \cup InputCopies)

\* After add_fixed_clauses, for good.
Complete ==
    /\ input \in Inputs /\ Connecting /\ Spared
    /\ at = Len(input.sampling) + 1 /\ Tested \cup InputCopies \subseteq dontElim

DoubledInv ==
    /\ input \in Inputs
    /\ pc \in {"duplicate", "bve", "fixed", "indicators", "done"}
    /\ pc = "duplicate" => nVars = N /\ clauses = input.cnf /\ bnns = input.bnns /\ at = 1
    /\ pc \in {"bve", "fixed"} => Doubled
    /\ pc \in {"fixed", "indicators", "done"} => Spared
    /\ pc \in {"indicators", "done"} => Connecting
    /\ pc = "done" => Complete

LEMMA InitInv == Init => DoubledInv
BY DEF Init, DoubledInv

LEMMA DuplicateKeeps == ASSUME DoubledInv, Duplicate PROVE DoubledInv'
<1>1. /\ nVars' = N + N /\ clauses' = BothClauses /\ bnns' = BothBnns
      /\ at' = 1 /\ input' = input /\ pc' = "bve"
  BY DEF DoubledInv, Duplicate, BothClauses, BothBnns, CopyBnn
<1> QED  BY <1>1 DEF DoubledInv, Doubled, BothClauses, BothBnns

LEMMA TestedLits ==
    ASSUME input \in Inputs
    PROVE  \A v \in Tested : /\ v \in 1 .. N /\ Copy(v) = v + N
                            /\ v > 0 /\ Copy(v) > 0
BY InputIs DEF Tested, Range, Copy

LEMMA EliminateKeeps == ASSUME DoubledInv, Eliminate PROVE DoubledInv'
<1>1. /\ Doubled /\ pc' = "fixed" /\ input \in Inputs
      /\ UNCHANGED <<input, nVars, clauses, bnns, varToIndic, indicToVar, at>>
  BY DEF DoubledInv, Eliminate
<1>2. Tested \cup InputCopies \subseteq Protected'
  <2>1. Tested \cup InputCopies \subseteq dontElim'
    BY DEF Eliminate, Tested, InputCopies
  <2>2. \A l \in Tested \cup InputCopies : l > 0  BY <1>1, TestedLits DEF InputCopies
  <2> QED  BY <2>1, <2>2 DEF Protected
<1>3. eliminable' \subseteq (1 .. nVars) \ Protected'  BY DEF Eliminate
<1>4. Spared'
  <2>1. nVars = N + N  BY <1>1 DEF Doubled
  <2> QED  BY <1>1, <1>2, <1>3, <2>1 DEF Spared, Tested, InputCopies
<1>5. Doubled'  BY <1>1 DEF Doubled, BothClauses, BothBnns
<1> QED  BY <1>1, <1>4, <1>5 DEF DoubledInv

LEMMA StartFixedKeeps == ASSUME DoubledInv, StartFixed PROVE DoubledInv'
<1>1. /\ Doubled /\ Spared /\ input \in Inputs /\ pc' = "indicators"
      /\ varToIndic' = <<>> /\ UNCHANGED <<input, nVars, clauses, bnns, eliminable, at>>
  BY DEF DoubledInv, StartFixed
<1>2. /\ at' = 1 /\ nVars' = Indic(at' - 1) /\ at' - 1 = 0
      /\ at' \in 1 .. Len(input'.sampling) + 1
  BY <1>1, InputIs DEF Doubled, Indic
<1>3. 1 .. (at' - 1) = {}  BY <1>2
<1>4. Connected(at - 1)' = {} /\ Entries(at - 1)' = {}  BY <1>3 DEF Connected, Entries
<1>5. DOMAIN varToIndic' = {}  BY <1>1
<1>6. clauses' = BothClauses' /\ bnns' = BothBnns'
  BY <1>1 DEF Doubled, BothClauses, BothBnns
<1>7. Connecting'  BY <1>2, <1>3, <1>4, <1>5, <1>6 DEF Connecting
<1>8. Spared'  BY <1>1 DEF Spared, Tested, InputCopies
<1> QED  BY <1>1, <1>7, <1>8 DEF DoubledInv

LEMMA AddIndicatorKeeps == ASSUME DoubledInv, AddIndicator PROVE DoubledInv'
<1> DEFINE v == input.sampling[at]
<1>1. /\ Connecting /\ Spared /\ input \in Inputs /\ pc = "indicators" /\ pc' = pc
      /\ at <= Len(input.sampling) /\ UNCHANGED <<input, bnns, eliminable>>
  BY DEF DoubledInv, AddIndicator
<1>2. /\ N \in Nat /\ Len(input.sampling) \in Nat /\ at \in Nat /\ at >= 1
      /\ at' = at + 1 /\ at' - 1 = at
      /\ 1 .. at = (1 .. (at - 1)) \cup {at}
  BY <1>1, InputIs DEF Connecting, AddIndicator
<1>3. nVars + 1 = Indic(at)  BY <1>1, <1>2 DEF Connecting, Indic
<1>4. /\ nVars' = Indic(at) /\ varToIndic' = Assigned(varToIndic, v, Indic(at))
      /\ dontElim' = dontElim \cup {Indic(at)} /\ clauses' = clauses \cup Connect(v, Indic(at))
  BY <1>3 DEF AddIndicator
<1> HIDE DEF v
<1>5. Connected(at) = Connected(at - 1) \cup Connect(v, Indic(at))
  BY <1>2 DEF Connected, v
<1>6. Entries(at) = Entries(at - 1) \cup {v}  BY <1>2 DEF Entries, v
<1>7. /\ DOMAIN varToIndic' = Entries(at)
      /\ varToIndic'[v] = Indic(at)
      /\ \A w \in Entries(at - 1) : w # v => varToIndic'[w] = varToIndic[w]
  BY <1>1, <1>4, <1>6 DEF Connecting, Assigned
<1>8. ASSUME NEW w \in Entries(at)
      PROVE  \E k \in 1 .. at : input.sampling[k] = w /\ varToIndic'[w] = Indic(k)
  <2>1. CASE w = v  BY <1>2, <1>7, <2>1 DEF v
  <2>2. CASE w # v
    <3>1. w \in Entries(at - 1)  BY <1>6, <2>2
    <3>2. PICK k \in 1 .. (at - 1) : input.sampling[k] = w /\ varToIndic[w] = Indic(k)
      BY <1>1, <3>1 DEF Connecting
    <3> QED  BY <1>2, <1>7, <2>2, <3>1, <3>2
  <2> QED  BY <2>1, <2>2
<1>9. \A k \in 1 .. at : Indic(k) \in dontElim'  BY <1>1, <1>2, <1>4 DEF Connecting
<1>10. /\ Connected(at)' = Connected(at') /\ input' = input
       /\ BothClauses' = BothClauses /\ BothBnns' = BothBnns
  BY <1>1 DEF BothClauses, BothBnns, Connected
<1>11. Connecting'
  <2>1. at' \in 1 .. Len(input'.sampling) + 1  BY <1>1, <1>2
  <2>2. nVars' = Indic(at' - 1)  BY <1>2, <1>4
  <2>3. /\ clauses' = BothClauses' \cup Connected(at - 1)'
        /\ bnns' = BothBnns'
    <3>1. Connected(at - 1)' = Connected(at)  BY <1>1, <1>2 DEF Connected
    <3> QED  BY <1>1, <1>4, <1>5, <1>10, <3>1 DEF Connecting
  <2>4. Entries(at - 1)' = Entries(at)  BY <1>1, <1>2 DEF Entries
  <2> QED  BY <1>1, <1>2, <1>7, <1>8, <1>9, <2>1, <2>2, <2>3, <2>4 DEF Connecting, Indic
<1>12. Spared'  BY <1>1 DEF Spared, Tested, InputCopies
<1> QED  BY <1>1, <1>11, <1>12 DEF DoubledInv

LEMMA ProtectKeeps == ASSUME DoubledInv, ProtectSampling PROVE DoubledInv'
<1>1. /\ Connecting /\ Spared /\ input \in Inputs /\ pc' = "done"
      /\ at > Len(input.sampling)
      /\ dontElim' = dontElim \cup Tested \cup InputCopies
      /\ UNCHANGED <<input, nVars, clauses, bnns, varToIndic, eliminable, at>>
  BY DEF DoubledInv, ProtectSampling, Tested, InputCopies
<1>2. at = Len(input.sampling) + 1
  <2>1. at \in 1 .. Len(input.sampling) + 1 /\ Len(input.sampling) \in Nat
    BY <1>1, InputIs DEF Connecting
  <2> QED  BY <1>1, <2>1
<1>3. Connecting'
  BY <1>1 DEF Connecting, BothClauses, BothBnns, Connected, Entries
<1>4. Spared'  BY <1>1 DEF Spared, Tested, InputCopies
<1> QED  BY <1>1, <1>2, <1>3, <1>4 DEF DoubledInv, Complete, Tested, InputCopies

LEMMA InvStep == DoubledInv /\ [Next]_vars => DoubledInv'
<1> SUFFICES ASSUME DoubledInv, [Next]_vars PROVE DoubledInv'  OBVIOUS
<1>1. CASE Duplicate  BY <1>1, DuplicateKeeps
<1>2. CASE Eliminate  BY <1>2, EliminateKeeps
<1>3. CASE StartFixed  BY <1>3, StartFixedKeeps
<1>4. CASE AddIndicator  BY <1>4, AddIndicatorKeeps
<1>5. CASE ProtectSampling  BY <1>5, ProtectKeeps
<1>6. CASE UNCHANGED vars
  <2>1. UNCHANGED <<input, nVars, clauses, bnns, varToIndic, dontElim, eliminable, at, pc>>
    BY <1>6 DEF vars
  <2>2. /\ Doubled' <=> Doubled
        /\ Spared' <=> Spared
    BY <2>1 DEF Doubled, Spared, BothClauses, BothBnns, InputCopies, Tested
  <2>3. Connecting' <=> Connecting
    BY <2>1 DEF Connecting, BothClauses, BothBnns, Connected, Entries
  <2> QED  BY <2>1, <2>2, <2>3 DEF DoubledInv, Complete, InputCopies, Tested
<1> QED  BY <1>1, <1>2, <1>3, <1>4, <1>5, <1>6 DEF Next, Step, Stopped

LEMMA InvHolds == Spec => []DoubledInv
BY InitInv, InvStep, PTL DEF Spec

-----------------------------------------------------------------------------
\* After add_fixed_clauses the entries are the tested variables.
LEMMA AtTheEnd ==
    ASSUME Complete
    PROVE  LET n == Len(input.sampling)
           IN  /\ input \in Inputs /\ n \in Nat
               /\ nVars = Indic(n)
               /\ clauses = BothClauses \cup Connected(n) /\ bnns = BothBnns
               /\ \A v \in Tested : \E k \in 1 .. n :
                      input.sampling[k] = v /\ varToIndic[v] = Indic(k)
               /\ \A k \in 1 .. n : Indic(k) \in dontElim
               /\ Spared /\ Tested \cup InputCopies \subseteq dontElim
<1> DEFINE n == Len(input.sampling)
<1>1. /\ input \in Inputs /\ Connecting /\ Spared /\ at = n + 1
      /\ Tested \cup InputCopies \subseteq dontElim
  BY DEF Complete
<1>2. n \in Nat /\ at - 1 = n /\ DOMAIN input.sampling = 1 .. n  BY <1>1, InputIs
<1>3. Tested = Entries(n)  BY <1>2 DEF Tested, Entries, Range
<1> QED  BY <1>1, <1>2, <1>3 DEF Connecting

\* Nothing the rounds use may have been eliminated, or may be later (common.cpp 144,
\* simplify_bve_only).
THEOREM IndicatorsSurvive == Spec => []EliminatedUnused
<1>1. DoubledInv => EliminatedUnused
  <2> SUFFICES ASSUME DoubledInv, pc = "done", NEW v \in Tested
               PROVE  /\ {v, v + N, varToIndic[v]} \cap eliminable = {}
                      /\ {v, v + N, varToIndic[v]} \subseteq Protected
      BY DEF EliminatedUnused
  <2>0. Complete  BY DEF DoubledInv
  <2>1. PICK k \in 1 .. Len(input.sampling) :
            input.sampling[k] = v /\ varToIndic[v] = Indic(k)
    BY <2>0, AtTheEnd
  <2>2. /\ input \in Inputs /\ N \in Nat
        /\ v \in 1 .. N /\ Copy(v) = v + N /\ v > 0 /\ v + N > 0
        /\ Copy(v) \in InputCopies
    BY <2>0, AtTheEnd, TestedLits, InputIs DEF InputCopies
  <2>3. /\ Indic(k) > 0 /\ Indic(k) \notin 1 .. (N + N)  BY <2>1, <2>2 DEF Indic
  <2>4. {v, v + N, Indic(k)} \subseteq dontElim  BY <2>0, <2>2, AtTheEnd
  <2>5. {v, v + N, Indic(k)} \subseteq Protected  BY <2>2, <2>3, <2>4 DEF Protected
  <2>6. {v, v + N, Indic(k)} \cap eliminable = {}  BY <2>2, <2>3, <2>0, AtTheEnd DEF Spared
  <2> QED  BY <2>1, <2>5, <2>6
<1> QED  BY InvHolds, <1>1, PTL

\* The assignment that consists of two given ones, with the indicators they call for.
Pair(a, b) ==
    a \cup { w + N : w \in b }
      \cup { Indic(k) : k \in { l \in 1 .. Len(input.sampling) :
                               ~ (input.sampling[l] \in a <=> input.sampling[l] \in b) } }

LEMMA PairParts ==
    ASSUME input \in Inputs, NEW a \in SUBSET (1 .. N), NEW b \in SUBSET (1 .. N)
    PROVE  /\ First(Pair(a, b)) = a /\ Second(Pair(a, b)) = b
           /\ Pair(a, b) \subseteq 1 .. Indic(Len(input.sampling))
           /\ \A k \in 1 .. Len(input.sampling) :
                  Indic(k) \in Pair(a, b) <=> Differs(input.sampling[k], Pair(a, b))
<1> DEFINE n == Len(input.sampling)
           d == Pair(a, b)
<1>1. N \in Nat /\ n \in Nat /\ \A k \in 1 .. n : input.sampling[k] \in 1 .. N
  BY InputIs
<1>2. \A x \in d : \/ x \in a /\ x \in 1 .. N
                   \/ \E w \in b : x = w + N /\ w \in 1 .. N
                   \/ \E k \in 1 .. n : /\ x = N + N + k
                                        /\ ~ (input.sampling[k] \in a <=> input.sampling[k] \in b)
  BY DEF Pair, Indic
<1>3. /\ a \subseteq d /\ \A w \in b : w + N \in d
      /\ \A k \in 1 .. n : ~ (input.sampling[k] \in a <=> input.sampling[k] \in b)
                            => N + N + k \in d
  BY DEF Pair, Indic
<1> HIDE DEF d, n
<1>4. \A w \in 1 .. N : w \in d <=> w \in a  BY <1>1, <1>2, <1>3
<1>5. \A w \in 1 .. N : w + N \in d <=> w \in b
  <2> SUFFICES ASSUME NEW w \in 1 .. N, w + N \in d PROVE w \in b  BY <1>3
  <2>1. w + N \notin 1 .. N /\ \A k \in 1 .. n : w + N # N + N + k  BY <1>1
  <2>2. PICK u \in b : w + N = u + N /\ u \in 1 .. N  BY <1>2, <2>1
  <2>3. w = u  BY <1>1, <2>2
  <2> QED  BY <2>2, <2>3
<1>6. ASSUME NEW k \in 1 .. n
      PROVE  N + N + k \in d <=> ~ (input.sampling[k] \in a <=> input.sampling[k] \in b)
  <2> SUFFICES ASSUME N + N + k \in d
               PROVE  ~ (input.sampling[k] \in a <=> input.sampling[k] \in b)
    BY <1>3
  <2>1. N + N + k \notin 1 .. N /\ \A w \in 1 .. N : N + N + k # w + N  BY <1>1
  <2>2. PICK l \in 1 .. n : /\ N + N + k = N + N + l
                            /\ ~ (input.sampling[l] \in a <=> input.sampling[l] \in b)
    BY <1>2, <2>1
  <2>3. k = l  BY <1>1, <2>2
  <2> QED  BY <2>2, <2>3
<1>7. First(d) = a  BY <1>4 DEF First
<1>8. Second(d) = b  BY <1>5 DEF Second
<1>9. d \subseteq 1 .. Indic(n)
  <2> SUFFICES ASSUME NEW x \in d PROVE x \in 1 .. (N + N + n)  BY DEF Indic
  <2> QED  BY <1>1, <1>2
<1>10. ASSUME NEW k \in 1 .. n PROVE Indic(k) \in d <=> Differs(input.sampling[k], d)
  <2>1. input.sampling[k] \in d <=> input.sampling[k] \in a  BY <1>1, <1>4
  <2>2. input.sampling[k] + N \in d <=> input.sampling[k] \in b  BY <1>1, <1>5
  <2> QED  BY <1>6, <2>1, <2>2 DEF Indic, Differs
<1> QED  BY <1>7, <1>8, <1>9, <1>10 DEF d, n

\* From a model of the doubled formula, two models of the input.
LEMMA SplitModel ==
    ASSUME Complete, NEW d \in ModelsOf(clauses, bnns, nVars)
    PROVE  /\ First(d) \in OriginalModels /\ Second(d) \in OriginalModels
           /\ \A v \in Tested : varToIndic[v] \in d <=> Differs(v, d)
<1> DEFINE n == Len(input.sampling)
<1>1. /\ input \in Inputs /\ n \in 0 .. n
      /\ Meets(d, BothClauses \cup Connected(n), BothBnns)
  <2>1. /\ input \in Inputs /\ n \in Nat
        /\ clauses = BothClauses \cup Connected(n) /\ bnns = BothBnns
    BY AtTheEnd
  <2>2. Meets(d, clauses, bnns)  BY DEF ModelsOf
  <2> QED  BY <2>1, <2>2
<1>2. /\ Meets(First(d), input.cnf, input.bnns) /\ Meets(Second(d), input.cnf, input.bnns)
      /\ \A k \in 1 .. n : Indic(k) \in d <=> Differs(input.sampling[k], d)
  BY <1>1, DoubledModels
<1>3. First(d) \subseteq 1 .. N /\ Second(d) \subseteq 1 .. N  BY DEF First, Second
<1>4. First(d) \in OriginalModels /\ Second(d) \in OriginalModels
  BY <1>2, <1>3 DEF OriginalModels, ModelsOf
<1> QED  BY <1>2, <1>4, AtTheEnd

\* And back.
LEMMA JoinModels ==
    ASSUME Complete, NEW a \in OriginalModels, NEW b \in OriginalModels
    PROVE  Pair(a, b) \in ModelsOf(clauses, bnns, nVars)
<1> DEFINE n == Len(input.sampling)
           d == Pair(a, b)
<1>1. /\ input \in Inputs /\ n \in 0 .. n /\ nVars = Indic(n)
      /\ clauses = BothClauses \cup Connected(n) /\ bnns = BothBnns
  BY AtTheEnd
<1>2. /\ a \in SUBSET (1 .. N) /\ b \in SUBSET (1 .. N)
      /\ Meets(a, input.cnf, input.bnns) /\ Meets(b, input.cnf, input.bnns)
  BY DEF OriginalModels, ModelsOf
<1>3. /\ First(d) = a /\ Second(d) = b /\ d \subseteq 1 .. nVars
      /\ \A k \in 1 .. n : Indic(k) \in d <=> Differs(input.sampling[k], d)
  BY <1>1, <1>2, PairParts
<1> HIDE DEF d
<1>4. Meets(d, clauses, bnns)  BY <1>1, <1>2, <1>3, DoubledModels
<1>5. d \in ModelsOf(clauses, bnns, nVars)  BY <1>3, <1>4 DEF ModelsOf
<1> QED  BY <1>5 DEF d

\* duplicate_problem and add_fixed_clauses: the calls the rounds make on the doubled
\* formula are satisfiable iff two models of the input agree on the assumed variables and
\* differ on the tested one, which is what the models of the rounds take them to mean.
THEOREM CallsAreSeparation == Spec => []CallsDecideSeparation
<1>1. DoubledInv => CallsDecideSeparation
  <2> SUFFICES ASSUME DoubledInv, pc = "done", NEW A \in SUBSET Tested, NEW v \in Tested
               PROVE  (\E d \in ModelsOf(clauses, bnns, nVars) :
                          /\ \A w \in A : varToIndic[w] \notin d
                          /\ v \in d /\ (v + N) \notin d)
                      <=> \E a, b \in OriginalModels : Agree(a, b, A) /\ v \in a /\ v \notin b
      BY DEF CallsDecideSeparation
  <2> DEFINE both == ModelsOf(clauses, bnns, nVars)
  <2>0. Complete  BY DEF DoubledInv
  <2>1. input \in Inputs /\ \A w \in Tested : w \in 1 .. N  BY <2>0, AtTheEnd, TestedLits
  <2> HIDE DEF both
  <2>2. ASSUME NEW d \in both, \A w \in A : varToIndic[w] \notin d, v \in d, v + N \notin d
        PROVE  \E a, b \in OriginalModels : Agree(a, b, A) /\ v \in a /\ v \notin b
    <3>1. /\ First(d) \in OriginalModels /\ Second(d) \in OriginalModels
          /\ \A w \in Tested : varToIndic[w] \in d <=> Differs(w, d)
      BY <2>0, SplitModel DEF both
    <3>2. \A w \in Tested : /\ w \in First(d) <=> w \in d
                            /\ w \in Second(d) <=> w + N \in d
      BY <2>1 DEF First, Second
    <3>3. \A w \in A : ~ Differs(w, d)  BY <2>2, <3>1
    <3>4. Agree(First(d), Second(d), A)  BY <3>2, <3>3 DEF Agree, Differs
    <3>5. v \in First(d) /\ v \notin Second(d)  BY <2>2, <3>2
    <3> QED  BY <3>1, <3>4, <3>5
  <2>3. ASSUME NEW a \in OriginalModels, NEW b \in OriginalModels,
               Agree(a, b, A), v \in a, v \notin b
        PROVE  \E d \in both : /\ \A w \in A : varToIndic[w] \notin d
                               /\ v \in d /\ (v + N) \notin d
    <3> DEFINE d == Pair(a, b)
    <3>1. d \in both  BY <2>0, JoinModels DEF both
    <3>2. First(d) = a /\ Second(d) = b
      BY <2>1, PairParts DEF OriginalModels, ModelsOf
    <3> HIDE DEF d
    <3>3. \A w \in Tested : varToIndic[w] \in d <=> Differs(w, d)
      BY <2>0, <3>1, SplitModel DEF both
    <3>4. \A w \in Tested : (w \in a <=> w \in d) /\ (w \in b <=> w + N \in d)
      BY <2>1, <3>2 DEF First, Second
    <3>5. \A w \in A : w \in a <=> w \in b  BY <2>3 DEF Agree
    <3>6. \A w \in A : ~ Differs(w, d)  BY <3>4, <3>5 DEF Differs
    <3>7. v \in d /\ v + N \notin d  BY <2>3, <3>4
    <3> QED  BY <3>1, <3>3, <3>6, <3>7
  <2> QED  BY <2>2, <2>3 DEF both
<1> QED  BY InvHolds, <1>1, PTL

-----------------------------------------------------------------------------
(* The result: literals *)

LEMMA VarOf ==
    ASSUME NEW l \in Int, l # 0
    PROVE  /\ Var(l) \in Nat \ {0} /\ Var(-l) = Var(l)
           /\ l = Var(l) \/ l = -Var(l)
           /\ -l \in Int /\ -l # 0 /\ -(-l) = l
           /\ l \in -Var(l) .. Var(l)
BY DEF Var

LEMMA TrueNegated ==
    ASSUME NEW l \in Int, l # 0, NEW a
    PROVE  True(-l, a) <=> ~ True(l, a)
<1>1. -(-l) = l /\ (l > 0 <=> ~ (-l > 0))  OBVIOUS
<1>2. CASE l > 0  BY <1>1, <1>2 DEF True
<1>3. CASE ~ (l > 0)  BY <1>1, <1>3 DEF True
<1> QED  BY <1>2, <1>3

\* Assignments that agree on a literal's variable agree on the literal.
LEMMA TrueOfVar ==
    ASSUME NEW l \in Int, l # 0, NEW a, NEW b, Var(l) \in a <=> Var(l) \in b
    PROVE  True(l, a) <=> True(l, b)
BY DEF Var, True

\* The two clauses that say that a variable and a literal are equal.
LEMMA EqualMeans ==
    ASSUME NEW v \in Nat, v > 0, NEW l \in Int, l # 0, NEW a
    PROVE  (\A cl \in Equal(v, l) : Satisfied(cl, a)) <=> (v \in a <=> True(l, a))
<1>1. True(v, a) <=> v \in a  BY DEF True
<1>2. (True(-v, a) <=> v \notin a) /\ (True(-l, a) <=> ~ True(l, a))
  BY <1>1, TrueNegated
<1>3. /\ Satisfied({-v, l}, a) <=> True(-v, a) \/ True(l, a)
      /\ Satisfied({v, -l}, a) <=> True(v, a) \/ True(-l, a)
  BY DEF Satisfied
<1>4. (\A cl \in Equal(v, l) : Satisfied(cl, a))
      <=> Satisfied({-v, l}, a) /\ Satisfied({v, -l}, a)
  BY Zenon DEF Equal
<1> QED  BY <1>1, <1>2, <1>3, <1>4

\* What may become of the literals of a replaced variable.
LEMMA InsteadMeans ==
    ASSUME NEW l \in Int, l # 0, NEW v \in Nat, v > 0, NEW r \in Int, r # 0, NEW a,
           v \in a <=> True(r, a)
    PROVE  /\ Instead(l, v, r) \in Int /\ Instead(l, v, r) # 0
           /\ Var(Instead(l, v, r)) = IF Var(l) = v THEN Var(r) ELSE Var(l)
           /\ True(Instead(l, v, r), a) <=> True(l, a)
<1>1. CASE l = v
  <2>1. Instead(l, v, r) = r /\ Var(l) = v  BY <1>1 DEF Instead, Var
  <2>2. True(l, a) <=> v \in a  BY <1>1 DEF True
  <2> QED  BY <2>1, <2>2
<1>2. CASE l = -v
  <2>1. Instead(l, v, r) = -r /\ Var(l) = v  BY <1>2 DEF Instead, Var
  <2>2. True(l, a) <=> v \notin a  BY <1>2 DEF True
  <2>3. True(-r, a) <=> ~ True(r, a)  BY TrueNegated
  <2> QED  BY <2>1, <2>2, <2>3, VarOf
<1>3. CASE l # v /\ l # -v
  <2>1. Instead(l, v, r) = l /\ Var(l) # v  BY <1>3 DEF Instead, Var
  <2> QED  BY <2>1
<1> QED  BY <1>1, <1>2, <1>3
-----------------------------------------------------------------------------
(* The result: what is replaced *)

Models == ModelsOf(clauses, bnns, nVars)

EqualsInv ==
    \A v, r : <<v, r>> \in equals =>
        v \in 1 .. nVars /\ r \in -nVars .. nVars /\ AreEqual(Models, v, r)

\* A replaced variable has the value of its literal in every model, but not the same value
\* in all, and the literal's variable is not replaced.
ReplInv ==
    \A v \in DOMAIN repl :
        /\ v \in 1 .. nVars /\ repl[v] \in Int
        /\ Var(repl[v]) \in (1 .. nVars) \ DOMAIN repl
        /\ AreEqual(Models, v, repl[v])

\* A further replacement carries the earlier ones along.
LEMMA ReplaceKeeps ==
    ASSUME nVars \in Nat, EqualsInv, ReplInv, NEW v, NEW r, Replace(v, r)
    PROVE  ReplInv'
<1>1. /\ <<v, r>> \in equals /\ v \notin DOMAIN repl /\ Var(r) \notin DOMAIN repl
      /\ repl' = Assigned([w \in DOMAIN repl |-> Instead(repl[w], v, r)], v, r)
      /\ UNCHANGED <<clauses, bnns, nVars>>
  BY DEF Replace, vars
<1>2. /\ v \in 1 .. nVars /\ r \in Int /\ r # 0 /\ Var(r) # v /\ Var(r) \in 1 .. nVars
      /\ AreEqual(Models, v, r)
  <2>1. v \in 1 .. nVars /\ r \in -nVars .. nVars /\ AreEqual(Models, v, r)
    BY <1>1 DEF EqualsInv
  <2>2. r # 0 /\ Var(r) # v  BY <2>1 DEF AreEqual
  <2> QED  BY <2>1, <2>2 DEF Var
<1>3. /\ DOMAIN repl' = DOMAIN repl \cup {v} /\ repl'[v] = r
      /\ \A w \in DOMAIN repl : repl'[w] = Instead(repl[w], v, r)
  BY <1>1 DEF Assigned
<1>4. Models' = Models  BY <1>1 DEF Models
<1>5. ASSUME NEW w \in DOMAIN repl
      PROVE  /\ w \in 1 .. nVars /\ repl'[w] \in Int
             /\ Var(repl'[w]) \in (1 .. nVars) \ (DOMAIN repl \cup {v})
             /\ AreEqual(Models, w, repl'[w])
  <2> DEFINE l == repl[w]
  <2>1. /\ w \in 1 .. nVars /\ l \in Int /\ l # 0
        /\ Var(l) \in 1 .. nVars /\ Var(l) \notin DOMAIN repl
        /\ \A a \in Models : w \in a <=> True(l, a)
        /\ \E a, b \in Models : w \in a /\ w \notin b
    BY DEF ReplInv, AreEqual
  <2>2. \A a \in Models : v \in a <=> True(r, a)  BY <1>2 DEF AreEqual
  <2> HIDE DEF l
  <2>3. \A a \in Models : /\ Instead(l, v, r) \in Int /\ Instead(l, v, r) # 0
                          /\ Var(Instead(l, v, r)) = IF Var(l) = v THEN Var(r) ELSE Var(l)
                          /\ True(Instead(l, v, r), a) <=> True(l, a)
    <3> SUFFICES ASSUME NEW a \in Models
                 PROVE  /\ Instead(l, v, r) \in Int /\ Instead(l, v, r) # 0
                        /\ Var(Instead(l, v, r)) = IF Var(l) = v THEN Var(r) ELSE Var(l)
                        /\ True(Instead(l, v, r), a) <=> True(l, a)
      OBVIOUS
    <3>1. v \in Nat /\ v > 0 /\ (v \in a <=> True(r, a))  BY <1>2, <2>2
    <3> QED  BY <1>2, <2>1, <3>1, InsteadMeans
  <2>4. repl'[w] = Instead(l, v, r)  BY <1>3 DEF l
  <2>5. /\ repl'[w] \in Int /\ repl'[w] # 0
        /\ Var(repl'[w]) = IF Var(l) = v THEN Var(r) ELSE Var(l)
    BY <2>1, <2>3, <2>4
  <2>6. Var(repl'[w]) \in 1 .. nVars /\ Var(repl'[w]) \notin DOMAIN repl \cup {v}
    BY <1>1, <1>2, <2>1, <2>5
  <2>7. AreEqual(Models, w, repl'[w])
    <3>1. Var(repl'[w]) # w  BY <2>6
    <3>2. \A a \in Models : w \in a <=> True(repl'[w], a)  BY <2>1, <2>3, <2>4
    <3> QED  BY <2>1, <2>5, <3>1, <3>2 DEF AreEqual
  <2> QED  BY <2>1, <2>5, <2>6, <2>7
<1>6. nVars' = nVars  BY <1>1
<1>7. Var(repl'[v]) \in (1 .. nVars) \ (DOMAIN repl \cup {v})  BY <1>1, <1>2, <1>3
<1> QED  BY <1>2, <1>3, <1>4, <1>5, <1>6, <1>7 DEF ReplInv

\* In each model a replaced literal has the value of the one it is replaced by.
LEMMA ReplacedMeans ==
    ASSUME ReplInv, NEW l \in Int, l # 0, NEW a,
           Var(l) \in DOMAIN repl => (Var(l) \in a <=> True(repl[Var(l)], a))
    PROVE  /\ Replaced(l) \in Int /\ Replaced(l) # 0
           /\ Var(Replaced(l)) \notin DOMAIN repl
           /\ Var(Replaced(l)) = IF Var(l) \in DOMAIN repl THEN Var(repl[Var(l)]) ELSE Var(l)
           /\ True(Replaced(l), a) <=> True(l, a)
<1>1. CASE Var(l) \notin DOMAIN repl
  BY <1>1 DEF Replaced
<1>2. CASE Var(l) \in DOMAIN repl
  <2> DEFINE r == repl[Var(l)]
  <2>1. r \in Int /\ r # 0 /\ Var(r) \notin DOMAIN repl /\ (Var(l) \in a <=> True(r, a))
    BY <1>2 DEF ReplInv, AreEqual
  <2>2. Replaced(l) = IF l > 0 THEN r ELSE -r
    BY <1>2 DEF Replaced, Var
  <2> HIDE DEF r
  <2>3. /\ -r \in Int /\ -r # 0 /\ Var(-r) = Var(r) /\ (True(-r, a) <=> ~ True(r, a))
    BY <2>1, VarOf, TrueNegated
  <2>4. True(l, a) <=> IF l > 0 THEN Var(l) \in a ELSE Var(l) \notin a
    BY DEF True, Var
  <2>5. CASE l > 0  BY <1>2, <2>1, <2>2, <2>4, <2>5 DEF r
  <2>6. CASE ~ (l > 0)  BY <1>2, <2>1, <2>2, <2>3, <2>4, <2>6 DEF r
  <2> QED  BY <2>5, <2>6
<1> QED  BY <1>1, <1>2
-----------------------------------------------------------------------------
(* The result: what is exported *)

LEMMA CompleteSizes ==
    ASSUME Complete
    PROVE  /\ input \in Inputs /\ N \in Nat /\ Len(input.sampling) \in Nat
           /\ nVars = N + N + Len(input.sampling) /\ nVars \in Nat
           /\ Tested \subseteq 1 .. N
BY AtTheEnd, InputIs, TestedLits DEF Indic

\* Every literal of the doubled formula is one.
LEMMA ClauseLits ==
    ASSUME Complete
    PROVE  \A cl \in clauses : \A l \in cl : l \in Int /\ l # 0
<1> DEFINE n == Len(input.sampling)
<1>1. input \in Inputs /\ N \in Nat /\ n \in Nat /\ clauses = BothClauses \cup Connected(n)
  BY AtTheEnd, InputIs
<1>2. ASSUME NEW cl \in input.cnf, NEW l \in cl
      PROVE  l \in Int /\ l # 0 /\ Copy(l) \in Int /\ Copy(l) # 0
  <2>1. l \in Lits  BY <1>1, <1>2, InputIs
  <2> QED  BY <1>1, <2>1 DEF Lits, Copy
<1>3. ASSUME NEW cl \in BothClauses, NEW l \in cl PROVE l \in Int /\ l # 0
  BY <1>2, <1>3 DEF BothClauses
<1>4. ASSUME NEW k \in 1 .. n, NEW cl \in Connect(input.sampling[k], Indic(k)), NEW l \in cl
      PROVE  l \in Int /\ l # 0
  <2> DEFINE v == input.sampling[k]
             f == Indic(k)
  <2>1. v \in Int /\ v # 0 /\ v \in 1 .. N  BY <1>1, <1>4, InputIs
  <2>2. /\ Copy(v) \in Int /\ Copy(v) # 0 /\ f \in Int /\ f # 0
        /\ -v \in Int /\ -v # 0 /\ -Copy(v) \in Int /\ -Copy(v) # 0 /\ -f \in Int /\ -f # 0
    <3>1. f \in Int /\ f # 0 /\ -f \in Int /\ -f # 0  BY <1>1 DEF Indic
    <3>2. Copy(v) \in Int /\ Copy(v) # 0  BY <1>1, <2>1 DEF Copy
    <3> HIDE DEF v, f
    <3> QED  BY <2>1, <3>1, <3>2
  <2>3. cl \in Connect(v, f)  BY <1>4
  <2> HIDE DEF v, f
  <2>4. l \in {v, -v, Copy(v), -Copy(v), f, -f}  BY <1>4, <2>3 DEF Connect
  <2> QED  BY <2>1, <2>2, <2>4
<1>5. \A cl \in Connected(n) : \E k \in 1 .. n : cl \in Connect(input.sampling[k], Indic(k))
  BY DEF Connected
<1> QED  BY <1>1, <1>3, <1>4, <1>5

\* A model of the input, taken twice, is a model of the doubled formula.
LEMMA ModelTwice ==
    ASSUME Complete, NEW a \in OriginalModels
    PROVE  /\ Pair(a, a) \in Models /\ First(Pair(a, a)) = a
           /\ \A k \in 1 .. Len(input.sampling) : Indic(k) \notin Pair(a, a)
<1> DEFINE d == Pair(a, a)
<1>1. a \in SUBSET (1 .. N)  BY DEF OriginalModels, ModelsOf
<1>2. /\ d \in Models /\ First(d) = a /\ Second(d) = a
      /\ \A k \in 1 .. Len(input.sampling) : Indic(k) \in d <=> Differs(input.sampling[k], d)
  BY <1>1, CompleteSizes, JoinModels, PairParts DEF Models
<1> HIDE DEF d
<1>3. ASSUME NEW k \in 1 .. Len(input.sampling) PROVE ~ Differs(input.sampling[k], d)
  <2>1. input \in Inputs  BY CompleteSizes
  <2>2. input.sampling[k] \in 1 .. N  BY <2>1, InputIs
  <2> QED  BY <1>2, <2>2 DEF Differs, First, Second
<1> QED  BY <1>2, <1>3 DEF d

\* A variable of the first copy can be equal to literals of the first copy only: the copies
\* are independent of one another, and no indicator is true if they are the same.
LEMMA WithinCopy ==
    ASSUME Complete, ReplInv, NEW v \in DOMAIN repl, v <= N
    PROVE  v \in 1 .. N /\ Var(repl[v]) \in 1 .. N
<1> DEFINE n == Len(input.sampling)
           r == repl[v]
           u == Var(r)
<1>1. /\ N \in Nat /\ n \in Nat /\ nVars = N + N + n  BY CompleteSizes
<1>2. /\ v \in 1 .. N /\ r \in Int /\ r # 0 /\ u \in 1 .. nVars
      /\ \A d \in Models : v \in d <=> True(r, d)
  <2>1. /\ v \in 1 .. nVars /\ r \in Int /\ u \in 1 .. nVars
        /\ AreEqual(Models, v, r)
    BY DEF ReplInv
  <2> HIDE DEF r, u
  <2>2. r # 0 /\ \A d \in Models : v \in d <=> True(r, d)  BY <2>1 DEF AreEqual
  <2>3. v \in 1 .. N
    <3>1. v \in 1 .. nVars /\ nVars \in Nat /\ v <= N  BY <2>1, CompleteSizes
    <3> QED  BY <1>1, <3>1
  <2> QED  BY <2>1, <2>2, <2>3
<1>3. PICK x \in Models, y \in Models : v \in x /\ v \notin y
  BY DEF ReplInv, AreEqual
<1> DEFINE a == First(x)
           b == First(y)
<1>4. a \in OriginalModels /\ b \in OriginalModels /\ v \in a /\ v \notin b
  BY <1>2, <1>3, SplitModel DEF Models, First
<1>5. a \in SUBSET (1 .. N) /\ b \in SUBSET (1 .. N)  BY DEF First
<1> HIDE DEF a, b, r, u, n
<1>6. u = Var(r)  BY DEF u
<1>7. ASSUME NEW d \in Models, NEW e \in Models, First(d) = a, First(e) = b, u \in d <=> u \in e
      PROVE  FALSE
  <2>1. v \in d /\ v \notin e  BY <1>2, <1>4, <1>7 DEF First
  <2>2. True(r, d) <=> True(r, e)  BY <1>2, <1>6, <1>7, TrueOfVar
  <2> QED  BY <1>2, <2>1, <2>2
<1>8. ASSUME u \in N + 1 .. N + N PROVE FALSE
  <2> DEFINE d == Pair(a, a)
             e == Pair(b, a)
  <2>1. /\ d \in Models /\ e \in Models /\ First(d) = a /\ First(e) = b
        /\ Second(d) = a /\ Second(e) = a
    BY <1>4, <1>5, CompleteSizes, JoinModels, PairParts DEF Models
  <2> HIDE DEF d, e
  <2>2. u - N \in 1 .. N /\ (u - N) + N = u  BY <1>1, <1>8
  <2>3. /\ u - N \in Second(d) <=> u \in d
        /\ u - N \in Second(e) <=> u \in e
    BY <2>2 DEF Second
  <2> QED  BY <1>7, <2>1, <2>3
<1>9. ASSUME u > N + N PROVE FALSE
  <2> DEFINE k == u - (N + N)
  <2>1. k \in 1 .. n /\ Indic(k) = u  BY <1>1, <1>2, <1>9 DEF Indic
  <2>2. u \notin Pair(a, a) /\ u \notin Pair(b, b)  BY <1>4, <2>1, ModelTwice DEF n
  <2>3. /\ Pair(a, a) \in Models /\ Pair(b, b) \in Models
        /\ First(Pair(a, a)) = a /\ First(Pair(b, b)) = b
    BY <1>4, ModelTwice
  <2> QED  BY <1>7, <2>2, <2>3
<1>10. u \in 1 .. N  BY <1>1, <1>2, <1>8, <1>9
<1> QED  BY <1>2, <1>10 DEF u, r
\* What a literal is after the replacements.
LEMMA ReplacedLit ==
    ASSUME ReplInv, NEW l \in Int, l # 0
    PROVE  /\ Replaced(l) \in Int /\ Replaced(l) # 0
           /\ Var(Replaced(l)) = IF Var(l) \in DOMAIN repl THEN Var(repl[Var(l)]) ELSE Var(l)
<1>1. CASE Var(l) \notin DOMAIN repl
  BY <1>1 DEF Replaced
<1>2. CASE Var(l) \in DOMAIN repl
  <2> DEFINE r == repl[Var(l)]
  <2>1. r \in Int /\ r # 0
    BY <1>2 DEF ReplInv, AreEqual
  <2>2. Replaced(l) = IF l > 0 THEN r ELSE -r
    BY <1>2 DEF Replaced, Var
  <2> HIDE DEF r
  <2>3. -r \in Int /\ -r # 0 /\ Var(-r) = Var(r)  BY <2>1, VarOf
  <2>4. Replaced(l) \in Int /\ Replaced(l) # 0 /\ Var(Replaced(l)) = Var(r)
    BY <2>1, <2>2, <2>3
  <2> QED  BY <1>2, <2>4 DEF r
<1> QED  BY <1>1, <1>2

\* What get_simplified_cnf hands over.
ExportedSet ==
    { cl \in ClausesLeft : \A l \in cl : Var(l) <= N }
        \cup UNION { Equal(v, repl[v]) : v \in BinaryXors }

LEMMA XorLits ==
    ASSUME Complete, ReplInv, NEW v \in BinaryXors
    PROVE  /\ v \in 1 .. N /\ v \in Lits /\ repl[v] \in Lits /\ v \in DOMAIN repl
           /\ \A d \in Models : v \in d <=> True(repl[v], d)
<1>1. v \in DOMAIN repl /\ v <= N  BY DEF BinaryXors
<1>2. v \in 1 .. N /\ Var(repl[v]) \in 1 .. N  BY <1>1, WithinCopy
<1>3. /\ repl[v] \in Int /\ repl[v] # 0
      /\ \A d \in Models : v \in d <=> True(repl[v], d)
  BY <1>1 DEF ReplInv, AreEqual
<1>4. N \in Nat  BY CompleteSizes
<1>5. repl[v] \in Lits  BY <1>2, <1>3, <1>4 DEF Var, Lits
<1> QED  BY <1>1, <1>2, <1>3, <1>4, <1>5 DEF Lits

LEMMA ExportLits ==
    ASSUME Complete, ReplInv, NEW cl \in ExportedSet, NEW l \in cl
    PROVE  l \in Lits
<1>0. N \in Nat  BY CompleteSizes
<1>1. CASE cl \in ClausesLeft /\ \A m \in cl : Var(m) <= N
  <2>1. PICK c \in clauses : cl = { Replaced(m) : m \in c }  BY <1>1 DEF ClausesLeft
  <2>2. PICK m \in c : l = Replaced(m)  BY <2>1
  <2>3. m \in Int /\ m # 0  BY ClauseLits
  <2>4. l \in Int /\ l # 0 /\ Var(l) <= N  BY <1>1, <2>2, <2>3, ReplacedLit
  <2> QED  BY <1>0, <2>4 DEF Var, Lits
<1>2. CASE \E v \in BinaryXors : cl \in Equal(v, repl[v])
  <2>1. PICK v \in BinaryXors : cl \in Equal(v, repl[v])  BY <1>2
  <2>2. v \in Lits /\ repl[v] \in Lits  BY XorLits
  <2>3. l \in {v, -v, repl[v], -repl[v]}  BY <2>1 DEF Equal
  <2> QED  BY <1>0, <2>2, <2>3 DEF Lits
<1>3. \/ cl \in ClausesLeft /\ \A m \in cl : Var(m) <= N
      \/ \E v \in BinaryXors : cl \in Equal(v, repl[v])
  BY DEF ExportedSet
<1> QED  BY <1>1, <1>2, <1>3

\* The equalities the solver has found hold for the input.
LEMMA XorsHold ==
    ASSUME Complete, ReplInv, NEW a \in OriginalModels, NEW v \in BinaryXors
    PROVE  v \in a <=> True(repl[v], a)
<1> DEFINE d == Pair(a, a)
<1>1. d \in Models /\ First(d) = a  BY ModelTwice
<1> HIDE DEF d
<1>2. /\ v \in 1 .. N /\ repl[v] \in Lits /\ (v \in d <=> True(repl[v], d))
  BY <1>1, XorLits
<1>3. True(repl[v], a) <=> True(repl[v], d)  BY <1>1, <1>2, LitFirst
<1>4. v \in a <=> v \in d  BY <1>1, <1>2 DEF First
<1> QED  BY <1>2, <1>3, <1>4

\* What is handed over holds for the input,
LEMMA ExportSound ==
    ASSUME Complete, ReplInv, NEW a \in OriginalModels, NEW cl \in ExportedSet
    PROVE  Satisfied(cl, a)
<1>1. CASE cl \in ClausesLeft
  <2> DEFINE d == Pair(a, a)
  <2>1. d \in Models /\ First(d) = a  BY ModelTwice
  <2> HIDE DEF d
  <2>2. PICK c \in clauses : cl = { Replaced(m) : m \in c }  BY <1>1 DEF ClausesLeft
  <2>3. PICK m \in c : True(m, d)  BY <2>1 DEF Models, ModelsOf, Meets
  <2>4. m \in Int /\ m # 0  BY ClauseLits
  <2>5. Var(m) \in DOMAIN repl => (Var(m) \in d <=> True(repl[Var(m)], d))
    BY <2>1 DEF ReplInv, AreEqual
  <2>6. True(Replaced(m), d)  BY <2>3, <2>4, <2>5, ReplacedMeans
  <2>7. Replaced(m) \in cl /\ Replaced(m) \in Lits  BY <2>2, ExportLits
  <2>8. True(Replaced(m), a)  BY <2>1, <2>6, <2>7, LitFirst
  <2> QED  BY <2>7, <2>8 DEF Satisfied
<1>2. CASE \E v \in BinaryXors : cl \in Equal(v, repl[v])
  <2>1. PICK v \in BinaryXors : cl \in Equal(v, repl[v])  BY <1>2
  <2>2. v \in 1 .. N /\ repl[v] \in Lits  BY XorLits
  <2>3. v \in Nat /\ v > 0 /\ repl[v] \in Int /\ repl[v] # 0
    BY <2>2, InputsAssumption DEF Lits
  <2>4. v \in a <=> True(repl[v], a)  BY XorsHold
  <2> QED  BY <2>1, <2>3, <2>4, EqualMeans
<1> QED  BY <1>1, <1>2 DEF ExportedSet

\* and says all the input does.
LEMMA ExportAll ==
    ASSUME Complete, ReplInv, bnns = <<>>, NEW a \in SUBSET (1 .. N),
           \A cl \in ExportedSet : Satisfied(cl, a)
    PROVE  a \in OriginalModels
<1>0. input \in Inputs /\ N \in Nat  BY CompleteSizes
<1>1. Range(input.bnns) = {}
  <2>1. BothBnns = <<>>  BY AtTheEnd
  <2>2. Range(BothBnns) = {}  BY <2>1 DEF Range
  <2> QED  BY <1>0, <2>2, RangeBoth
<1>2. ASSUME NEW v \in DOMAIN repl, v <= N
      PROVE  /\ Var(repl[v]) \in 1 .. N
             /\ v \in a <=> True(repl[v], a)
  <2>1. v \in 1 .. N /\ Var(repl[v]) \in 1 .. N  BY <1>2, WithinCopy
  <2>2. v \in BinaryXors  BY <1>0, <2>1 DEF BinaryXors
  <2>3. repl[v] \in Lits  BY <2>2, XorLits
  <2>4. v \in Nat /\ v > 0 /\ repl[v] \in Int /\ repl[v] # 0  BY <1>0, <2>1, <2>3 DEF Lits
  <2>5. \A cl \in Equal(v, repl[v]) : Satisfied(cl, a)  BY <2>2 DEF ExportedSet
  <2> QED  BY <2>1, <2>4, <2>5, EqualMeans
<1>3. ASSUME NEW c \in input.cnf PROVE Satisfied(c, a)
  <2> DEFINE cl == { Replaced(l) : l \in c }
  <2>1. ASSUME NEW l \in c
        PROVE  /\ Replaced(l) \in Int /\ Replaced(l) # 0 /\ Var(Replaced(l)) <= N
               /\ True(Replaced(l), a) <=> True(l, a)
    <3>1. l \in Lits  BY <1>0, InputIs
    <3>2. l \in Int /\ l # 0 /\ Var(l) <= N  BY <1>0, <3>1 DEF Lits, Var
    <3>3. Var(l) \in DOMAIN repl => /\ Var(repl[Var(l)]) \in 1 .. N
                                    /\ Var(l) \in a <=> True(repl[Var(l)], a)
      BY <1>2, <3>2
    <3>4. /\ Replaced(l) \in Int /\ Replaced(l) # 0
          /\ Var(Replaced(l)) = IF Var(l) \in DOMAIN repl THEN Var(repl[Var(l)]) ELSE Var(l)
          /\ True(Replaced(l), a) <=> True(l, a)
      BY <3>2, <3>3, ReplacedMeans
    <3>5. Var(Replaced(l)) <= N  BY <1>0, <3>2, <3>3, <3>4
    <3> QED  BY <3>4, <3>5
  <2>2. Satisfied(cl, a) => Satisfied(c, a)  BY <2>1 DEF Satisfied
  <2>3. CASE Tautology(cl)
    <3>1. PICK m \in cl : -m \in cl  BY <2>3 DEF Tautology
    <3>2. m \in Int /\ m # 0  BY <2>1
    <3>3. True(m, a) \/ True(-m, a)  BY <3>2, TrueNegated
    <3>4. Satisfied(cl, a)  BY <3>1, <3>3 DEF Satisfied
    <3> QED  BY <2>2, <3>4
  <2>4. CASE ~ Tautology(cl)
    <3>1. c \in clauses  BY AtTheEnd DEF BothClauses
    <3>2. cl \in ClausesLeft  BY <2>4, <3>1 DEF ClausesLeft
    <3>3. cl \in ExportedSet  BY <2>1, <3>2 DEF ExportedSet
    <3> QED  BY <2>2, <3>3
  <2> QED  BY <2>3, <2>4
<1> QED  BY <1>1, <1>3 DEF OriginalModels, ModelsOf, Meets, Satisfied
-----------------------------------------------------------------------------
(* The result: the new numbers *)

Stay == (1 .. N) \ emptyVars
HowMany == N - Cardinality(emptyVars)

\* The variables that stay get different numbers, from 1 to how many they are.
LEMMA NewNumbers ==
    ASSUME N \in Nat, emptyVars \subseteq 1 .. N
    PROVE  /\ IsFiniteSet(emptyVars) /\ HowMany \in Nat
           /\ \A v \in Stay : NewVar(v) \in 1 .. HowMany
           /\ \A v, w \in Stay : NewVar(v) = NewVar(w) => v = w
<1> DEFINE upTo(v) == { w \in 1 .. v : w \notin emptyVars }
<1>1. IsFiniteSet(1 .. N) /\ Cardinality(1 .. N) = N
  <2>1. IsFiniteSet(1 .. N) /\ Cardinality(1 .. N) = IF 1 > N THEN 0 ELSE N - 1 + 1
    BY FS_Interval
  <2> QED  BY <2>1
<1>2. IsFiniteSet(emptyVars)  BY <1>1, FS_Subset
<1>3. Cardinality(emptyVars) \in Nat  BY <1>2, FS_CardinalityType
<1>4. IsFiniteSet(Stay) /\ Cardinality(Stay) = HowMany
  <2> DEFINE all == 1 .. N
  <2>1. all \cap emptyVars = emptyVars  OBVIOUS
  <2>2. IsFiniteSet(all) /\ Cardinality(all) = N  BY <1>1
  <2>3. Stay = all \ emptyVars  BY DEF Stay
  <2> HIDE DEF all
  <2>4. IsFiniteSet(Stay) /\ Cardinality(Stay) = Cardinality(all) - Cardinality(all \cap emptyVars)
    BY <2>2, <2>3, FS_Difference
  <2> QED  BY <2>1, <2>2, <2>4 DEF HowMany
<1>5. HowMany \in Nat  BY <1>4, FS_CardinalityType
<1>6. ASSUME NEW v \in 1 .. N
      PROVE  /\ upTo(v) \subseteq Stay /\ IsFiniteSet(upTo(v))
             /\ NewVar(v) = Cardinality(upTo(v)) /\ NewVar(v) \in Nat /\ NewVar(v) <= HowMany
  <2>1. upTo(v) \subseteq Stay  BY DEF Stay
  <2>2. NewVar(v) = Cardinality(upTo(v))  BY DEF NewVar
  <2> HIDE DEF upTo
  <2>3. IsFiniteSet(upTo(v)) /\ Cardinality(upTo(v)) <= Cardinality(Stay)
    BY <1>4, <2>1, FS_Subset
  <2>4. Cardinality(upTo(v)) \in Nat  BY <2>3, FS_CardinalityType
  <2> QED  BY <1>4, <2>1, <2>2, <2>3, <2>4
<1>7. ASSUME NEW v \in Stay PROVE NewVar(v) \in 1 .. HowMany
  <2>1. v \in 1 .. N /\ v \in upTo(v)  BY DEF Stay
  <2> HIDE DEF upTo
  <2>2. Cardinality(upTo(v)) # 0  BY <1>6, <2>1, FS_EmptySet
  <2> QED  BY <1>5, <1>6, <2>1, <2>2
<1>8. ASSUME NEW v \in Stay, NEW w \in Stay, v < w PROVE NewVar(v) # NewVar(w)
  <2>1. /\ v \in 1 .. N /\ w \in 1 .. N
        /\ upTo(v) \subseteq upTo(w) /\ w \in upTo(w) /\ w \notin upTo(v)
    BY <1>8 DEF Stay
  <2> HIDE DEF upTo
  <2>2. IsFiniteSet(upTo(w)) /\ upTo(v) # upTo(w)  BY <1>6, <2>1
  <2>3. Cardinality(upTo(v)) # Cardinality(upTo(w))  BY <2>1, <2>2, FS_Subset
  <2> QED  BY <1>6, <2>1, <2>3
<1>9. ASSUME NEW v \in Stay, NEW w \in Stay, NewVar(v) = NewVar(w) PROVE v = w
  <2>1. v \in Int /\ w \in Int  BY DEF Stay
  <2>2. ~ (v < w) /\ ~ (w < v)  BY <1>8, <1>9
  <2> QED  BY <2>1, <2>2
<1> QED  BY <1>2, <1>5, <1>7, <1>9

\* A literal that stays is true iff the renumbered one is, of assignments that correspond.
LEMMA TrueRenumbered ==
    ASSUME N \in Nat, emptyVars \subseteq 1 .. N, NEW l \in Lits, Var(l) \in Stay,
           NEW a, NEW b, Var(l) \in a <=> NewVar(Var(l)) \in b
    PROVE  /\ NewLit(l) \in Int /\ NewLit(l) # 0
           /\ True(NewLit(l), b) <=> True(l, a)
<1> DEFINE n == NewVar(Var(l))
<1>1. n \in Int /\ n > 0 /\ ~ (-n > 0) /\ -(-n) = n /\ -n # 0 /\ -n \in Int
  <2>1. n \in 1 .. HowMany /\ HowMany \in Nat  BY NewNumbers
  <2> HIDE DEF n
  <2> QED  BY <2>1
<1>2. NewLit(l) = IF l > 0 THEN n ELSE -n  BY DEF NewLit, Var
<1>3. True(l, a) <=> IF l > 0 THEN Var(l) \in a ELSE Var(l) \notin a  BY DEF True, Var
<1>4. Var(l) \in a <=> n \in b  OBVIOUS
<1> HIDE DEF n
<1>5. CASE l > 0
  <2>1. True(NewLit(l), b) <=> n \in b  BY <1>1, <1>2, <1>5 DEF True
  <2> QED  BY <1>1, <1>2, <1>3, <1>4, <1>5, <2>1
<1>6. CASE ~ (l > 0)
  <2>1. True(NewLit(l), b) <=> n \notin b  BY <1>1, <1>2, <1>6 DEF True
  <2> QED  BY <1>1, <1>2, <1>3, <1>4, <1>6, <2>1
<1> QED  BY <1>5, <1>6

\* The part of an assignment that stays.
Renumbered(a) == { NewVar(v) : v \in a \cap Stay }

LEMMA RenumberedHas ==
    ASSUME N \in Nat, emptyVars \subseteq 1 .. N, NEW a, NEW v \in Stay
    PROVE  NewVar(v) \in Renumbered(a) <=> v \in a
BY NewNumbers DEF Renumbered

LEMMA SatisfiedRenumbered ==
    ASSUME N \in Nat, emptyVars \subseteq 1 .. N, NEW cl, NEW a, NEW b,
           \A l \in cl : /\ l \in Lits /\ Var(l) \in Stay
                         /\ Var(l) \in a <=> NewVar(Var(l)) \in b
    PROVE  Satisfied({ NewLit(l) : l \in cl }, b) <=> Satisfied(cl, a)
<1>1. \A l \in cl : True(NewLit(l), b) <=> True(l, a)  BY TrueRenumbered
<1> QED  BY <1>1 DEF Satisfied
-----------------------------------------------------------------------------
(* The result: what each step leaves *)

Rounds == {"duplicate", "bve", "fixed", "indicators", "done"}
Results == {"export", "fill", "filled", "renumber", "cnf", "abort"}

\* The caller's arguments, and what the solver knows.
Arguments ==
    /\ Complete /\ bnns = <<>>
    /\ samplSet \subseteq Tested /\ emptyVars \subseteq samplSet
    /\ EqualsInv /\ ReplInv

\* The exported clauses are over the input's variables and have its models.
ExportIs ==
    /\ \A cl \in exported : \A l \in cl : l \in Lits
    /\ \A a \in SUBSET (1 .. N) :
           a \in OriginalModels <=> \A cl \in exported : Satisfied(cl, a)

\* The clauses the new solver takes over.
Carried == { { NewLit(l) : l \in cl } : cl \in { c \in exported : \A l \in c : ~ Seen(l) } }

\* It gets all of them, and besides only equalities that hold for the input.
FilledIs ==
    /\ Carried \subseteq filled
    /\ \A cl \in filled \ Carried : \E v \in Stay, l \in Lits :
           /\ cl \in Equal(NewVar(v), NewLit(l)) /\ Var(l) \in Stay
           /\ \A a \in OriginalModels : v \in a <=> True(l, a)
    /\ kept = { NewVar(v) : v \in samplSet \ emptyVars }

LongTouched == \E cl \in exported : (\E l \in cl : Seen(l)) /\ Cardinality(cl) # 2

ResultInv ==
    /\ pc \in Rounds \cup Results
    /\ pc \in Rounds => DoubledInv /\ repl = <<>>
    /\ pc \in Results => Arguments
    /\ pc \in Results \ {"export"} => ExportIs
    /\ pc = "filled" => filled = Carried
    /\ pc = "abort" => LongTouched
    /\ pc \in {"renumber", "cnf"} => FilledIs
    /\ pc = "cnf" => multiply = Cardinality(emptyVars)

\* What depends on the doubled problem and the arguments stays with them.
LEMMA SameProblem ==
    ASSUME UNCHANGED doubled
    PROVE  /\ Complete' <=> Complete
           /\ Models' = Models /\ OriginalModels' = OriginalModels /\ Tested' = Tested
           /\ bnns' = bnns /\ nVars' = nVars
<1>1. UNCHANGED <<input, nVars, clauses, bnns, varToIndic, indicToVar, dontElim, eliminable, at>>
  BY DEF doubled
<1>2. /\ Spared' <=> Spared
      /\ Tested' = Tested /\ InputCopies' = InputCopies
  BY <1>1 DEF Spared, InputCopies, Tested
<1>3. Connecting' <=> Connecting
  BY <1>1 DEF Connecting, BothClauses, BothBnns, Connected, Entries
<1>4. Complete' <=> Complete  BY <1>1, <1>2, <1>3 DEF Complete
<1>5. Models' = Models /\ OriginalModels' = OriginalModels
  BY <1>1 DEF Models, OriginalModels
<1> QED  BY <1>1, <1>2, <1>4, <1>5

LEMMA SameArguments ==
    ASSUME UNCHANGED <<doubled, equals, call>>, Arguments
    PROVE  /\ repl' = repl \/ ReplInv' => Arguments'
           /\ Stay' = Stay /\ OriginalModels' = OriginalModels
           /\ samplSet' = samplSet /\ emptyVars' = emptyVars
<1>1. /\ UNCHANGED doubled /\ equals' = equals
      /\ samplSet' = samplSet /\ emptyVars' = emptyVars
  BY DEF call
<1>2. EqualsInv' <=> EqualsInv  BY <1>1, SameProblem DEF EqualsInv
<1>3. repl' = repl => (ReplInv' <=> ReplInv)  BY <1>1, SameProblem DEF ReplInv
<1>4. Stay' = Stay  BY <1>1 DEF Stay
<1> QED  BY <1>1, <1>2, <1>3, <1>4, SameProblem DEF Arguments

LEMMA SameExport ==
    ASSUME UNCHANGED <<doubled, exported, emptyVars>>
    PROVE  /\ ExportIs' <=> ExportIs
           /\ Carried' = Carried
           /\ LongTouched' <=> LongTouched
<1>1. UNCHANGED doubled /\ exported' = exported /\ emptyVars' = emptyVars  OBVIOUS
<1>2. ExportIs' <=> ExportIs  BY <1>1, SameProblem DEF ExportIs
<1>3. Carried' = Carried /\ (LongTouched' <=> LongTouched)
  BY <1>1 DEF Carried, LongTouched, NewLit, NewVar, Seen
<1> QED  BY <1>2, <1>3

LEMMA ResultInitInv == ResultInit => ResultInv
BY InitInv DEF ResultInit, ResultInv, Init, Rounds, Results

LEMMA RoundsKeep ==
    ASSUME ResultInv, Step, UNCHANGED <<equals, repl, call, exported, filled, kept, multiply>>
    PROVE  ResultInv'
<1>1. pc \in Rounds /\ pc' \in Rounds
  BY DEF Step, Duplicate, Eliminate, StartFixed, AddIndicator, ProtectSampling, Rounds
<1>2. DoubledInv /\ repl = <<>>  BY <1>1 DEF ResultInv
<1>3. DoubledInv'  BY <1>2, InvStep DEF Next
<1> QED  BY <1>1, <1>2, <1>3 DEF ResultInv, Rounds, Results

LEMMA SupportKeeps == ASSUME ResultInv, Support PROVE ResultInv'
<1>1. /\ pc = "done" /\ pc' = "export" /\ bnns = <<>>
      /\ samplSet' \in SUBSET Tested /\ emptyVars' \in SUBSET samplSet'
      /\ equals' = { e \in (1 .. nVars) \X (-nVars .. nVars) : AreEqual(Models, e[1], e[2]) }
      /\ UNCHANGED doubled /\ repl' = repl
  BY DEF Support, Models
<1>2. Complete /\ repl = <<>>  BY <1>1 DEF ResultInv, DoubledInv, Rounds
<1>3. EqualsInv'
  <2> SUFFICES ASSUME NEW v, NEW r, <<v, r>> \in equals'
               PROVE  v \in 1 .. nVars /\ r \in -nVars .. nVars /\ AreEqual(Models, v, r)
    BY <1>1, SameProblem DEF EqualsInv
  <2> QED  BY <1>1
<1>4. ReplInv'  BY <1>1, <1>2 DEF ReplInv
<1>5. Arguments'  BY <1>1, <1>2, <1>3, <1>4, SameProblem DEF Arguments
<1> QED  BY <1>1, <1>5 DEF ResultInv, Rounds, Results

LEMMA ReplacedKeeps == ASSUME ResultInv, NEW v, NEW r, Replace(v, r) PROVE ResultInv'
<1>1. /\ pc \in {"export", "filled"} /\ pc' = pc /\ exported' = exported /\ filled' = filled
      /\ UNCHANGED <<doubled, equals, call>> /\ UNCHANGED <<doubled, exported, emptyVars>>
  BY DEF Replace, vars, doubled, call
<1>2. Arguments  BY <1>1 DEF ResultInv, Results
<1>3. ReplInv'  BY <1>2, CompleteSizes, ReplaceKeeps DEF Arguments
<1>4. Arguments'  BY <1>1, <1>2, <1>3, SameArguments
<1> QED  BY <1>1, <1>4, SameExport DEF ResultInv, Rounds, Results

LEMMA ExportKeeps == ASSUME ResultInv, Export PROVE ResultInv'
<1>1. /\ pc = "export" /\ pc' = "fill" /\ exported' = ExportedSet
      /\ UNCHANGED <<doubled, equals, call>> /\ UNCHANGED doubled /\ repl' = repl
  BY DEF Export, ExportedSet
<1>2. Arguments  BY <1>1 DEF ResultInv, Results
<1>3. Arguments'  BY <1>1, <1>2, SameArguments
<1>4. ExportIs'
  <2>1. \A cl \in ExportedSet : \A l \in cl : l \in Lits
    BY <1>2, ExportLits DEF Arguments
  <2>2. ASSUME NEW a \in SUBSET (1 .. N)
        PROVE  a \in OriginalModels <=> \A cl \in ExportedSet : Satisfied(cl, a)
    BY <1>2, ExportSound, ExportAll DEF Arguments
  <2> QED  BY <1>1, <2>1, <2>2, SameProblem DEF ExportIs
<1> QED  BY <1>1, <1>3, <1>4 DEF ResultInv, Rounds, Results

LEMMA FillKeeps == ASSUME ResultInv, Fill PROVE ResultInv'
<1>1. /\ pc = "fill" /\ filled' = Carried
      /\ pc' = IF \A cl \in exported : (\E l \in cl : Seen(l)) => Cardinality(cl) = 2
                  THEN "filled" ELSE "abort"
      /\ UNCHANGED <<doubled, equals, call>> /\ UNCHANGED <<doubled, exported, emptyVars>>
      /\ repl' = repl
  BY DEF Fill, Carried, call
<1>2. Arguments /\ ExportIs  BY <1>1 DEF ResultInv, Results
<1>3. Arguments'  BY <1>1, <1>2, SameArguments
<1>4. pc' = "abort" => LongTouched  BY <1>1 DEF LongTouched
<1>5. pc' \in {"filled", "abort"}  BY <1>1
<1> QED  BY <1>1, <1>2, <1>3, <1>4, <1>5, SameExport DEF ResultInv, Rounds, Results

LEMMA FinishKeeps == ASSUME ResultInv, Finish PROVE ResultInv'
<1> DEFINE unseen == { w \in BinaryXors : ~ Seen(w) /\ ~ Seen(repl[w]) }
           added == UNION { Equal(NewVar(v), NewLit(repl[v])) : v \in unseen }
<1>1. /\ pc = "filled" /\ pc' = "renumber" /\ filled' = filled \cup added
      /\ kept' = { NewVar(v) : v \in samplSet \ emptyVars }
      /\ UNCHANGED <<doubled, equals, call>> /\ UNCHANGED <<doubled, exported, emptyVars>>
      /\ UNCHANGED doubled /\ repl' = repl /\ emptyVars' = emptyVars /\ samplSet' = samplSet
  BY DEF Finish, call
<1>2. Arguments /\ ExportIs /\ filled = Carried  BY <1>1 DEF ResultInv, Results
<1>3. Arguments'  BY <1>1, <1>2, SameArguments
<1> HIDE DEF added
<1>4. ASSUME NEW cl \in added
      PROVE  \E v \in Stay, l \in Lits :
                 /\ cl \in Equal(NewVar(v), NewLit(l)) /\ Var(l) \in Stay
                 /\ \A a \in OriginalModels : v \in a <=> True(l, a)
  <2>1. PICK v \in unseen : cl \in Equal(NewVar(v), NewLit(repl[v]))  BY DEF added
  <2>2. /\ v \in BinaryXors /\ ~ Seen(v) /\ ~ Seen(repl[v])
        /\ Complete /\ ReplInv /\ N \in Nat
    BY <1>2, CompleteSizes DEF Arguments
  <2> DEFINE r == repl[v]
  <2>3. /\ v \in 1 .. N /\ v \in Lits /\ r \in Lits
        /\ \A a \in OriginalModels : v \in a <=> True(r, a)
    BY <2>2, XorLits, XorsHold
  <2>4. cl \in Equal(NewVar(v), NewLit(r)) /\ ~ Seen(r)  BY <2>1, <2>2
  <2> HIDE DEF r, unseen
  <2>5. Var(v) = v /\ Var(r) \in 1 .. N  BY <2>2, <2>3 DEF Var, Lits
  <2>6. v \in Stay /\ Var(r) \in Stay  BY <2>2, <2>3, <2>4, <2>5 DEF Seen, Stay
  <2> QED  BY <2>3, <2>4, <2>6
<1>5. FilledIs'
  <2>1. Carried' = Carried  BY <1>1, SameExport
  <2>2. /\ Stay' = Stay /\ OriginalModels' = OriginalModels
        /\ \A v : NewVar(v)' = NewVar(v)
        /\ \A l : NewLit(l)' = NewLit(l)
    BY <1>1, <1>2, SameArguments DEF NewLit, NewVar
  <2>3. /\ Carried \subseteq filled'
        /\ \A cl \in filled' \ Carried : cl \in added
    BY <1>1, <1>2
  <2>4. kept' = { NewVar(v)' : v \in samplSet' \ emptyVars' }  BY <1>1, <2>2
  <2> QED  BY <1>4, <2>1, <2>2, <2>3, <2>4 DEF FilledIs
<1> QED  BY <1>1, <1>2, <1>3, <1>5, SameExport DEF ResultInv, Rounds, Results

LEMMA ReturnKeeps == ASSUME ResultInv, Return PROVE ResultInv'
<1>1. /\ pc = "renumber" /\ pc' = "cnf" /\ multiply' = Cardinality(emptyVars)
      /\ UNCHANGED <<doubled, equals, call>> /\ UNCHANGED <<doubled, exported, emptyVars>>
      /\ UNCHANGED <<repl, filled, kept, emptyVars, samplSet>>
  BY DEF Return, call
<1>2. Arguments /\ ExportIs /\ FilledIs  BY <1>1 DEF ResultInv, Results
<1>3. Arguments'  BY <1>1, <1>2, SameArguments
<1>4. FilledIs'
  <2>1. Carried' = Carried  BY <1>1, SameExport
  <2>2. /\ Stay' = Stay /\ OriginalModels' = OriginalModels
        /\ \A v : NewVar(v)' = NewVar(v)
        /\ \A l : NewLit(l)' = NewLit(l)
    BY <1>1, <1>2, SameArguments DEF NewLit, NewVar
  <2> QED  BY <1>1, <1>2, <2>1, <2>2 DEF FilledIs
<1> QED  BY <1>1, <1>2, <1>3, <1>4, SameExport DEF ResultInv, Rounds, Results

LEMMA StopKeeps == ASSUME ResultInv, UNCHANGED allVars PROVE ResultInv'
<1>1. /\ UNCHANGED vars /\ UNCHANGED doubled /\ pc' = pc
      /\ UNCHANGED <<doubled, equals, call>> /\ UNCHANGED <<doubled, exported, emptyVars>>
      /\ UNCHANGED <<equals, repl, samplSet, emptyVars, exported, filled, kept, multiply>>
  BY DEF allVars, vars, doubled, call
<1>2. DoubledInv => DoubledInv'  BY <1>1, InvStep
<1>3. Arguments => Arguments'  BY <1>1, SameArguments
<1>4. FilledIs => FilledIs'
  <2>1. Carried' = Carried  BY <1>1, SameExport
  <2>2. /\ Stay' = Stay /\ OriginalModels' = OriginalModels
        /\ \A v : NewVar(v)' = NewVar(v)
        /\ \A l : NewLit(l)' = NewLit(l)
    BY <1>1, SameProblem DEF Stay, NewLit, NewVar
  <2> QED  BY <1>1, <2>1, <2>2 DEF FilledIs
<1> QED  BY <1>1, <1>2, <1>3, <1>4, SameExport DEF ResultInv

LEMMA ResultInvHolds == ResultSpec => []ResultInv
<1>1. ResultInv /\ [ResultNext]_allVars => ResultInv'
  <2> SUFFICES ASSUME ResultInv, [ResultNext]_allVars PROVE ResultInv'  OBVIOUS
  <2>1. CASE Step /\ UNCHANGED <<equals, repl, call, exported, filled, kept, multiply>>
    BY <2>1, RoundsKeep
  <2>2. CASE \E e \in equals : Replace(e[1], e[2])  BY <2>2, ReplacedKeeps
  <2>3. CASE Support  BY <2>3, SupportKeeps
  <2>4. CASE Export  BY <2>4, ExportKeeps
  <2>5. CASE Fill  BY <2>5, FillKeeps
  <2>6. CASE Finish  BY <2>6, FinishKeeps
  <2>7. CASE Return  BY <2>7, ReturnKeeps
  <2>8. CASE UNCHANGED allVars  BY <2>8, StopKeeps
  <2> QED
    BY <2>1, <2>2, <2>3, <2>4, <2>5, <2>6, <2>7, <2>8 DEF ResultNext, ResultStep, ResultStopped
<1> QED  BY ResultInitInv, <1>1, PTL DEF ResultSpec
-----------------------------------------------------------------------------
(* The result: how many models it has *)

\* What is known when the result is there.
Exported ==
    /\ N \in Nat /\ samplSet \subseteq 1 .. N /\ emptyVars \subseteq samplSet
    /\ ExportIs /\ Empty

Result == ModelsOf(filled, <<>>, HowMany)

\* v only follows the empty variable of the literal l: no other clause has v.
Follows(v, l) ==
    /\ v \in Stay /\ l \in Lits /\ Var(l) \in emptyVars
    /\ Equal(v, l) = { d \in exported : \E k \in d : Var(k) = v }

LEMMA TouchedFollows ==
    ASSUME Exported, NEW cl \in exported, NEW m \in cl, Seen(m)
    PROVE  \E v, l : Follows(v, l) /\ cl \in Equal(v, l)
<1>1. PICK v \in (1 .. N) \ emptyVars, l \in (-N .. N) \ {0} :
          cl \in Equal(v, l) /\ Equal(v, l) = { d \in exported : \E k \in d : Var(k) = v }
  BY DEF Exported, Empty
<1>2. v \in Stay /\ l \in Lits /\ N \in Nat  BY DEF Stay, Lits, Exported
<1>3. m \in {v, -v, l, -l}  BY <1>1 DEF Equal
<1>4. Var(v) = v /\ Var(-v) = v /\ Var(-l) = Var(l)  BY <1>2 DEF Stay, Lits, Var
<1>5. Var(m) \in emptyVars /\ v \notin emptyVars  BY <1>2 DEF Seen, Stay
<1>6. Var(l) \in emptyVars  BY <1>3, <1>4, <1>5
<1> QED  BY <1>1, <1>2, <1>6 DEF Follows

\* The clauses of a follower have two literals, the empty one among them,
LEMMA FollowsClauses ==
    ASSUME N \in Nat, NEW v, NEW l, Follows(v, l), NEW cl \in Equal(v, l)
    PROVE  /\ Cardinality(cl) = 2 /\ cl \in exported
           /\ \E m \in cl : Seen(m)
<1>1. /\ v \in Int /\ v > 0 /\ l \in Int /\ l # 0 /\ v \notin emptyVars /\ Var(l) \in emptyVars
      /\ cl \in exported
  BY DEF Follows, Stay, Lits
<1>2. v # -l /\ -v # l /\ Var(-l) = Var(l)  BY <1>1 DEF Var
<1>3. PICK x, y : cl = {x, y} /\ x # y /\ (y = l \/ y = -l)
  <2>1. cl = {-v, l} \/ cl = {v, -l}  BY DEF Equal
  <2> QED  BY <1>2, <2>1
<1>4. Cardinality({x, y}) = 2
  <2>1. IsFiniteSet({x}) /\ Cardinality({x}) = 1  BY FS_Singleton
  <2>2. Cardinality({x} \cup {y}) = Cardinality({x}) + 1  BY <1>3, <2>1, FS_AddElement
  <2>3. {x} \cup {y} = {x, y}  OBVIOUS
  <2> QED  BY <2>1, <2>2, <2>3
<1>5. Seen(y)  BY <1>1, <1>2, <1>3 DEF Seen
<1> QED  BY <1>1, <1>3, <1>4, <1>5

\* and it has one literal to follow.
LEMMA FollowsOne ==
    ASSUME N \in Nat, NEW v, NEW l, NEW m, Follows(v, l), Follows(v, m)
    PROVE  l = m
<1>1. /\ v \in Int /\ v > 0 /\ l \in Int /\ m \in Int /\ l # 0 /\ m # 0
      /\ v \notin emptyVars /\ Var(l) \in emptyVars /\ Var(m) \in emptyVars
      /\ Equal(v, l) = Equal(v, m)
  BY DEF Follows, Stay, Lits
<1>2. v # -m /\ v # m /\ v # -v /\ v # -l  BY <1>1 DEF Var
<1>3. {v, -l} = {-v, m} \/ {v, -l} = {v, -m}  BY <1>1 DEF Equal
<1>4. {v, -l} = {v, -m}  BY <1>2, <1>3
<1>5. -l = -m  BY <1>2, <1>4
<1> QED  BY <1>1, <1>5

\* The empty variables' values e and the result's assignment b make an assignment: what
\* follows an empty variable has its value, and the others are as in b.
Chosen(e, b) ==
    { v \in Stay : \/ \E l : Follows(v, l) /\ True(l, e)
                   \/ ~ (\E l : Follows(v, l)) /\ NewVar(v) \in b }
Joined(e, b) == e \cup Chosen(e, b)

LEMMA JoinedHas ==
    ASSUME N \in Nat, NEW e \in SUBSET emptyVars, NEW b
    PROVE  /\ \A v \in emptyVars : v \in Joined(e, b) <=> v \in e
           /\ \A v, l : Follows(v, l) => (v \in Joined(e, b) <=> True(l, e))
           /\ \A v \in Stay : ~ (\E l : Follows(v, l))
                               => (v \in Joined(e, b) <=> NewVar(v) \in b)
<1>1. \A v \in Stay : v \notin emptyVars  BY DEF Stay
<1>2. \A v \in Chosen(e, b) : v \in Stay  BY DEF Chosen
<1>3. ASSUME NEW v, NEW l, Follows(v, l) PROVE v \in Joined(e, b) <=> True(l, e)
  <2>1. v \in Stay /\ v \notin e  BY <1>1, <1>3 DEF Follows
  <2>2. \A m : Follows(v, m) => m = l  BY <1>3, FollowsOne
  <2> QED  BY <1>3, <2>1, <2>2 DEF Joined, Chosen
<1>4. ASSUME NEW v \in Stay, ~ \E l : Follows(v, l)
      PROVE  v \in Joined(e, b) <=> NewVar(v) \in b
  BY <1>1, <1>4 DEF Joined, Chosen
<1> QED  BY <1>1, <1>2, <1>3, <1>4 DEF Joined

\* It is a model of the input if b is one of the result.
LEMMA JoinedIsModel ==
    ASSUME Exported, FilledIs, NEW e \in SUBSET emptyVars, NEW b \in Result
    PROVE  Joined(e, b) \in OriginalModels
<1> DEFINE a == Joined(e, b)
<1>1. N \in Nat /\ emptyVars \subseteq 1 .. N  BY DEF Exported
<1>2. a \in SUBSET (1 .. N)  BY <1>1 DEF Joined, Chosen, Stay
<1>3. /\ \A v \in emptyVars : v \in a <=> v \in e
      /\ \A v, l : Follows(v, l) => (v \in a <=> True(l, e))
      /\ \A v \in Stay : ~ (\E l : Follows(v, l)) => (v \in a <=> NewVar(v) \in b)
  BY <1>1, JoinedHas
<1> HIDE DEF a
<1>4. ASSUME NEW cl \in exported, NEW m \in cl, Seen(m) PROVE Satisfied(cl, a)
  <2>1. PICK v, l : Follows(v, l) /\ cl \in Equal(v, l)  BY <1>4, TouchedFollows
  <2>2. /\ v \in Nat /\ v > 0 /\ l \in Int /\ l # 0 /\ Var(l) \in emptyVars
    BY <1>1, <2>1 DEF Follows, Stay, Lits
  <2>3. True(l, e) <=> True(l, a)  BY <1>3, <2>2, TrueOfVar
  <2>4. v \in a <=> True(l, a)  BY <1>3, <2>1, <2>3
  <2> QED  BY <2>1, <2>2, <2>4, EqualMeans
<1>5. ASSUME NEW cl \in exported, \A m \in cl : ~ Seen(m) PROVE Satisfied(cl, a)
  <2>1. ASSUME NEW m \in cl
        PROVE  /\ m \in Lits /\ Var(m) \in Stay
               /\ Var(m) \in a <=> NewVar(Var(m)) \in b
    <3>1. m \in Lits  BY DEF Exported, ExportIs
    <3>2. Var(m) \in 1 .. N  BY <1>1, <3>1 DEF Lits, Var
    <3>3. Var(m) \in Stay  BY <1>5, <3>2 DEF Seen, Stay
    <3>4. ASSUME NEW l, Follows(Var(m), l) PROVE FALSE
      <4>1. cl \in Equal(Var(m), l)  BY <3>4 DEF Follows
      <4>2. \E k \in cl : Seen(k)  BY <1>1, <3>4, <4>1, FollowsClauses
      <4> QED  BY <1>5, <4>2
    <3> QED  BY <1>3, <3>1, <3>3, <3>4
  <2>2. { NewLit(l) : l \in cl } \in filled  BY <1>5 DEF FilledIs, Carried
  <2>3. Satisfied({ NewLit(l) : l \in cl }, b)
    BY <2>2 DEF Result, ModelsOf, Meets, Satisfied
  <2> QED  BY <1>1, <2>1, <2>3, SatisfiedRenumbered
<1>6. \A cl \in exported : Satisfied(cl, a)  BY <1>4, <1>5
<1>7. a \in OriginalModels  BY <1>2, <1>6 DEF Exported, ExportIs
<1> QED  BY <1>7 DEF a

\* Of a model of the input, the part that stays is one of the result.
LEMMA RenumberedIsModel ==
    ASSUME Exported, FilledIs, NEW a \in OriginalModels
    PROVE  Renumbered(a) \in Result
<1> DEFINE b == Renumbered(a)
<1>1. N \in Nat /\ emptyVars \subseteq 1 .. N  BY DEF Exported
<1>2. /\ b \in SUBSET (1 .. HowMany)
      /\ \A v \in Stay : NewVar(v) \in b <=> v \in a
  BY <1>1, NewNumbers, RenumberedHas DEF Renumbered
<1>3. a \in SUBSET (1 .. N) /\ \A cl \in exported : Satisfied(cl, a)
  <2>1. a \in SUBSET (1 .. N)  BY DEF OriginalModels, ModelsOf
  <2> QED  BY <2>1 DEF Exported, ExportIs
<1> HIDE DEF b
<1>4. ASSUME NEW cl \in Carried PROVE Satisfied(cl, b)
  <2>1. PICK c \in exported : cl = { NewLit(l) : l \in c } /\ \A m \in c : ~ Seen(m)
    BY DEF Carried
  <2>2. ASSUME NEW m \in c
        PROVE  /\ m \in Lits /\ Var(m) \in Stay
               /\ Var(m) \in a <=> NewVar(Var(m)) \in b
    <3>1. m \in Lits  BY DEF Exported, ExportIs
    <3>2. Var(m) \in 1 .. N  BY <1>1, <3>1 DEF Lits, Var
    <3>3. Var(m) \in Stay  BY <2>1, <3>2 DEF Seen, Stay
    <3> QED  BY <1>2, <3>1, <3>3
  <2> QED  BY <1>1, <1>3, <2>1, <2>2, SatisfiedRenumbered
<1>5. ASSUME NEW cl \in filled \ Carried PROVE Satisfied(cl, b)
  <2>1. PICK v \in Stay, l \in Lits :
            /\ cl \in Equal(NewVar(v), NewLit(l)) /\ Var(l) \in Stay
            /\ v \in a <=> True(l, a)
    BY DEF FilledIs
  <2>2. Var(l) \in a <=> NewVar(Var(l)) \in b  BY <1>2, <2>1
  <2>3. /\ NewLit(l) \in Int /\ NewLit(l) # 0
        /\ True(NewLit(l), b) <=> True(l, a)
    BY <1>1, <2>1, <2>2, TrueRenumbered
  <2>4. NewVar(v) \in 1 .. HowMany /\ HowMany \in Nat  BY <1>1, NewNumbers
  <2>5. NewVar(v) \in Nat /\ NewVar(v) > 0  BY <2>4
  <2>6. NewVar(v) \in b <=> True(NewLit(l), b)  BY <1>2, <2>1, <2>3
  <2> QED  BY <2>1, <2>3, <2>5, <2>6, EqualMeans
<1>6. Meets(b, filled, <<>>)
  <2>1. \A cl \in filled : Satisfied(cl, b)  BY <1>4, <1>5
  <2>2. Range(<<>>) = {}  BY DEF Range
  <2> QED  BY <2>1, <2>2 DEF Meets, Satisfied
<1>7. b \in Result  BY <1>2, <1>6 DEF Result, ModelsOf
<1> QED  BY <1>7 DEF b

\* No variable to be kept follows an empty one: it would be determined by it.
LEMMA KeptFollowsNone ==
    ASSUME Exported, NEW v \in samplSet, NEW l, Follows(v, l)
    PROVE  FALSE
<1>1. /\ N \in Nat /\ v \in Nat /\ v > 0 /\ v \notin emptyVars
      /\ l \in Int /\ l # 0 /\ Var(l) \in emptyVars /\ Var(l) \in samplSet \ {v}
      /\ Equal(v, l) \subseteq exported
  <2>1. /\ N \in Nat /\ emptyVars \subseteq samplSet
        /\ v \in (1 .. N) \ emptyVars /\ l \in (-N .. N) \ {0} /\ Var(l) \in emptyVars
    BY DEF Exported, Follows, Stay, Lits
  <2>2. Equal(v, l) \subseteq exported  BY DEF Follows
  <2>3. Var(l) \in samplSet \ {v}  BY <2>1
  <2>4. v \in Nat /\ v > 0 /\ l \in Int /\ l # 0  BY <2>1
  <2> QED  BY <2>1, <2>2, <2>3, <2>4
<1>2. ASSUME NEW a \in OriginalModels PROVE v \in a <=> True(l, a)
  <2>1. a \in SUBSET (1 .. N)  BY DEF OriginalModels, ModelsOf
  <2>2. \A cl \in Equal(v, l) : Satisfied(cl, a)  BY <1>1, <2>1 DEF Exported, ExportIs
  <2> QED  BY <1>1, <2>2, EqualMeans
<1>3. ASSUME NEW a \in OriginalModels, NEW b \in OriginalModels, Agree(a, b, samplSet \ {v})
      PROVE  Agree(a, b, {v})
  <2>1. Var(l) \in a <=> Var(l) \in b  BY <1>1, <1>3 DEF Agree
  <2>2. True(l, a) <=> True(l, b)  BY <1>1, <2>1, TrueOfVar
  <2>3. v \in a <=> v \in b  BY <1>2, <2>2
  <2> QED  BY <2>3 DEF Agree
<1>4. Defines(OriginalModels, samplSet \ {v}, {v})  BY <1>3 DEF Defines
<1> QED  BY <1>4 DEF Exported, Empty
\* An assignment of the sampling set consists of one of the empty variables and one of the
\* variables to be kept.
Parts(p) == <<p \cap emptyVars, Renumbered(p)>>

InputCounted == Projected(OriginalModels, samplSet)
ResultCounted == Projected(Result, kept)

LEMMA PartsOfModel ==
    ASSUME Exported, FilledIs, NEW p \in InputCounted
    PROVE  Parts(p) \in (SUBSET emptyVars) \X ResultCounted
<1>1. PICK a \in OriginalModels : p = a \cap samplSet  BY DEF InputCounted, Projected
<1>2. /\ N \in Nat /\ emptyVars \subseteq 1 .. N
      /\ \A v \in samplSet \ emptyVars : v \in Stay
  BY DEF Exported, Stay
<1>3. Renumbered(a) \in Result  BY RenumberedIsModel
<1>4. Renumbered(p) = Renumbered(a) \cap kept
  <2>1. ASSUME NEW x \in Renumbered(p) PROVE x \in Renumbered(a) \cap kept
    <3>1. PICK v \in p \cap Stay : x = NewVar(v)  BY DEF Renumbered
    <3>2. v \in a \cap Stay /\ v \in samplSet \ emptyVars  BY <1>1 DEF Stay
    <3> QED  BY <3>1, <3>2 DEF Renumbered, FilledIs
  <2>2. ASSUME NEW x \in Renumbered(a) \cap kept PROVE x \in Renumbered(p)
    <3>1. PICK v \in samplSet \ emptyVars : x = NewVar(v)  BY DEF FilledIs
    <3>2. v \in Stay  BY <1>2
    <3>3. v \in a  BY <1>2, <3>1, <3>2, RenumberedHas
    <3> QED  BY <1>1, <3>1, <3>2, <3>3 DEF Renumbered
  <2> QED  BY <2>1, <2>2
<1>5. Renumbered(p) \in ResultCounted  BY <1>3, <1>4 DEF ResultCounted, Projected
<1> QED  BY <1>5 DEF Parts

LEMMA PartsDiffer ==
    ASSUME Exported, NEW p \in InputCounted, NEW q \in InputCounted, Parts(p) = Parts(q)
    PROVE  p = q
<1>1. /\ N \in Nat /\ emptyVars \subseteq 1 .. N
      /\ p \subseteq 1 .. N /\ q \subseteq 1 .. N
  BY DEF Exported, InputCounted, Projected
<1>2. p \cap emptyVars = q \cap emptyVars /\ Renumbered(p) = Renumbered(q)  BY DEF Parts
<1>3. \A v \in Stay : v \in p <=> v \in q  BY <1>1, <1>2, RenumberedHas
<1>4. \A v \in 1 .. N : v \in p <=> v \in q  BY <1>2, <1>3 DEF Stay
<1> QED  BY <1>1, <1>4

LEMMA PartsReach ==
    ASSUME Exported, FilledIs, NEW e \in SUBSET emptyVars, NEW q \in ResultCounted
    PROVE  \E p \in InputCounted : Parts(p) = <<e, q>>
<1>1. PICK b \in Result : q = b \cap kept  BY DEF ResultCounted, Projected
<1> DEFINE a == Joined(e, b)
           p == a \cap samplSet
<1>2. /\ N \in Nat /\ emptyVars \subseteq 1 .. N /\ emptyVars \subseteq samplSet
      /\ \A v \in samplSet \ emptyVars : v \in Stay
  BY DEF Exported, Stay
<1>3. a \in OriginalModels  BY JoinedIsModel
<1>4. /\ \A v \in emptyVars : v \in a <=> v \in e
      /\ \A v \in Stay : ~ (\E l : Follows(v, l)) => (v \in a <=> NewVar(v) \in b)
  BY <1>2, JoinedHas
<1> HIDE DEF a
<1>5. p \in InputCounted  BY <1>3 DEF InputCounted, Projected
<1>6. p \cap emptyVars = e  BY <1>2, <1>4
<1>7. \A v \in samplSet \ emptyVars : v \in a <=> NewVar(v) \in b
  BY <1>2, <1>4, KeptFollowsNone
<1>8. Renumbered(p) = q
  <2>1. ASSUME NEW x \in Renumbered(p) PROVE x \in q
    <3>1. PICK v \in p \cap Stay : x = NewVar(v)  BY DEF Renumbered
    <3>2. v \in samplSet \ emptyVars /\ v \in a  BY DEF Stay
    <3>3. x \in b  BY <1>7, <3>1, <3>2
    <3>4. x \in kept  BY <3>1, <3>2 DEF FilledIs
    <3> QED  BY <1>1, <3>3, <3>4
  <2>2. ASSUME NEW x \in q PROVE x \in Renumbered(p)
    <3>1. PICK v \in samplSet \ emptyVars : x = NewVar(v)  BY <1>1 DEF FilledIs
    <3>2. v \in Stay /\ v \in a  BY <1>1, <1>2, <1>7, <3>1
    <3> QED  BY <3>1, <3>2 DEF Renumbered
  <2> QED  BY <2>1, <2>2
<1>9. Parts(p) = <<e, q>>  BY <1>6, <1>8 DEF Parts
<1> QED  BY <1>5, <1>9

LEMMA ProjectedFinite ==
    ASSUME NEW n \in Nat, NEW models \in SUBSET SUBSET (1 .. n), NEW set
    PROVE  IsFiniteSet(Projected(models, set))
<1>1. IsFiniteSet(1 .. n)  BY FS_Interval
<1>2. IsFiniteSet(SUBSET (1 .. n))  BY <1>1, FS_SUBSET
<1>3. Projected(models, set) \in SUBSET SUBSET (1 .. n)
  <2> SUFFICES ASSUME NEW p \in Projected(models, set) PROVE p \in SUBSET (1 .. n)
    OBVIOUS
  <2>1. PICK a \in models : p = a \cap set  BY DEF Projected
  <2> QED  BY <2>1
<1> QED  BY <1>2, <1>3, FS_Subset

LEMMA Counts ==
    ASSUME Exported, FilledIs
    PROVE  Cardinality(InputCounted) = 2^Cardinality(emptyVars) * Cardinality(ResultCounted)
<1> DEFINE pairs == (SUBSET emptyVars) \X ResultCounted
           f == [p \in InputCounted |-> Parts(p)]
<1>1. N \in Nat /\ emptyVars \subseteq 1 .. N  BY DEF Exported
<1>2. IsFiniteSet(emptyVars) /\ HowMany \in Nat  BY <1>1, NewNumbers
<1>3. IsFiniteSet(InputCounted)
  <2>1. OriginalModels \in SUBSET SUBSET (1 .. N)  BY DEF OriginalModels, ModelsOf
  <2> QED  BY <1>1, <2>1, ProjectedFinite DEF InputCounted
<1>4. IsFiniteSet(ResultCounted)
  <2>1. Result \in SUBSET SUBSET (1 .. HowMany)  BY DEF Result, ModelsOf
  <2> QED  BY <1>2, <2>1, ProjectedFinite DEF ResultCounted
<1>5. f \in Bijection(InputCounted, pairs)
  <2>1. f \in [InputCounted -> pairs]  BY PartsOfModel
  <2>2. \A p, q \in InputCounted : f[p] = f[q] => p = q  BY PartsDiffer
  <2>3. \A x \in pairs : \E p \in InputCounted : f[p] = x
    <3> SUFFICES ASSUME NEW e \in SUBSET emptyVars, NEW q \in ResultCounted
                 PROVE  \E p \in InputCounted : f[p] = <<e, q>>
      OBVIOUS
    <3> QED  BY PartsReach
  <2> HIDE DEF f, pairs
  <2> QED  BY <2>1, <2>2, <2>3 DEF Bijection, Injection, Surjection, IsInjective
<1>6. Cardinality(pairs) = Cardinality(InputCounted)
  <2> HIDE DEF f, pairs
  <2> QED  BY <1>3, <1>5, FS_Bijection DEF ExistsBijection
<1>7. /\ IsFiniteSet(SUBSET emptyVars)
      /\ Cardinality(SUBSET emptyVars) = 2^Cardinality(emptyVars)
  BY <1>2, FS_SUBSET
<1>8. Cardinality(pairs) = Cardinality(SUBSET emptyVars) * Cardinality(ResultCounted)
  BY <1>4, <1>7, FS_Product
<1> QED  BY <1>6, <1>7, <1>8

\* With its factor the result counts what the input does (main.cpp 290), and
\* fill_solver_no_empty's assertion holds.
THEOREM ResultKeepsCount == ResultSpec => []CountIsKept
<1>1. ResultInv => CountIsKept
  <2> SUFFICES ASSUME ResultInv, pc \in {"cnf", "abort"}, Empty
               PROVE  /\ pc = "cnf"
                      /\ Cardinality(Projected(OriginalModels, samplSet)) =
                             2^multiply * Cardinality(Projected(
                                 ModelsOf(filled, <<>>, N - Cardinality(emptyVars)), kept))
    BY DEF CountIsKept
  <2>1. Arguments /\ ExportIs  BY DEF ResultInv, Results
  <2>2. Exported  BY <2>1, CompleteSizes DEF Exported, Arguments
  <2>3. pc # "abort"
    <3> SUFFICES ASSUME pc = "abort" PROVE FALSE  OBVIOUS
    <3>1. PICK cl \in exported : (\E m \in cl : Seen(m)) /\ Cardinality(cl) # 2
      BY DEF ResultInv, LongTouched
    <3>2. PICK v, l : Follows(v, l) /\ cl \in Equal(v, l)  BY <2>2, <3>1, TouchedFollows
    <3>3. N \in Nat  BY <2>2 DEF Exported
    <3> QED  BY <3>1, <3>2, <3>3, FollowsClauses
  <2>4. pc = "cnf"  BY <2>3
  <2>5. FilledIs /\ multiply = Cardinality(emptyVars)  BY <2>4 DEF ResultInv
  <2>6. Cardinality(InputCounted) = 2^multiply * Cardinality(ResultCounted)
    BY <2>2, <2>5, Counts
  <2> QED  BY <2>4, <2>6 DEF InputCounted, ResultCounted, Result, HowMany
<1> QED  BY ResultInvHolds, <1>1, PTL
=============================================================================
