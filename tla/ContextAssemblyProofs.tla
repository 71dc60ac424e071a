------------------------ MODULE ContextAssemblyProofs ------------------------
(* The assembled context fits its budget. Proofs for any texts, token counts, *)
(* budget and number of blocks.                                               *)
EXTENDS ContextAssembly, FiniteSetTheorems, FunctionTheorems, WellFoundedInduction, TLAPS

USE DEF contextVars

(* Induction over the naturals, of a set: what holds the first number and,    *)
(* with a number, the next one, holds them all.                               *)
LEMMA SetInduction ==
    ASSUME NEW S, 0 \in S, \A n \in Nat : n \in S => n + 1 \in S
    PROVE  Nat \subseteq S
  <1> SUFFICES ASSUME Nat \ S # {} PROVE FALSE
    OBVIOUS
  <1>1. PICK n \in Nat \ S : \A m \in Nat \ S : ~(<<m, n>> \in OpToRel(<, Nat))
    BY NatLessThanWellFounded, WFMin
  <1>2. n # 0 /\ n - 1 \in Nat /\ (n - 1) + 1 = n /\ n - 1 < n
    OBVIOUS
  <1>3. n - 1 \in S
    BY <1>1, <1>2 DEF OpToRel
  <1> QED BY <1>2, <1>3

----------------------------------------------------------------------------
(* Sums of the first numbers of a sequence.                                   *)
LEMMA SumsExist ==
    ASSUME NEW s \in Seq(Nat)
    PROVE  /\ Sums(s) \in [0 .. Len(s) -> Nat]
           /\ Sums(s)[0] = 0
           /\ \A k \in 1 .. Len(s) : Sums(s)[k] = Sums(s)[k - 1] + s[k]
  <1> DEFINE Summing(f, n) ==
                 f = [k \in 0 .. n |-> IF k = 0 THEN 0 ELSE f[k - 1] + s[k]]
             S == {n \in Nat : n <= Len(s) => \E f \in [0 .. n -> Nat] : Summing(f, n)}
             N == {n \in Nat : n <= Len(s) => Sums(s)[n] \in Nat}
  <1>1. 0 \in S
    <2> DEFINE g == [k \in 0 .. 0 |-> 0]
    <2>1. g \in [0 .. 0 -> Nat]
      OBVIOUS
    <2>2. \A k \in 0 .. 0 : g[k] = IF k = 0 THEN 0 ELSE g[k - 1] + s[k]
      OBVIOUS
    <2> HIDE DEF g
    <2>3. Summing(g, 0)
      BY <2>1, <2>2
    <2> QED BY <2>1, <2>3
  <1>2. ASSUME NEW n \in Nat, n \in S PROVE n + 1 \in S
    <2> HIDE DEF Summing
    <2> SUFFICES ASSUME n + 1 <= Len(s)
                 PROVE  \E f \in [0 .. n + 1 -> Nat] : Summing(f, n + 1)
      OBVIOUS
    <2>1. PICK g \in [0 .. n -> Nat] : Summing(g, n)
      BY <1>2
    <2> USE DEF Summing
    <2>2. \A k \in 0 .. n : g[k] = IF k = 0 THEN 0 ELSE g[k - 1] + s[k]
      BY <2>1
    <2> DEFINE f == [k \in 0 .. n + 1 |-> IF k = n + 1 THEN g[n] + s[n + 1] ELSE g[k]]
    <2>3. s[n + 1] \in Nat /\ f \in [0 .. n + 1 -> Nat]
      OBVIOUS
    <2>4. \A k \in 0 .. n + 1 : f[k] = IF k = 0 THEN 0 ELSE f[k - 1] + s[k]
      BY <2>2
    <2> HIDE DEF f
    <2>5. Summing(f, n + 1)
      BY <2>3, <2>4
    <2> QED BY <2>3, <2>5
  <1>3. \E f : Summing(f, Len(s))
    <2> HIDE DEF S
    <2>1. Len(s) \in S
      BY <1>1, <1>2, SetInduction
    <2> QED BY <2>1 DEF S
  <1>4. Sums(s) = [k \in 0 .. Len(s) |-> IF k = 0 THEN 0 ELSE Sums(s)[k - 1] + s[k]]
    BY <1>3, Zenon DEF Sums
  <1> HIDE DEF Summing
  <1>5. /\ Sums(s)[0] = 0
        /\ \A k \in 1 .. Len(s) : Sums(s)[k] = Sums(s)[k - 1] + s[k]
    <2> DEFINE f == Sums(s)
    <2>1. f = [k \in 0 .. Len(s) |-> IF k = 0 THEN 0 ELSE f[k - 1] + s[k]]
      BY <1>4
    <2> HIDE DEF f
    <2>2. f[0] = 0 /\ \A k \in 1 .. Len(s) : f[k] = f[k - 1] + s[k]
      BY <2>1
    <2> QED BY <2>2 DEF f
  <1>6. 0 \in N
    BY <1>5
  <1>7. ASSUME NEW n \in Nat, n \in N PROVE n + 1 \in N
    <2> SUFFICES ASSUME n + 1 <= Len(s) PROVE Sums(s)[n + 1] \in Nat
      OBVIOUS
    <2>1. n + 1 \in 1 .. Len(s) /\ (n + 1) - 1 = n /\ s[n + 1] \in Nat
      OBVIOUS
    <2>2. Sums(s)[n] \in Nat
      BY <1>7
    <2> QED BY <1>5, <2>1, <2>2
  <1>8. \A n \in 0 .. Len(s) : Sums(s)[n] \in Nat
    <2>1. Nat \subseteq N
      <3> HIDE DEF N
      <3> QED BY <1>6, <1>7, SetInduction
    <2> QED BY <2>1
  <1> QED BY <1>4, <1>5, <1>8

(* Smaller numbers have smaller sums; hence equal ones have equal sums.       *)
LEMMA SumsAreMonotonic ==
    ASSUME NEW s \in Seq(Nat), NEW t \in Seq(Nat), NEW n \in Nat, n <= Len(s), n <= Len(t),
           \A k \in 1 .. n : s[k] <= t[k]
    PROVE  \A k \in 0 .. n : Sums(s)[k] <= Sums(t)[k]
  <1> DEFINE S == {k \in Nat : k <= n => Sums(s)[k] <= Sums(t)[k]}
  <1>1. 0 \in S
    BY SumsExist
  <1>2. ASSUME NEW k \in Nat, k \in S PROVE k + 1 \in S
    <2> SUFFICES ASSUME k + 1 <= n PROVE Sums(s)[k + 1] <= Sums(t)[k + 1]
      OBVIOUS
    <2>1. /\ k + 1 \in 1 .. Len(s) /\ k + 1 \in 1 .. Len(t) /\ k + 1 \in 1 .. n
          /\ (k + 1) - 1 = k /\ k \in 0 .. Len(s) /\ k \in 0 .. Len(t)
      OBVIOUS
    <2>2. /\ Sums(s)[k + 1] = Sums(s)[k] + s[k + 1]
          /\ Sums(t)[k + 1] = Sums(t)[k] + t[k + 1]
          /\ Sums(s)[k] \in Nat /\ Sums(t)[k] \in Nat
      BY <2>1, SumsExist
    <2>3. s[k + 1] \in Nat /\ t[k + 1] \in Nat /\ s[k + 1] <= t[k + 1]
      BY <2>1
    <2>4. Sums(s)[k] <= Sums(t)[k]
      BY <1>2, <2>1
    <2> QED BY <2>2, <2>3, <2>4
  <1>3. Nat \subseteq S
    <2> HIDE DEF S
    <2> QED BY <1>1, <1>2, SetInduction
  <1> QED BY <1>3

LEMMA SumsOfEqualsAgree ==
    ASSUME NEW s \in Seq(Nat), NEW t \in Seq(Nat), NEW n \in Nat, n <= Len(s), n <= Len(t),
           \A k \in 1 .. n : s[k] = t[k]
    PROVE  \A k \in 0 .. n : Sums(s)[k] = Sums(t)[k]
  <1>1. \A k \in 1 .. n : s[k] \in Nat /\ s[k] <= t[k] /\ t[k] <= s[k]
    OBVIOUS
  <1>0. \A k \in 0 .. n : k \in 0 .. Len(s) /\ k \in 0 .. Len(t)
    OBVIOUS
  <1>2. \A k \in 0 .. n : Sums(s)[k] <= Sums(t)[k] /\ Sums(t)[k] <= Sums(s)[k]
    BY <1>1, SumsAreMonotonic
  <1>3. \A k \in 0 .. n : Sums(s)[k] \in Nat /\ Sums(t)[k] \in Nat
    BY <1>0, SumsExist
  <1> QED BY <1>2, <1>3

----------------------------------------------------------------------------
(* The loop of allocate. Its states, one after the other.                     *)
States == [selected : Seq(Blocks), used : Nat, dropped : Nat]

LEMMA ChargesArePositive ==
    ASSUME NEW b \in Blocks PROVE Charge(b) \in Nat /\ TokensOf[b.content] <= Charge(b)
  <1>1. b.content \in Contents
    BY DEF Blocks
  <1>2. TokensOf[b.content] \in Nat
    BY <1>1, ContextAssumption
  <1> QED BY <1>2 DEF Charge

LEMMA TakenExists ==
    ASSUME NEW o \in Seq(Blocks)
    PROVE  /\ Taken(o)[0] = NothingTaken
           /\ \A k \in 1 .. Len(o) : Taken(o)[k] = Take(Taken(o)[k - 1], o[k])
  <1> DEFINE Taking(f, n) ==
                 f = [k \in 0 .. n |-> IF k = 0 THEN NothingTaken ELSE Take(f[k - 1], o[k])]
             S == {n \in Nat : \E f : Taking(f, n)}
  <1>1. 0 \in S
    <2> DEFINE g == [k \in 0 .. 0 |-> NothingTaken]
    <2>1. \A k \in 0 .. 0 : g[k] = IF k = 0 THEN NothingTaken ELSE Take(g[k - 1], o[k])
      OBVIOUS
    <2>2. g = [k \in 0 .. 0 |-> g[k]]
      OBVIOUS
    <2> HIDE DEF g
    <2>3. Taking(g, 0)
      BY <2>1, <2>2
    <2> QED BY <2>3
  <1>2. ASSUME NEW n \in Nat, n \in S PROVE n + 1 \in S
    <2>1. PICK g : Taking(g, n)
      BY <1>2
    <2>2. \A k \in 0 .. n : g[k] = IF k = 0 THEN NothingTaken ELSE Take(g[k - 1], o[k])
      BY <2>1
    <2> DEFINE f == [k \in 0 .. n + 1 |-> IF k = n + 1 THEN Take(g[n], o[n + 1]) ELSE g[k]]
    <2>3. \A k \in 0 .. n + 1 :
              f[k] = IF k = 0 THEN NothingTaken ELSE Take(f[k - 1], o[k])
      <3> TAKE k \in 0 .. n + 1
      <3>1. CASE k = n + 1
        <4>1. f[n + 1] = Take(g[n], o[n + 1]) /\ f[n] = g[n] /\ (n + 1) - 1 = n /\ n + 1 # 0
          OBVIOUS
        <4> HIDE DEF f
        <4> QED BY <3>1, <4>1
      <3>2. CASE k \in 1 .. n
        <4>1. f[k] = g[k] /\ f[k - 1] = g[k - 1] /\ k # 0
          BY <3>2
        <4> HIDE DEF f
        <4> QED BY <2>2, <3>2, <4>1
      <3>3. CASE k = 0
        <4>1. 0 \in 0 .. n + 1 /\ 0 # n + 1 /\ 0 \in 0 .. n
          OBVIOUS
        <4>2. f[0] = g[0]
          BY <4>1
        <4>3. g[0] = NothingTaken
          BY <2>2, <4>1
        <4> HIDE DEF f
        <4> QED BY <3>3, <4>2, <4>3
      <3> QED BY <3>1, <3>2, <3>3
    <2>4. f = [k \in 0 .. n + 1 |-> f[k]]
      OBVIOUS
    <2> HIDE DEF f
    <2>5. Taking(f, n + 1)
      BY <2>3, <2>4
    <2> HIDE DEF Taking
    <2> QED BY <2>5
  <1>3. \E f : Taking(f, Len(o))
    <2> HIDE DEF S
    <2>1. Len(o) \in S
      BY <1>1, <1>2, SetInduction
    <2> QED BY <2>1 DEF S
  <1>4. Taking(Taken(o), Len(o))
    BY <1>3, Zenon DEF Taken
  <1> DEFINE f == Taken(o)
  <1>5. f = [k \in 0 .. Len(o) |-> IF k = 0 THEN NothingTaken ELSE Take(f[k - 1], o[k])]
    BY <1>4
  <1> HIDE DEF f
  <1>6. f[0] = NothingTaken /\ \A k \in 1 .. Len(o) : f[k] = Take(f[k - 1], o[k])
    BY <1>5
  <1> QED BY <1>6 DEF f

LEMMA TakeIsTyped ==
    ASSUME NEW t \in States, NEW b \in Blocks
    PROVE  Take(t, b) \in States
  <1>1. Charge(b) \in Nat
    BY ChargesArePositive
  <1> HIDE DEF Blocks
  <1>2. Append(t.selected, b) \in Seq(Blocks) /\ t.used + Charge(b) \in Nat /\ t.dropped + 1 \in Nat
    BY <1>1 DEF States
  <1> QED BY <1>2 DEF States, Take

LEMMA StatesAreTaken == NothingTaken \in States
  BY DEF States, NothingTaken

(* How often a block is among the first k.                                    *)
OccUpTo(b, s, k) == Cardinality({i \in 1 .. k : s[i] = b})

LEMMA OccurrencesAreNaturals ==
    ASSUME NEW b, NEW s, NEW k \in Nat
    PROVE  IsFiniteSet({i \in 1 .. k : s[i] = b}) /\ OccUpTo(b, s, k) \in Nat
  <1>1. IsFiniteSet(1 .. k)
    BY FS_Interval
  <1>2. {i \in 1 .. k : s[i] = b} \in SUBSET (1 .. k)
    OBVIOUS
  <1>3. IsFiniteSet({i \in 1 .. k : s[i] = b})
    BY <1>1, <1>2, FS_Subset
  <1> QED BY <1>3, FS_CardinalityType DEF OccUpTo

LEMMA OneMoreOccurrence ==
    ASSUME NEW b, NEW s, NEW k \in Nat
    PROVE  OccUpTo(b, s, k + 1) = OccUpTo(b, s, k) + (IF s[k + 1] = b THEN 1 ELSE 0)
  <1> DEFINE U == {i \in 1 .. k : s[i] = b}
  <1>1. IsFiniteSet(U) /\ Cardinality(U) \in Nat
    BY OccurrencesAreNaturals DEF OccUpTo
  <1>0. k + 1 \notin U
    OBVIOUS
  <1>2. CASE s[k + 1] = b
    <2>1. {i \in 1 .. k + 1 : s[i] = b} = U \cup {k + 1}
      BY <1>2
    <2> HIDE DEF U
    <2>2. Cardinality(U \cup {k + 1}) = Cardinality(U) + 1
      BY <1>0, <1>1, FS_AddElement
    <2> QED BY <1>2, <2>1, <2>2 DEF OccUpTo, U
  <1>3. CASE s[k + 1] # b
    <2>1. {i \in 1 .. k + 1 : s[i] = b} = U
      BY <1>3
    <2> QED BY <1>1, <1>3, <2>1 DEF OccUpTo
  <1> QED BY <1>2, <1>3

LEMMA SameOccurrences ==
    ASSUME NEW b, NEW s, NEW t, NEW k \in Nat, \A i \in 1 .. k : s[i] = t[i]
    PROVE  OccUpTo(b, s, k) = OccUpTo(b, t, k)
  <1>1. {i \in 1 .. k : s[i] = b} = {i \in 1 .. k : t[i] = b}
    OBVIOUS
  <1> QED BY <1>1 DEF OccUpTo

----------------------------------------------------------------------------
(* What the loop keeps: the sums, the order, and an account of every block.   *)

LEMMA ChargesAreNaturals ==
    ASSUME NEW s \in Seq(Blocks)
    PROVE  /\ [i \in DOMAIN s |-> Charge(s[i])] \in Seq(Nat)
           /\ Len([i \in DOMAIN s |-> Charge(s[i])]) = Len(s)
           /\ [i \in DOMAIN s |-> TokensOf[s[i].content]] \in Seq(Nat)
           /\ Len([i \in DOMAIN s |-> TokensOf[s[i].content]]) = Len(s)
  <1>1. \A i \in 1 .. Len(s) : s[i] \in Blocks
    OBVIOUS
  <1>2. \A i \in 1 .. Len(s) : Charge(s[i]) \in Nat
    BY <1>1, ChargesArePositive
  <1>3. \A i \in 1 .. Len(s) : TokensOf[s[i].content] \in Nat
    BY <1>1, ContextAssumption DEF Blocks
  <1> QED BY <1>2, <1>3

LEMMA ChargedIsTyped ==
    ASSUME NEW s \in Seq(Blocks), NEW k \in 0 .. Len(s)
    PROVE  Charged(s)[k] \in Nat
  BY ChargesAreNaturals, SumsExist DEF Charged

(* Appending a block adds its charge, and changes no earlier sum.             *)
LEMMA AppendCharges ==
    ASSUME NEW s \in Seq(Blocks), NEW b \in Blocks
    PROVE  /\ \A k \in 0 .. Len(s) : Charged(Append(s, b))[k] = Charged(s)[k]
           /\ Charged(Append(s, b))[Len(s) + 1] = Charged(s)[Len(s)] + Charge(b)
  <1> DEFINE t == Append(s, b)
             u == [i \in DOMAIN s |-> Charge(s[i])]
             v == [i \in DOMAIN t |-> Charge(t[i])]
  <1>1. t \in Seq(Blocks) /\ Len(t) = Len(s) + 1 /\ t[Len(s) + 1] = b
    BY DEF Blocks
  <1>2. \A i \in 1 .. Len(s) : t[i] = s[i]
    OBVIOUS
  <1>3. DOMAIN s = 1 .. Len(s) /\ DOMAIN t = 1 .. Len(s) + 1
    BY <1>1
  <1> HIDE DEF t
  <1>4. u \in Seq(Nat) /\ Len(u) = Len(s)
    BY ChargesAreNaturals
  <1>5. v \in Seq(Nat) /\ Len(v) = Len(s) + 1
    <2>1. v \in Seq(Nat) /\ Len(v) = Len(t)
      BY <1>1, ChargesAreNaturals
    <2> QED BY <1>1, <2>1
  <1>6. \A i \in 1 .. Len(s) : u[i] = v[i]
    BY <1>2, <1>3
  <1>7. v[Len(s) + 1] = Charge(b)
    BY <1>1, <1>3
  <1>8. Charged(s) = Sums(u) /\ Charged(t) = Sums(v)
    BY DEF Charged
  <1> HIDE DEF u, v
  <1>9. \A k \in 0 .. Len(s) : Sums(u)[k] = Sums(v)[k]
    <2>1. Len(s) \in Nat /\ Len(s) <= Len(u) /\ Len(s) <= Len(v)
      BY <1>4, <1>5
    <2> QED BY <1>4, <1>6, <1>5, <2>1, SumsOfEqualsAgree
  <1>10. Sums(v)[Len(s) + 1] = Sums(v)[Len(s)] + v[Len(s) + 1]
    <2>1. Len(s) + 1 \in 1 .. Len(v) /\ (Len(s) + 1) - 1 = Len(s)
      BY <1>5
    <2> QED BY <1>5, <2>1, SumsExist
  <1>11. Len(s) \in 0 .. Len(s)
    OBVIOUS
  <1> QED BY <1>7, <1>8, <1>9, <1>10, <1>11 DEF t

(* The tokens the context reports are at most what it was charged.            *)
LEMMA TokensWithinCharges ==
    ASSUME NEW s \in Seq(Blocks)
    PROVE  TokenSum(s) \in Nat /\ TokenSum(s) <= Charged(s)[Len(s)]
  <1> DEFINE u == [i \in DOMAIN s |-> TokensOf[s[i].content]]
             v == [i \in DOMAIN s |-> Charge(s[i])]
  <1>1. u \in Seq(Nat) /\ Len(u) = Len(s) /\ v \in Seq(Nat) /\ Len(v) = Len(s)
    BY ChargesAreNaturals
  <1>2. \A i \in 1 .. Len(s) : u[i] <= v[i]
    <2> TAKE i \in 1 .. Len(s)
    <2>1. s[i] \in Blocks /\ i \in DOMAIN s
      OBVIOUS
    <2> QED BY <2>1, ChargesArePositive
  <1>3. TokenSum(s) = Sums(u)[Len(s)] /\ Charged(s) = Sums(v)
    BY DEF TokenSum, Charged
  <1> HIDE DEF u, v
  <1>4. Len(s) \in Nat /\ Len(s) \in 0 .. Len(s)
    OBVIOUS
  <1>5. \A k \in 0 .. Len(s) : Sums(u)[k] <= Sums(v)[k]
    BY <1>1, <1>2, <1>4, SumsAreMonotonic
  <1>6. Sums(u)[Len(s)] \in Nat
    BY <1>1, <1>4, SumsExist
  <1> QED BY <1>3, <1>4, <1>5, <1>6

InOrder(s) == \A i, j \in DOMAIN s : i < j => ~GoesBefore(s[j], s[i])

(* A block that was not taken each time it came had no room behind the blocks *)
(* that need not go behind it.                                                *)
Accounted(b, s, o, n) ==
    \/ OccUpTo(b, s, Len(s)) = OccUpTo(b, o, n)
    \/ /\ OccUpTo(b, s, Len(s)) < OccUpTo(b, o, n)
       /\ \E k \in 0 .. Len(s) :
             /\ \A i \in 1 .. k : ~GoesBefore(b, s[i])
             /\ Charged(s)[k] + Charge(b) > TotalBudget

LoopTotals(t, n) ==
    /\ t \in States
    /\ Len(t.selected) + t.dropped = n
    /\ t.used = Charged(t.selected)[Len(t.selected)]
    /\ t.used <= TotalBudget
LoopOrder(s, o, n) ==
    /\ \A i \in DOMAIN s : \E j \in 1 .. n : s[i] = o[j]
    /\ InOrder(s)
LoopInvariant(t, o, n) ==
    /\ LoopTotals(t, n)
    /\ LoopOrder(t.selected, o, n)
    /\ \A b \in Blocks : Accounted(b, t.selected, o, n)

LEMMA LoopStarts ==
    ASSUME NEW o \in Seq(Blocks) PROVE LoopInvariant(NothingTaken, o, 0)
  <1> DEFINE none == NothingTaken.selected
  <1>1. none = <<>> /\ NothingTaken.used = 0 /\ NothingTaken.dropped = 0
    BY DEF NothingTaken
  <1>2. none \in Seq(Blocks) /\ Len(none) = 0 /\ DOMAIN none = {}
    BY <1>1
  <1>3. Charged(none)[0] = 0
    BY <1>2, ChargesAreNaturals, SumsExist DEF Charged
  <1>4. LoopTotals(NothingTaken, 0)
    BY <1>1, <1>2, <1>3, StatesAreTaken, ContextAssumption DEF LoopTotals
  <1>5. LoopOrder(none, o, 0)
    BY <1>2 DEF LoopOrder, InOrder
  <1>6. ASSUME NEW b \in Blocks PROVE Accounted(b, none, o, 0)
    <2>1. OccUpTo(b, none, 0) = OccUpTo(b, o, 0)
      BY SameOccurrences
    <2> QED BY <1>2, <2>1 DEF Accounted
  <1> QED BY <1>4, <1>5, <1>6 DEF LoopInvariant

LEMMA LoopTakes ==
    ASSUME NEW o \in Seq(Blocks), InOrder(o), NEW n \in Nat, n + 1 <= Len(o),
           NEW t, LoopInvariant(t, o, n), t.used + Charge(o[n + 1]) <= TotalBudget
    PROVE  LoopInvariant(Take(t, o[n + 1]), o, n + 1)
  <1> DEFINE c == o[n + 1]
             s == t.selected
             m == Len(s)
             u == Take(t, c)
             r == Append(s, c)
  <1>1. c \in Blocks
    OBVIOUS
  <1>2. s \in Seq(Blocks) /\ t \in States /\ m \in Nat
    BY DEF LoopInvariant, LoopTotals, States
  <1>3. u.selected = r /\ u.used = t.used + Charge(c) /\ u.dropped = t.dropped
    BY <1>2 DEF Take, States
  <1>4. u \in States
    BY <1>1, <1>2, TakeIsTyped
  <1>5. /\ r \in Seq(Blocks) /\ Len(r) = m + 1 /\ r[m + 1] = c
        /\ \A i \in 1 .. m : r[i] = s[i]
    BY <1>1, <1>2
  <1>6. /\ \A k \in 0 .. m : Charged(r)[k] = Charged(s)[k]
        /\ Charged(r)[m + 1] = Charged(s)[m] + Charge(c)
    BY <1>1, <1>2, AppendCharges
  <1> HIDE DEF c, s, m, r, u
  <1>7. LoopTotals(u, n + 1)
    <2>1. m + t.dropped = n /\ t.used = Charged(s)[m] /\ t.dropped \in Nat
      BY <1>2 DEF LoopInvariant, LoopTotals, States, s, m
    <2>2. t.used + Charge(c) <= TotalBudget
      BY DEF c
    <2>3. Len(u.selected) + u.dropped = n + 1
      BY <1>2, <1>3, <1>5, <2>1
    <2>4. u.used = Charged(u.selected)[Len(u.selected)]
      BY <1>3, <1>5, <1>6, <2>1
    <2> QED BY <1>3, <1>4, <2>2, <2>3, <2>4 DEF LoopTotals
  <1>8. LoopOrder(r, o, n + 1)
    <2>1. DOMAIN r = 1 .. m + 1 /\ DOMAIN s = 1 .. m /\ DOMAIN o = 1 .. Len(o)
      BY <1>2, <1>5 DEF m
    <2>2. LoopOrder(s, o, n)
      BY DEF LoopInvariant, s
    <2>3. ASSUME NEW i \in 1 .. m + 1 PROVE \E j \in 1 .. n + 1 : r[i] = o[j]
      <3>1. CASE i = m + 1
        BY <1>5, <3>1 DEF c
      <3>2. CASE i \in 1 .. m
        <4>1. PICK j \in 1 .. n : s[i] = o[j]
          BY <2>1, <2>2, <3>2 DEF LoopOrder
        <4> QED BY <1>5, <3>2, <4>1
      <3> QED BY <1>2, <3>1, <3>2
    <2>4. ASSUME NEW i \in 1 .. m + 1, NEW j \in 1 .. m + 1, i < j
          PROVE  ~GoesBefore(r[j], r[i])
      <3>1. i \in 1 .. m /\ r[i] = s[i]
        BY <1>2, <1>5, <2>4
      <3>2. CASE j = m + 1
        <4>1. PICK k \in 1 .. n : s[i] = o[k]
          BY <2>1, <2>2, <3>1 DEF LoopOrder
        <4>2. k \in DOMAIN o /\ n + 1 \in DOMAIN o /\ k < n + 1
          BY <2>1
        <4>3. ~GoesBefore(o[n + 1], o[k])
          BY <4>2 DEF InOrder
        <4> QED BY <1>5, <3>1, <3>2, <4>1, <4>3 DEF c
      <3>3. CASE j \in 1 .. m
        <4>1. ~GoesBefore(s[j], s[i])
          BY <2>1, <2>2, <2>4, <3>1, <3>3 DEF LoopOrder, InOrder
        <4> QED BY <1>5, <3>1, <3>3, <4>1
      <3> QED BY <1>2, <3>2, <3>3
    <2> QED BY <2>1, <2>3, <2>4 DEF LoopOrder, InOrder
  <1>9. ASSUME NEW b \in Blocks PROVE Accounted(b, r, o, n + 1)
    <2>1. /\ OccUpTo(b, o, n + 1) = OccUpTo(b, o, n) + (IF c = b THEN 1 ELSE 0)
          /\ OccUpTo(b, r, m + 1) = OccUpTo(b, r, m) + (IF c = b THEN 1 ELSE 0)
      <3>1. OccUpTo(b, o, n + 1) = OccUpTo(b, o, n) + (IF o[n + 1] = b THEN 1 ELSE 0)
        BY OneMoreOccurrence
      <3>2. OccUpTo(b, r, m + 1) = OccUpTo(b, r, m) + (IF r[m + 1] = b THEN 1 ELSE 0)
        BY <1>2, OneMoreOccurrence
      <3>3. r[m + 1] = c /\ o[n + 1] = c
        BY <1>5 DEF c
      <3> QED BY <3>1, <3>2, <3>3
    <2>2. OccUpTo(b, r, m) = OccUpTo(b, s, m)
      BY <1>2, <1>5, SameOccurrences
    <2>3. OccUpTo(b, o, n) \in Nat /\ OccUpTo(b, s, m) \in Nat
      BY <1>2, OccurrencesAreNaturals
    <2>4. Accounted(b, s, o, n)
      BY DEF LoopInvariant, s
    <2>5. CASE OccUpTo(b, s, m) = OccUpTo(b, o, n)
      BY <1>5, <2>1, <2>2, <2>5 DEF Accounted
    <2>6. CASE OccUpTo(b, s, m) # OccUpTo(b, o, n)
      <3>1. /\ OccUpTo(b, s, m) < OccUpTo(b, o, n)
            /\ \E k \in 0 .. m : /\ \A i \in 1 .. k : ~GoesBefore(b, s[i])
                                 /\ Charged(s)[k] + Charge(b) > TotalBudget
        BY <2>4, <2>6 DEF Accounted, m
      <3>2. PICK k \in 0 .. m : /\ \A i \in 1 .. k : ~GoesBefore(b, s[i])
                                /\ Charged(s)[k] + Charge(b) > TotalBudget
        BY <3>1
      <3>3. /\ k \in 0 .. m + 1
            /\ \A i \in 1 .. k : ~GoesBefore(b, r[i])
            /\ Charged(r)[k] + Charge(b) > TotalBudget
        BY <1>2, <1>5, <1>6, <3>2
      <3>4. OccUpTo(b, r, m + 1) < OccUpTo(b, o, n + 1)
        BY <2>1, <2>2, <2>3, <3>1
      <3> QED BY <1>5, <3>3, <3>4 DEF Accounted
    <2> QED BY <2>5, <2>6
  <1> QED BY <1>3, <1>7, <1>8, <1>9 DEF LoopInvariant, u, c

LEMMA LoopDrops ==
    ASSUME NEW o \in Seq(Blocks), InOrder(o), NEW n \in Nat, n + 1 <= Len(o),
           NEW t, LoopInvariant(t, o, n), ~(t.used + Charge(o[n + 1]) <= TotalBudget)
    PROVE  LoopInvariant(Take(t, o[n + 1]), o, n + 1)
  <1> DEFINE c == o[n + 1]
             s == t.selected
             m == Len(s)
             u == Take(t, c)
  <1>1. c \in Blocks
    OBVIOUS
  <1>2. s \in Seq(Blocks) /\ t \in States /\ m \in Nat /\ t.used \in Nat /\ t.dropped \in Nat
    BY DEF LoopInvariant, LoopTotals, States
  <1>3. u.selected = s /\ u.used = t.used /\ u.dropped = t.dropped + 1
    BY <1>2 DEF Take, States
  <1>4. u \in States
    BY <1>1, <1>2, TakeIsTyped
  <1>5. m + t.dropped = n /\ t.used = Charged(s)[m] /\ t.used <= TotalBudget
    BY DEF LoopInvariant, LoopTotals
  <1>6. t.used + Charge(c) > TotalBudget
    BY <1>1, <1>2, ChargesArePositive, ContextAssumption
  <1>7. LoopOrder(s, o, n) /\ \A b \in Blocks : Accounted(b, s, o, n)
    BY DEF LoopInvariant
  <1> HIDE DEF c, s, m, u
  <1>8. LoopTotals(u, n + 1)
    BY <1>2, <1>3, <1>4, <1>5 DEF LoopTotals, m
  <1>9. LoopOrder(s, o, n + 1)
    BY <1>7 DEF LoopOrder
  <1>10. ASSUME NEW b \in Blocks PROVE Accounted(b, s, o, n + 1)
    <2>1. OccUpTo(b, o, n + 1) = OccUpTo(b, o, n) + (IF c = b THEN 1 ELSE 0)
      BY OneMoreOccurrence DEF c
    <2>2. OccUpTo(b, o, n) \in Nat /\ OccUpTo(b, s, m) \in Nat
      BY <1>2, OccurrencesAreNaturals
    <2>3. Accounted(b, s, o, n)
      BY <1>7
    <2>4. CASE c # b
      BY <2>1, <2>2, <2>3, <2>4 DEF Accounted
    <2>5. CASE c = b
      <3>1. OccUpTo(b, s, m) < OccUpTo(b, o, n + 1)
        BY <2>1, <2>2, <2>3, <2>5 DEF Accounted, m
      <3>2. ASSUME NEW i \in 1 .. m PROVE ~GoesBefore(b, s[i])
        <4>1. PICK j \in 1 .. n : s[i] = o[j]
          BY <1>2, <1>7 DEF LoopOrder, m
        <4>2. j \in DOMAIN o /\ n + 1 \in DOMAIN o /\ j < n + 1
          OBVIOUS
        <4> QED BY <2>5, <4>1, <4>2 DEF InOrder, c
      <3>3. m \in 0 .. m /\ Charged(s)[m] + Charge(b) > TotalBudget
        BY <1>2, <1>5, <1>6, <2>5
      <3> QED BY <3>1, <3>2, <3>3 DEF Accounted, m
    <2> QED BY <2>4, <2>5
  <1> QED BY <1>3, <1>8, <1>9, <1>10 DEF LoopInvariant, u, c

LEMMA LoopHolds ==
    ASSUME NEW o \in Seq(Blocks), InOrder(o)
    PROVE  LoopInvariant(Taken(o)[Len(o)], o, Len(o))
  <1> DEFINE S == {n \in Nat : n <= Len(o) => LoopInvariant(Taken(o)[n], o, n)}
  <1>1. 0 \in S
    BY LoopStarts, TakenExists
  <1>2. ASSUME NEW n \in Nat, n \in S PROVE n + 1 \in S
    <2> SUFFICES ASSUME n + 1 <= Len(o) PROVE LoopInvariant(Taken(o)[n + 1], o, n + 1)
      OBVIOUS
    <2>1. LoopInvariant(Taken(o)[n], o, n)
      BY <1>2
    <2>2. n + 1 \in 1 .. Len(o) /\ (n + 1) - 1 = n
      OBVIOUS
    <2>3. Taken(o)[n + 1] = Take(Taken(o)[n], o[n + 1])
      BY <2>2, TakenExists
    <2> QED BY <2>1, <2>3, LoopTakes, LoopDrops
  <1>3. Len(o) \in S
    <2> HIDE DEF S
    <2> QED BY <1>1, <1>2, SetInduction
  <1> QED BY <1>3

----------------------------------------------------------------------------
(* The sort: the blocks have an order, each position has a place of its own in *)
(* it, and so the sorted sequence has the same blocks, each as often.         *)

LEMMA PriorityIsAnOrder ==
    /\ \A a \in Blocks : ~GoesBefore(a, a)
    /\ \A a, b \in Blocks : a # b => GoesBefore(a, b) \/ GoesBefore(b, a)
    /\ \A a, b, c \in Blocks : GoesBefore(a, b) /\ GoesBefore(b, c) => GoesBefore(a, c)
  <1>1. ASSUME NEW a \in Blocks PROVE a.content \in Int /\ a.source \in ContextProviders
    <2>1. a.content \in Contents /\ a.source \in ContextProviders
      BY DEF Blocks
    <2>2. Contents \subseteq Nat
      BY ContextAssumption
    <2> HIDE DEF Blocks
    <2>3. a.content \in Nat
      BY <2>1, <2>2
    <2> QED BY <2>1, <2>3
  <1>2. \A a \in Blocks : Share(a) \in Int
    BY <1>1 DEF Share, ContextProviders
  <1>3. \A a, b \in Blocks : Share(a) = Share(b) => a.source = b.source
    BY <1>1 DEF Share, ContextProviders
  <1>4. \A a, b \in Blocks : a.source = b.source /\ a.content = b.content => a = b
    BY DEF Blocks
  <1>5. ASSUME NEW a \in Blocks, NEW b \in Blocks, a # b
        PROVE  GoesBefore(a, b) \/ GoesBefore(b, a)
    BY <1>1, <1>2, <1>3, <1>4, <1>5 DEF GoesBefore
  <1>6. ASSUME NEW a \in Blocks, NEW b \in Blocks, NEW c \in Blocks,
               GoesBefore(a, b), GoesBefore(b, c)
        PROVE  GoesBefore(a, c)
    BY <1>1, <1>2, <1>6 DEF GoesBefore
  <1>7. \A a \in Blocks : ~GoesBefore(a, a)
    BY <1>1, <1>2 DEF GoesBefore
  <1> QED BY <1>5, <1>6, <1>7

LEMMA PositionsAreOrdered ==
    ASSUME NEW s \in Seq(Blocks)
    PROVE  /\ \A i \in DOMAIN s : ~SortsBefore(s, i, i)
           /\ \A i, j \in DOMAIN s : i # j => SortsBefore(s, i, j) \/ SortsBefore(s, j, i)
           /\ \A i, j, k \in DOMAIN s :
                 SortsBefore(s, i, j) /\ SortsBefore(s, j, k) => SortsBefore(s, i, k)
  <1>1. \A i \in DOMAIN s : s[i] \in Blocks /\ i \in Int
    OBVIOUS
  <1>2. ASSUME NEW i \in DOMAIN s PROVE ~SortsBefore(s, i, i)
    BY <1>1, PriorityIsAnOrder DEF SortsBefore
  <1>3. ASSUME NEW i \in DOMAIN s, NEW j \in DOMAIN s, i # j
        PROVE  SortsBefore(s, i, j) \/ SortsBefore(s, j, i)
    BY <1>1, <1>3, PriorityIsAnOrder DEF SortsBefore
  <1>4. ASSUME NEW i \in DOMAIN s, NEW j \in DOMAIN s, NEW k \in DOMAIN s,
               SortsBefore(s, i, j), SortsBefore(s, j, k)
        PROVE  SortsBefore(s, i, k)
    BY <1>1, <1>4, PriorityIsAnOrder DEF SortsBefore
  <1> QED BY <1>2, <1>3, <1>4

LEMMA PlacesAreOrdered ==
    ASSUME NEW s \in Seq(Blocks)
    PROVE  /\ \A i \in DOMAIN s : Place(s, i) \in DOMAIN s
           /\ \A i, j \in DOMAIN s : SortsBefore(s, i, j) => Place(s, i) < Place(s, j)
           /\ \A i, j \in DOMAIN s : Place(s, i) = Place(s, j) => i = j
  <1> DEFINE D == DOMAIN s
             R(j) == {i \in D : SortsBefore(s, i, j)}
  <1>1. D = 1 .. Len(s) /\ Len(s) \in Nat
    OBVIOUS
  <1>2. IsFiniteSet(D) /\ Cardinality(D) = Len(s)
    BY <1>1, FS_Interval
  <1> HIDE DEF D
  <1>3. ASSUME NEW j \in D
        PROVE  /\ IsFiniteSet(R(j)) /\ Cardinality(R(j)) \in Nat
               /\ Cardinality(R(j)) < Len(s) /\ j \notin R(j)
               /\ Place(s, j) = 1 + Cardinality(R(j))
    <2>1. R(j) \in SUBSET D
      OBVIOUS
    <2>2. j \notin R(j)
      BY PositionsAreOrdered DEF D
    <2>3. Place(s, j) = 1 + Cardinality(R(j))
      BY DEF Place, D
    <2> HIDE DEF R
    <2>4. /\ IsFiniteSet(R(j)) /\ Cardinality(R(j)) <= Cardinality(D)
          /\ Cardinality(D) = Cardinality(R(j)) => D = R(j)
      BY <1>2, <2>1, FS_Subset
    <2>5. Cardinality(R(j)) \in Nat
      BY <2>4, FS_CardinalityType
    <2> QED BY <1>1, <1>2, <2>2, <2>3, <2>4, <2>5
  <1>4. \A j \in D : Place(s, j) \in D
    <2> HIDE DEF R
    <2> QED BY <1>1, <1>3
  <1>5. ASSUME NEW i \in D, NEW j \in D, SortsBefore(s, i, j)
        PROVE  Place(s, i) < Place(s, j)
    <2>1. R(i) \in SUBSET R(j)
      BY <1>5, PositionsAreOrdered DEF D
    <2>2. i \in R(j)
      BY <1>5
    <2> HIDE DEF R
    <2>3. /\ Cardinality(R(i)) <= Cardinality(R(j))
          /\ Cardinality(R(j)) = Cardinality(R(i)) => R(j) = R(i)
      BY <1>3, <2>1, FS_Subset
    <2> QED BY <1>3, <2>2, <2>3
  <1>6. ASSUME NEW i \in D, NEW j \in D, Place(s, i) = Place(s, j) PROVE i = j
    <2>1. Place(s, i) \in Int /\ Place(s, j) \in Int
      BY <1>1, <1>4
    <2> QED BY <1>5, <1>6, <2>1, PositionsAreOrdered DEF D
  <1> QED BY <1>4, <1>5, <1>6 DEF D

(* Every place is taken, by one position.                                     *)
LEMMA PlacesAreTaken ==
    ASSUME NEW s \in Seq(Blocks), NEW k \in DOMAIN s
    PROVE  \E i \in DOMAIN s : Place(s, i) = k
  <1> DEFINE D == DOMAIN s
             f == [i \in D |-> Place(s, i)]
  <1>1. f \in [D -> D]
    BY PlacesAreOrdered
  <1>2. \A i, j \in D : f[i] = f[j] => i = j
    BY PlacesAreOrdered
  <1>3. IsFiniteSet(D)
    <2>1. D = 1 .. Len(s) /\ Len(s) \in Nat
      OBVIOUS
    <2> QED BY <2>1, FS_Interval
  <1>4. \A i \in D : f[i] = Place(s, i)
    OBVIOUS
  <1> HIDE DEF D, f
  <1>5. f \in Injection(D, D)
    BY <1>1, <1>2, Fun_IsInj
  <1>6. f \in Surjection(D, D)
    BY <1>3, <1>5, FS_Injection
  <1>7. \A t \in D : \E i \in D : f[i] = t
    BY <1>6, Fun_SurjectionProperties
  <1> QED BY <1>4, <1>7 DEF D

LEMMA SortedHolds ==
    ASSUME NEW s \in Seq(Blocks)
    PROVE  /\ Sorted(s) \in Seq(Blocks) /\ Len(Sorted(s)) = Len(s)
           /\ InOrder(Sorted(s))
           /\ \A b : OccUpTo(b, Sorted(s), Len(s)) = OccUpTo(b, s, Len(s))
  <1> DEFINE D == 1 .. Len(s)
             at(k) == CHOOSE i \in DOMAIN s : Place(s, i) = k
             o == Sorted(s)
  <1>1. DOMAIN s = D /\ Len(s) \in Nat
    OBVIOUS
  <1>2. \A k \in D : at(k) \in D /\ Place(s, at(k)) = k
    BY <1>1, PlacesAreTaken
  <1>3. \A k \in D : o[k] = s[at(k)]
    BY <1>1 DEF Sorted
  <1>4. \A i \in D : at(Place(s, i)) = i
    <2> TAKE i \in D
    <2>1. Place(s, i) \in D
      BY <1>1, PlacesAreOrdered
    <2>2. at(Place(s, i)) \in D /\ Place(s, at(Place(s, i))) = Place(s, i)
      BY <1>2, <2>1
    <2> HIDE DEF at
    <2> QED BY <1>1, <2>2, PlacesAreOrdered
  <1> HIDE DEF at
  <1>5. o = [k \in D |-> s[at(k)]]
    BY <1>1 DEF Sorted, at
  <1>6. \A k \in D : s[at(k)] \in Blocks
    BY <1>1, <1>2
  <1>7. o \in Seq(Blocks) /\ Len(o) = Len(s) /\ DOMAIN o = D
    <2> HIDE DEF o
    <2> QED BY <1>1, <1>5, <1>6
  <1> HIDE DEF o
  <1>8. ASSUME NEW i \in D, NEW j \in D, i < j PROVE ~GoesBefore(o[j], o[i])
    <2> SUFFICES ASSUME GoesBefore(o[j], o[i]) PROVE FALSE
      OBVIOUS
    <2>1. SortsBefore(s, at(j), at(i))
      BY <1>3 DEF SortsBefore
    <2>2. Place(s, at(j)) < Place(s, at(i))
      BY <1>1, <1>2, <2>1, PlacesAreOrdered
    <2>3. j < i
      BY <1>2, <2>2
    <2> QED BY <1>8, <2>3
  <1>9. ASSUME NEW b PROVE OccUpTo(b, o, Len(s)) = OccUpTo(b, s, Len(s))
    <2> DEFINE A == {i \in D : s[i] = b}
               B == {k \in D : o[k] = b}
               f == [i \in A |-> Place(s, i)]
    <2>1. \A i \in A : Place(s, i) \in B
      <3> TAKE i \in A
      <3>1. i \in D /\ s[i] = b /\ Place(s, i) \in D
        BY <1>1, PlacesAreOrdered
      <3> QED BY <1>3, <1>4, <3>1
    <2>2. f \in [A -> B]
      BY <2>1
    <2>3. \A i, j \in A : f[i] = f[j] => i = j
      BY <1>1, PlacesAreOrdered
    <2>4. \A k \in B : \E i \in A : f[i] = k
      <3> TAKE k \in B
      <3>1. at(k) \in A /\ Place(s, at(k)) = k
        BY <1>2, <1>3
      <3> QED BY <3>1
    <2>5. IsFiniteSet(A)
      BY <1>1, OccurrencesAreNaturals
    <2>6. OccUpTo(b, s, Len(s)) = Cardinality(A) /\ OccUpTo(b, o, Len(s)) = Cardinality(B)
      BY DEF OccUpTo
    <2> HIDE DEF A, B, f
    <2>7. f \in Bijection(A, B)
      BY <2>2, <2>3, <2>4, Fun_IsBij
    <2>8. Cardinality(B) = Cardinality(A)
      BY <2>5, <2>7, FS_Bijection DEF ExistsBijection
    <2> QED BY <2>6, <2>8
  <1> QED BY <1>1, <1>7, <1>8, <1>9 DEF InOrder, o

LEMMA AllocateHolds ==
    ASSUME NEW s \in Seq(Blocks)
    PROVE  LET blocks == Allocate(s).selected IN
           /\ blocks \in Seq(Blocks)
           /\ Charged(blocks)[Len(blocks)] <= TotalBudget
           /\ TokenSum(blocks) <= TotalBudget
           /\ Len(blocks) + Allocate(s).dropped = Len(s)
           /\ InOrder(blocks)
           /\ \A b \in Blocks : Accounted(b, blocks, s, Len(s))
           /\ \A i \in DOMAIN blocks : \E j \in DOMAIN s : blocks[i] = s[j]
  <1> DEFINE o == Sorted(s)
             t == Allocate(s)
             blocks == t.selected
  <1>1. /\ o \in Seq(Blocks) /\ Len(o) = Len(s) /\ InOrder(o)
        /\ \A b : OccUpTo(b, o, Len(s)) = OccUpTo(b, s, Len(s))
    BY SortedHolds
  <1>2. Len(s) \in Nat /\ DOMAIN s = 1 .. Len(s)
    OBVIOUS
  <1>3. t = Taken(o)[Len(o)]
    BY <1>1 DEF Allocate
  <1> HIDE DEF o, t
  <1>4. LoopInvariant(t, o, Len(s))
    BY <1>1, <1>3, LoopHolds
  <1>5. blocks \in Seq(Blocks)
    BY <1>4 DEF LoopInvariant, LoopTotals, States
  <1>6. Charged(blocks)[Len(blocks)] <= TotalBudget /\ Len(blocks) + t.dropped = Len(s)
    BY <1>4 DEF LoopInvariant, LoopTotals
  <1>7. TokenSum(blocks) <= TotalBudget
    <2>1. /\ TokenSum(blocks) \in Nat /\ TokenSum(blocks) <= Charged(blocks)[Len(blocks)]
          /\ Charged(blocks)[Len(blocks)] \in Nat
      BY <1>5, TokensWithinCharges, ChargedIsTyped
    <2> QED BY <1>6, <2>1, ContextAssumption
  <1>8. InOrder(blocks) /\ \A i \in DOMAIN blocks : \E j \in 1 .. Len(s) : blocks[i] = o[j]
    BY <1>4 DEF LoopInvariant, LoopOrder
  <1>9. ASSUME NEW b \in Blocks PROVE Accounted(b, blocks, s, Len(s))
    BY <1>1, <1>4 DEF LoopInvariant, Accounted
  <1>10. ASSUME NEW i \in DOMAIN blocks PROVE \E j \in DOMAIN s : blocks[i] = s[j]
    <2>1. PICK k \in 1 .. Len(s) : blocks[i] = o[k]
      BY <1>8
    <2>2. \E j \in DOMAIN s : o[k] = s[j]
      BY <1>2, PlacesAreTaken DEF o, Sorted
    <2> QED BY <2>1, <2>2
  <1> QED BY <1>5, <1>6, <1>7, <1>8, <1>9, <1>10 DEF t

----------------------------------------------------------------------------
(* The assembler waits for every provider: what it allocates is their answers. *)

Answer == [outcome : {"pending", "blocks", "error", "cancelled"}, blocks : Seq(Blocks)]
AnswersTyped ==
    /\ answers \in [ContextProviders -> Answer]
    /\ \A p \in ContextProviders : \A i \in DOMAIN answers[p].blocks :
          answers[p].blocks[i].source = p
    /\ ~mayReadDocuments => answers["document_recall"].blocks = <<>>
AssembledLast == assembled # Nothing => \A p \in ContextProviders : answers[p] # Pending
ContextInvariant == AnswersTyped /\ AssembledLast /\ ContextFitsBudget

LEMMA BroughtIsTyped ==
    ASSUME AnswersTyped
    PROVE  /\ Brought \in Seq(Blocks)
           /\ mayReadDocuments \/ \A i \in DOMAIN Brought : Brought[i].source # "document_recall"
  <1> DEFINE r == answers["recent_turns"].blocks
             m == answers["user_memory"].blocks
             d == answers["document_recall"].blocks
  <1>1. \A p \in ContextProviders : answers[p].blocks \in Seq(Blocks)
    BY DEF AnswersTyped, Answer
  <1>2. r \in Seq(Blocks) /\ m \in Seq(Blocks) /\ d \in Seq(Blocks)
    BY <1>1 DEF ContextProviders
  <1>3. /\ \A i \in DOMAIN r : r[i].source = "recent_turns"
        /\ \A i \in DOMAIN m : m[i].source = "user_memory"
    BY DEF AnswersTyped, ContextProviders
  <1>4. Brought = (r \o m) \o d
    BY DEF Brought
  <1>5. ~mayReadDocuments => d = <<>>
    BY DEF AnswersTyped
  <1> HIDE DEF r, m, d, Blocks
  <1>6. r \o m \in Seq(Blocks) /\ (r \o m) \o d \in Seq(Blocks)
    BY <1>2
  <1>7. \A i \in DOMAIN (r \o m) : (r \o m)[i].source # "document_recall"
    <2> TAKE i \in DOMAIN (r \o m)
    <2>1. CASE i <= Len(r)
      BY <1>2, <1>3, <2>1
    <2>2. CASE i > Len(r)
      <3>1. i - Len(r) \in DOMAIN m /\ (r \o m)[i] = m[i - Len(r)]
        BY <1>2, <2>2
      <3> QED BY <1>3, <3>1
    <2>3. i \in Int /\ Len(r) \in Int
      BY <1>2
    <2> QED BY <2>1, <2>2, <2>3
  <1>8. d = <<>> => (r \o m) \o d = r \o m
    BY <1>2, <1>6
  <1> QED BY <1>4, <1>5, <1>6, <1>7, <1>8

LEMMA OccurrencesUpTo ==
    ASSUME NEW b, NEW s \in Seq(Blocks)
    PROVE  Occurrences(b, s) = OccUpTo(b, s, Len(s))
  <1>1. DOMAIN s = 1 .. Len(s)
    OBVIOUS
  <1> QED BY <1>1 DEF Occurrences, OccUpTo

LEMMA AssemblyFits ==
    ASSUME AnswersTyped, Assemble
    PROVE  ContextFitsBudget'
  <1> SUFFICES ASSUME assembled'.outcome = "assembled" PROVE ContextFitsBudget'
    BY DEF ContextFitsBudget
  <1> DEFINE s == Brought
             taken == Allocate(s)
             blocks == taken.selected
  <1>1. s \in Seq(Blocks) /\ Brought' = s /\ mayReadDocuments' = mayReadDocuments
    BY BroughtIsTyped DEF Assemble, Brought
  <1>2. mayReadDocuments \/ \A j \in DOMAIN s : s[j].source # "document_recall"
    BY BroughtIsTyped
  <1>3. /\ assembled'.blocks = blocks /\ assembled'.tokens = TokenSum(blocks)
        /\ assembled'.dropped = taken.dropped
    BY DEF Assemble, Nothing
  <1> HIDE DEF s
  <1>4. /\ blocks \in Seq(Blocks)
        /\ Charged(blocks)[Len(blocks)] <= TotalBudget
        /\ TokenSum(blocks) <= TotalBudget
        /\ Len(blocks) + taken.dropped = Len(s)
        /\ InOrder(blocks)
        /\ \A b \in Blocks : Accounted(b, blocks, s, Len(s))
        /\ \A i \in DOMAIN blocks : \E j \in DOMAIN s : blocks[i] = s[j]
    BY <1>1, AllocateHolds
  <1> HIDE DEF taken, blocks
  <1>5. \A i, j \in DOMAIN blocks : i < j => ~GoesBefore(blocks[j], blocks[i])
    BY <1>4 DEF InOrder
  <1>6. ASSUME NEW block \in ToSet(s)
        PROVE  \/ Occurrences(block, blocks) = Occurrences(block, s)
               \/ /\ Occurrences(block, blocks) < Occurrences(block, s)
                  /\ \E k \in 0 .. Len(blocks) :
                        /\ \A i \in 1 .. k : ~GoesBefore(block, blocks[i])
                        /\ Charged(blocks)[k] + Charge(block) > TotalBudget
    <2>1. block \in Blocks
      BY <1>1, <1>6 DEF ToSet
    <2> QED BY <1>1, <1>4, <2>1, OccurrencesUpTo DEF Accounted
  <1>7. mayReadDocuments \/ \A i \in DOMAIN blocks : blocks[i].source # "document_recall"
    BY <1>2, <1>4
  <1> QED BY <1>1, <1>3, <1>4, <1>5, <1>6, <1>7 DEF ContextFitsBudget

LEMMA NoAnswersYet ==
    ASSUME ContextInit PROVE ContextInvariant
  <1>1. Pending \in Answer /\ Pending.blocks = <<>>
    BY DEF Pending, Answer
  <1>2. AnswersTyped
    BY <1>1 DEF ContextInit, AnswersTyped, ContextProviders
  <1>3. AssembledLast
    BY DEF ContextInit, AssembledLast
  <1>4. ContextFitsBudget
    BY DEF ContextInit, ContextFitsBudget, Nothing
  <1> QED BY <1>2, <1>3, <1>4 DEF ContextInvariant

LEMMA AnswersStayTyped ==
    ASSUME ContextInvariant, NEW p \in ContextProviders,
           NEW outcome \in {"blocks", "error", "cancelled"}, NEW blocks \in Seq(Blocks),
           \A i \in DOMAIN blocks : blocks[i].source = p,
           p = "document_recall" /\ ~mayReadDocuments => blocks = <<>>,
           Answered(p, outcome, blocks)
    PROVE  ContextInvariant'
  <1> DEFINE answer == [outcome |-> outcome, blocks |-> blocks]
  <1>1. answer \in Answer /\ answer.blocks = blocks
    BY DEF Answer
  <1>2. /\ answers \in [ContextProviders -> Answer]
        /\ answers' = [answers EXCEPT ![p] = answer]
        /\ mayReadDocuments' = mayReadDocuments /\ assembled' = assembled
        /\ answers[p] = Pending
    BY DEF ContextInvariant, AnswersTyped, Answered
  <1>3. assembled = Nothing
    BY <1>2 DEF ContextInvariant, AssembledLast
  <1> HIDE DEF answer
  <1>4. /\ answers' \in [ContextProviders -> Answer] /\ answers'[p] = answer
        /\ \A q \in ContextProviders \ {p} : answers'[q] = answers[q]
    BY <1>1, <1>2
  <1>5. AnswersTyped'
    <2>1. ASSUME NEW q \in ContextProviders, NEW i \in DOMAIN answers'[q].blocks
          PROVE  answers'[q].blocks[i].source = q
      BY <1>1, <1>4 DEF ContextInvariant, AnswersTyped
    <2>2. ~mayReadDocuments => answers'["document_recall"].blocks = <<>>
      BY <1>1, <1>4 DEF ContextInvariant, AnswersTyped, ContextProviders
    <2> QED BY <1>2, <1>4, <2>1, <2>2 DEF AnswersTyped
  <1>6. AssembledLast'
    BY <1>2, <1>3 DEF AssembledLast
  <1>7. ContextFitsBudget'
    BY <1>2, <1>3 DEF ContextFitsBudget, Nothing
  <1> QED BY <1>5, <1>6, <1>7 DEF ContextInvariant

LEMMA ContextStays ==
    ASSUME ContextInvariant, [ContextNext]_contextVars PROVE ContextInvariant'
  <1>1. ASSUME NEW p \in ContextProviders, Answers(p) PROVE ContextInvariant'
    <2>1. PICK texts \in BoundedSeq(Contents, MaxBlocks) :
              /\ p = "document_recall" /\ ~mayReadDocuments => texts = <<>>
              /\ Answered(p, "blocks",
                          [i \in DOMAIN texts |-> [source |-> p, content |-> texts[i]]])
      BY <1>1 DEF Answers
    <2> DEFINE blocks == [i \in DOMAIN texts |-> [source |-> p, content |-> texts[i]]]
    <2>2. texts \in Seq(Contents)
      <3>1. PICK n \in 0 .. MaxBlocks : texts \in [1 .. n -> Contents]
        BY DEF BoundedSeq, SeqOf
      <3>2. n \in Nat
        BY ContextAssumption
      <3> QED BY <3>1, <3>2
    <2>3. blocks \in Seq(Blocks)
      <3>1. \A i \in 1 .. Len(texts) : [source |-> p, content |-> texts[i]] \in Blocks
        BY <2>2 DEF Blocks
      <3>2. DOMAIN texts = 1 .. Len(texts) /\ Len(texts) \in Nat
        BY <2>2
      <3> QED BY <3>1, <3>2
    <2>4. \A i \in DOMAIN blocks : blocks[i].source = p
      OBVIOUS
    <2>5. texts = <<>> => blocks = <<>>
      OBVIOUS
    <2> HIDE DEF blocks
    <2> QED BY <2>1, <2>3, <2>4, <2>5, AnswersStayTyped DEF blocks
  <1>2. ASSUME NEW p \in ContextProviders, Raises(p) PROVE ContextInvariant'
    <2>1. PICK outcome \in {"error", "cancelled"} : Answered(p, outcome, <<>>)
      BY <1>2 DEF Raises
    <2>2. <<>> \in Seq(Blocks) /\ \A i \in DOMAIN <<>> : <<>>[i].source = p
      OBVIOUS
    <2> QED BY <2>1, <2>2, AnswersStayTyped
  <1>3. CASE Assemble
    <2>1. ContextFitsBudget'
      BY <1>3, AssemblyFits DEF ContextInvariant
    <2>2. AnswersTyped' /\ AssembledLast'
      BY <1>3 DEF ContextInvariant, AnswersTyped, AssembledLast, Assemble
    <2> QED BY <2>1, <2>2 DEF ContextInvariant
  <1>4. CASE UNCHANGED contextVars
    BY <1>4 DEF ContextInvariant, AnswersTyped, AssembledLast, ContextFitsBudget, Brought
  <1> QED BY <1>1, <1>2, <1>3, <1>4 DEF ContextNext

(* assemble gives a context within the token budget, in the order of priority, *)
(* in which each block the providers brought is taken, or dropped for want of *)
(* room and counted; and no document without the permission to read it.       *)
THEOREM ContextsFit == ContextSpec => []ContextFitsBudget
  <1>1. ContextInit => ContextInvariant
    BY NoAnswersYet
  <1>2. ContextInvariant /\ [ContextNext]_contextVars => ContextInvariant'
    BY ContextStays
  <1>3. ContextInvariant => ContextFitsBudget
    BY DEF ContextInvariant
  <1> QED BY <1>1, <1>2, <1>3, PTL DEF ContextSpec
=============================================================================
