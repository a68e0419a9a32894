------------------------------ MODULE Recursion ------------------------------
(***************************************************************************)
(* Functions defined by recursion on how deep a value nests, and induction *)
(* over such values.  An INSTANCE gives S, Depth and Def their meaning:    *)
(* Def(f, v) is what the function being defined has at v when f is what it *)
(* has at the values v holds.                                              *)
(***************************************************************************)
EXTENDS Integers, WellFoundedInduction, TLAPS

CONSTANTS
  S,         \* the values
  Depth(_),  \* how deep a value nests
  Def(_, _)  \* one step of the recursion

Grounded == \A v \in S : Depth(v) \in Nat
Agree(f, g, v) == \A w \in S : Depth(w) < Depth(v) => f[w] = g[w]

\* A step looks at the function only at what is nested less deep.
Local == \A v \in S : \A f, g : Agree(f, g, v) => Def(f, v) = Def(g, v)

Satisfies(f) == f = [v \in S |-> Def(f, v)]

-----------------------------------------------------------------------------
(* Induction                                                               *)

\* Any natural numbers have a smallest one.
LEMMA SmallestNumber ==
  ASSUME NEW N, N \subseteq Nat, N # {}
  PROVE  \E m \in N : \A n \in N : m <= n
<1> DEFINE Less == {p \in Nat \X Nat : p[1] < p[2]}
<1>1. IsWellFoundedOn(OpToRel(<, Nat), Nat)
  BY NatLessThanWellFounded
<1>2. IsWellFoundedOn(Less, Nat)
  BY <1>1, Zenon DEF OpToRel
<1>3. \A m, n \in Nat : n < m => <<n, m>> \in Less
  OBVIOUS
<1>4. \E m \in N : \A n \in N : <<n, m>> \notin Less
  <2> HIDE DEF Less
  <2> QED
    BY <1>2, WFMin
<1>5. PICK m \in N : \A n \in N : <<n, m>> \notin Less
  BY <1>4
<1>6. ASSUME NEW n \in N PROVE m <= n
  <2>1. m \in Nat /\ n \in Nat /\ ~(n < m)
    BY <1>3, <1>5
  <2> QED
    BY <2>1
<1> QED
  BY <1>5, <1>6

\* Any values have one among them that nests least: if a claim fails of a value,
\* it fails of one whose parts satisfy it.
THEOREM Shallowest ==
  ASSUME Grounded, NEW T, T \subseteq S, T # {}
  PROVE  \E v \in T : \A w \in T : Depth(v) <= Depth(w)
<1> DEFINE N == {Depth(v) : v \in T}
<1>1. N \subseteq Nat /\ N # {}
  BY DEF Grounded
<1>2. PICK m \in N : \A n \in N : m <= n
  BY <1>1, SmallestNumber
<1> QED
  BY <1>2

-----------------------------------------------------------------------------
(* Recursion                                                               *)

Up(n) == {v \in S : Depth(v) < n}
Begins(f, n) == f = [v \in Up(n) |-> Def(f, v)]
Beginning(n) == CHOOSE f : Begins(f, n)

\* Two functions that satisfy the recursion for a while are equal for as long.
LEMMA BeginningsAgree ==
  ASSUME Grounded, Local, NEW m \in Nat, NEW n \in Nat, NEW f, NEW g,
         Begins(f, m), Begins(g, n), NEW v \in S, Depth(v) < m, Depth(v) < n
  PROVE  f[v] = g[v]
<1> DEFINE T == {w \in Up(m) \intersect Up(n) : f[w] # g[w]}
<1> SUFFICES ASSUME T # {} PROVE FALSE
  BY DEF Up
<1>1. PICK w \in T : \A u \in T : Depth(w) <= Depth(u)
  BY Shallowest DEF Up
<1>2. w \in S /\ Depth(w) \in Nat /\ Depth(w) < m /\ Depth(w) < n
  BY DEF Up, Grounded
<1>3. Agree(f, g, w)
  <2> SUFFICES ASSUME NEW u \in S, Depth(u) < Depth(w) PROVE f[u] = g[u]
    BY DEF Agree
  <2>1. u \in Up(m) \intersect Up(n) /\ ~(Depth(w) <= Depth(u))
    BY <1>2 DEF Up, Grounded
  <2> QED
    BY <1>1, <2>1
<1>4. Def(f, w) = Def(g, w)
  BY <1>2, <1>3 DEF Local
<1>5. f[w] = Def(f, w) /\ g[w] = Def(g, w)
  BY <1>2 DEF Begins, Up
<1> QED
  BY <1>4, <1>5

\* There is such a function for any depth.
LEMMA BeginningsExist ==
  ASSUME Grounded, Local, NEW n \in Nat
  PROVE  Begins(Beginning(n), n)
<1> DEFINE N == {k \in Nat : ~ \E f : Begins(f, k)}
<1>1. N = {}
  <2> SUFFICES ASSUME N # {} PROVE FALSE
    OBVIOUS
  <2>1. PICK k \in N : \A l \in N : k <= l
    BY SmallestNumber
  <2>2. CASE k = 0
    <3> DEFINE f == [v \in {} |-> 0]
    <3>1. Up(0) = {}
      BY DEF Up, Grounded
    <3>2. Begins(f, 0)
      BY <3>1 DEF Begins
    <3> QED
      BY <2>2, <3>2
  <2>3. CASE k # 0
    <3>1. k - 1 \in Nat /\ k - 1 \notin N
      BY <2>1, <2>3
    <3>2. PICK f : Begins(f, k - 1)
      BY <3>1
    <3> DEFINE g == [v \in Up(k) |-> Def(f, v)]
    <3>3. ASSUME NEW v \in Up(k) PROVE Def(f, v) = Def(g, v)
      <4>1. v \in S /\ Depth(v) \in Nat /\ Depth(v) < k
        BY DEF Up, Grounded
      <4>2. ASSUME NEW w \in S, Depth(w) < Depth(v) PROVE f[w] = g[w]
        <5>1. w \in Up(k) /\ w \in Up(k - 1)
          BY <4>1, <4>2 DEF Up, Grounded
        <5> QED
          BY <3>2, <5>1 DEF Begins
      <4>3. Agree(f, g, v)
        BY <4>2 DEF Agree
      <4> QED
        BY <4>1, <4>3 DEF Local
    <3>4. g = [v \in Up(k) |-> Def(g, v)]
      BY <3>3
    <3> HIDE DEF g
    <3> QED
      BY <3>4 DEF Begins
  <2> QED
    BY <2>2, <2>3
<1> QED
  BY <1>1 DEF Beginning

\* The recursion defines a function: there is one that satisfies it.
THEOREM Defined ==
  ASSUME Grounded, Local
  PROVE  \E f : Satisfies(f)
<1> DEFINE B(v) == Beginning(Depth(v) + 1)
           F == [v \in S |-> B(v)[v]]
<1>1. ASSUME NEW v \in S PROVE F[v] = Def(F, v)
  <2>1. Depth(v) + 1 \in Nat /\ Begins(B(v), Depth(v) + 1)
    BY BeginningsExist DEF Grounded
  <2>2. v \in Up(Depth(v) + 1)
    BY DEF Up, Grounded
  <2>3. F[v] = Def(B(v), v)
    BY <2>1, <2>2 DEF Begins
  <2>4. ASSUME NEW w \in S, Depth(w) < Depth(v) PROVE B(v)[w] = F[w]
    <3>1. Depth(w) + 1 \in Nat /\ Depth(v) \in Nat /\ Begins(B(w), Depth(w) + 1)
      BY BeginningsExist DEF Grounded
    <3> HIDE DEF B
    <3>2. B(v)[w] = B(w)[w]
      BY <2>1, <2>4, <3>1, BeginningsAgree DEF Grounded
    <3> QED
      BY <3>2
  <2>5. Agree(B(v), F, v)
    <3> HIDE DEF B, F
    <3> QED BY <2>4 DEF Agree
  <2>6. Def(B(v), v) = Def(F, v)
    <3> HIDE DEF B, F
    <3> QED BY <2>5 DEF Local
  <2> QED
    BY <2>3, <2>6
<1>2. F = [v \in S |-> Def(F, v)]
  BY <1>1
<1> HIDE DEF F
<1> QED
  BY <1>2 DEF Satisfies

=============================================================================
