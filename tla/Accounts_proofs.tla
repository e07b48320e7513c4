--------------------------- MODULE Accounts_proofs ---------------------------
(***************************************************************************)
(* Proofs about Accounts: what the results add up is what was drawn, for   *)
(* any number of nodes, requests, hours and ticks.  First come the sums    *)
(* over finite sets that the results are made of, then the windows and     *)
(* intervals they are cut into, and at last the logs they are read from.   *)
(***************************************************************************)
EXTENDS Accounts, FiniteSetTheorems, SequenceTheorems, WellFoundedInduction, TLAPS

LEMMA SmallestNat ==
  ASSUME NEW S, S \subseteq Nat, S # {}
  PROVE  \E m \in S : \A k \in S : m <= k
<1>1. PICK m \in S : \A k \in S : <<k, m>> \notin OpToRel(<, Nat)
  BY WFMin, NatLessThanWellFounded, Zenon
<1>2. \A k \in S : ~(k < m)
  BY <1>1, Zenon DEF OpToRel
<1> QED
  BY <1>2

(* Induction, over a set rather than a formula. *)
LEMMA NatClosed ==
  ASSUME NEW G, 0 \in G, \A k \in Nat : k \in G => k + 1 \in G
  PROVE  Nat \subseteq G
<1> SUFFICES ASSUME ~(Nat \subseteq G) PROVE FALSE
  OBVIOUS
<1> DEFINE Missed == {k \in Nat : k \notin G}
<1>1. Missed \subseteq Nat /\ Missed # {}
  OBVIOUS
<1>2. PICK m \in Missed : \A k \in Missed : m <= k
  BY <1>1, SmallestNat
<1>3. m \in Nat /\ m # 0 /\ m - 1 \in Nat
  BY <1>2
<1>4. m - 1 \in G
  BY <1>2, <1>3
<1>5. (m - 1) + 1 = m
  BY <1>3
<1> QED
  BY <1>2, <1>3, <1>4, <1>5

LEMMA SetClosed ==
  ASSUME NEW S, IsFiniteSet(S), NEW G, {} \in G,
         \A T \in SUBSET S : \A x \in S \ T : T \in G => T \cup {x} \in G
  PROVE  S \in G
<1> DEFINE Sizes == {k \in Nat : \A T \in SUBSET S : Cardinality(T) = k => T \in G}
<1>1. \A T \in SUBSET S : IsFiniteSet(T) /\ Cardinality(T) \in Nat
  BY FS_Subset, FS_CardinalityType
<1>2. 0 \in Sizes
  <2> SUFFICES ASSUME NEW T \in SUBSET S, Cardinality(T) = 0 PROVE T \in G
    OBVIOUS
  <2>1. T = {}
    BY <1>1, FS_EmptySet
  <2> QED
    BY <2>1
<1>3. ASSUME NEW k \in Nat, k \in Sizes PROVE k + 1 \in Sizes
  <2> SUFFICES ASSUME NEW T \in SUBSET S, Cardinality(T) = k + 1 PROVE T \in G
    OBVIOUS
  <2>0. Cardinality({}) = 0 /\ k + 1 # 0
    BY FS_EmptySet
  <2>1. T # {}
    BY ONLY <2>0, Cardinality(T) = k + 1, Zenon
  <2>2. PICK x \in T : TRUE
    BY <2>1
  <2>3. Cardinality(T \ {x}) = k
    <3>1. Cardinality(T \ {x}) = Cardinality(T) - 1
      BY <1>1, <2>2, FS_RemoveElement
    <3> QED
      BY <3>1
  <2>4. T \ {x} \in G
    BY <1>3, <2>3
  <2>5. T = (T \ {x}) \cup {x} /\ x \in S \ (T \ {x})
    BY <2>2
  <2> QED
    BY <2>4, <2>5
<1> HIDE DEF Sizes
<1>4. Nat \subseteq Sizes
  BY <1>2, <1>3, NatClosed
<1> QED
  BY <1>1, <1>4 DEF Sizes

-----------------------------------------------------------------------------
(* Sums.  The library adds the elements of a set in the order in which     *)
(* CHOOSE takes them, by a function on all its subsets.                    *)

Taken(s) == CHOOSE x \in s : TRUE

Adds(f, g, s) == g[s] = IF s = {} THEN 0 ELSE f[Taken(s)] + g[s \ {Taken(s)}]

Adder(f, S, g) ==
    g = [s \in SUBSET S |-> IF s = {} THEN 0
                            ELSE f[Taken(s)] + g[s \ {Taken(s)}]]

LEMMA TakenIn ==
  ASSUME NEW s, s # {}
  PROVE  Taken(s) \in s
BY DEF Taken

LEMMA SumIsOfAdder ==
  ASSUME NEW f, NEW S
  PROVE  SumFunctionOnSet(f, S) = (CHOOSE g : Adder(f, S, g))[S]
BY Zenon DEF SumFunctionOnSet, FoldFunctionOnSet, MapThenFoldSet, Adder, Taken

LEMMA AdderExists ==
  ASSUME NEW f, NEW S, IsFiniteSet(S)
  PROVE  \E g : Adder(f, S, g)
<1> DEFINE Small(k) == {s \in SUBSET S : Cardinality(s) <= k}
           Reaches(k) == \E g : \A s \in Small(k) : Adds(f, g, s)
           Sizes == {k \in Nat : Reaches(k)}
<1>0. \A s \in SUBSET S : IsFiniteSet(s) /\ Cardinality(s) \in Nat
  BY FS_Subset, FS_CardinalityType
<1>1. 0 \in Sizes
  <2> DEFINE h == [s \in Small(0) |-> 0]
  <2>1. \A s \in Small(0) : s = {}
    BY <1>0, FS_EmptySet
  <2>2. \A s \in Small(0) : Adds(f, h, s)
    BY <2>1 DEF Adds
  <2> QED
    BY <2>2
<1>2. ASSUME NEW k \in Nat, k \in Sizes PROVE k + 1 \in Sizes
  <2>1. PICK g : \A s \in Small(k) : Adds(f, g, s)
    BY <1>2
  <2> DEFINE h == [s \in Small(k + 1) |-> IF s = {} THEN 0
                                          ELSE f[Taken(s)] + g[s \ {Taken(s)}]]
  <2>2. ASSUME NEW s \in Small(k + 1), s # {}
        PROVE  s \ {Taken(s)} \in Small(k) /\ s \ {Taken(s)} \in Small(k + 1)
    <3>1. Cardinality(s \ {Taken(s)}) = Cardinality(s) - 1
      BY <1>0, <2>2, TakenIn, FS_RemoveElement
    <3>2. Cardinality(s) \in Nat /\ Cardinality(s) <= k + 1
      BY <1>0
    <3> QED
      BY <3>1, <3>2
  <2>3. \A s \in Small(k) : s \in Small(k + 1) /\ h[s] = g[s]
    <3> SUFFICES ASSUME NEW s \in Small(k) PROVE s \in Small(k + 1) /\ h[s] = g[s]
      OBVIOUS
    <3>1. s \in Small(k + 1)
      BY <1>0
    <3>2. Adds(f, g, s)
      BY <2>1
    <3> QED
      BY <3>1, <3>2 DEF Adds
  <2>4. \A s \in Small(k + 1) : Adds(f, h, s)
    BY <2>2, <2>3 DEF Adds
  <2> HIDE DEF h
  <2> QED
    BY <2>4
<1> HIDE DEF Sizes
<1>3. Nat \subseteq Sizes
  BY <1>1, <1>2, NatClosed
<1>4. Cardinality(S) \in Nat
  BY <1>0
<1>5. PICK g : \A s \in Small(Cardinality(S)) : Adds(f, g, s)
  BY <1>3, <1>4 DEF Sizes
<1> DEFINE h == [s \in SUBSET S |-> g[s]]
<1>6. \A s \in SUBSET S : Adds(f, g, s)
  BY <1>0, <1>5, FS_Subset
<1>7. \A s \in SUBSET S : h[s] = IF s = {} THEN 0 ELSE f[Taken(s)] + h[s \ {Taken(s)}]
  BY <1>6 DEF Adds
<1>8. Adder(f, S, h)
  <2>1. h = [s \in SUBSET S |-> h[s]]
    OBVIOUS
  <2> HIDE DEF h
  <2> QED
    BY <1>7, <2>1 DEF Adder
<1> QED
  BY <1>8

LEMMA SumByAdder ==
  ASSUME NEW f, NEW S, IsFiniteSet(S)
  PROVE  \E g : Adder(f, S, g) /\ SumFunctionOnSet(f, S) = g[S]
<1> DEFINE g == CHOOSE h : Adder(f, S, h)
<1>1. Adder(f, S, g)
  BY AdderExists
<1> HIDE DEF g
<1>2. SumFunctionOnSet(f, S) = g[S]
  BY SumIsOfAdder DEF g
<1> QED
  BY <1>1, <1>2

LEMMA AdderAdds ==
  ASSUME NEW f, NEW S, NEW g, Adder(f, S, g), NEW s \in SUBSET S
  PROVE  Adds(f, g, s)
BY DEF Adder, Adds

(* Two of them agree where both are defined. *)
LEMMA AddersAgree ==
  ASSUME NEW f, NEW S, NEW T \in SUBSET S, IsFiniteSet(S), NEW g, NEW h,
         Adder(f, S, g), Adder(f, T, h)
  PROVE  g[T] = h[T]
<1> DEFINE Sizes == {k \in Nat : \A s \in SUBSET T : Cardinality(s) = k => g[s] = h[s]}
<1>0. \A s \in SUBSET T : s \in SUBSET S /\ IsFiniteSet(s) /\ Cardinality(s) \in Nat
  BY FS_Subset, FS_CardinalityType
<1>1. \A s \in SUBSET T : Adds(f, g, s) /\ Adds(f, h, s)
  BY <1>0, AdderAdds
<1>2. 0 \in Sizes
  BY <1>0, <1>1, FS_EmptySet DEF Adds
<1>3. ASSUME NEW k \in Nat, k \in Sizes PROVE k + 1 \in Sizes
  <2> SUFFICES ASSUME NEW s \in SUBSET T, Cardinality(s) = k + 1 PROVE g[s] = h[s]
    OBVIOUS
  <2>1. s # {}
    BY FS_EmptySet
  <2>2. Cardinality(s \ {Taken(s)}) = Cardinality(s) - 1
    BY <1>0, <2>1, TakenIn, FS_RemoveElement
  <2>3. g[s \ {Taken(s)}] = h[s \ {Taken(s)}]
    BY <1>3, <2>2
  <2> QED
    BY <1>1, <2>1, <2>3 DEF Adds
<1> HIDE DEF Sizes
<1>4. Nat \subseteq Sizes
  BY <1>2, <1>3, NatClosed
<1> QED
  BY <1>0, <1>4 DEF Sizes

LEMMA SumEmpty ==
  ASSUME NEW f
  PROVE  SumFunctionOnSet(f, {}) = 0
<1>1. PICK g : Adder(f, {}, g) /\ SumFunctionOnSet(f, {}) = g[{}]
  BY FS_EmptySet, SumByAdder
<1> QED
  BY <1>1, AdderAdds DEF Adds

LEMMA SumTake ==
  ASSUME NEW f, NEW S, IsFiniteSet(S), S # {}
  PROVE  /\ Taken(S) \in S
         /\ SumFunctionOnSet(f, S) = f[Taken(S)] + SumFunctionOnSet(f, S \ {Taken(S)})
<1> DEFINE T == S \ {Taken(S)}
<1>1. PICK g : Adder(f, S, g) /\ SumFunctionOnSet(f, S) = g[S]
  BY SumByAdder
<1>2. IsFiniteSet(T) /\ T \in SUBSET S
  BY FS_Subset
<1>3. PICK h : Adder(f, T, h) /\ SumFunctionOnSet(f, T) = h[T]
  BY <1>2, SumByAdder
<1>4. g[T] = h[T]
  BY <1>1, <1>2, <1>3, AddersAgree
<1>5. Adds(f, g, S)
  BY <1>1, AdderAdds
<1> QED
  BY <1>1, <1>3, <1>4, <1>5, TakenIn DEF Adds

(* Integers are added up, in whatever order. *)
IntOn(f, S) == \A x \in S : f[x] \in Int

LEMMA SumType ==
  ASSUME NEW f, NEW S, IsFiniteSet(S), IntOn(f, S)
  PROVE  SumFunctionOnSet(f, S) \in Int
<1> DEFINE Sizes == {k \in Nat : \A T \in SUBSET S : Cardinality(T) = k =>
                                       SumFunctionOnSet(f, T) \in Int}
<1>0. \A T \in SUBSET S : IsFiniteSet(T) /\ Cardinality(T) \in Nat
  BY FS_Subset, FS_CardinalityType
<1>1. 0 \in Sizes
  BY <1>0, FS_EmptySet, SumEmpty
<1>2. ASSUME NEW k \in Nat, k \in Sizes PROVE k + 1 \in Sizes
  <2> SUFFICES ASSUME NEW T \in SUBSET S, Cardinality(T) = k + 1
               PROVE  SumFunctionOnSet(f, T) \in Int
    OBVIOUS
  <2>1. T # {}
    BY FS_EmptySet
  <2>2. Cardinality(T \ {Taken(T)}) = Cardinality(T) - 1
    BY <1>0, <2>1, TakenIn, FS_RemoveElement
  <2>3. SumFunctionOnSet(f, T \ {Taken(T)}) \in Int
    BY <1>2, <2>2
  <2>4. f[Taken(T)] \in Int
    BY <2>1, TakenIn DEF IntOn
  <2> QED
    BY <1>0, <2>1, <2>3, <2>4, SumTake
<1> HIDE DEF Sizes
<1>3. Nat \subseteq Sizes
  BY <1>1, <1>2, NatClosed
<1> QED
  BY <1>0, <1>3 DEF Sizes

LEMMA SumInsert ==
  ASSUME NEW f, NEW S, IsFiniteSet(S), IntOn(f, S), NEW T \in SUBSET S, NEW x \in S \ T
  PROVE  SumFunctionOnSet(f, T \cup {x}) = f[x] + SumFunctionOnSet(f, T)
<1> DEFINE Fits(U, y) == SumFunctionOnSet(f, U \cup {y}) = f[y] + SumFunctionOnSet(f, U)
           Sizes == {k \in Nat : \A U \in SUBSET S : \A y \in S \ U :
                                    Cardinality(U) = k => Fits(U, y)}
<1>0. \A U \in SUBSET S : /\ IsFiniteSet(U) /\ Cardinality(U) \in Nat
                          /\ SumFunctionOnSet(f, U) \in Int
  <2> TAKE U \in SUBSET S
  <2>1. IsFiniteSet(U) /\ Cardinality(U) \in Nat
    BY FS_Subset, FS_CardinalityType
  <2>2. IntOn(f, U)
    BY DEF IntOn
  <2> QED
    BY <2>1, <2>2, SumType
<1>1. 0 \in Sizes
  <2> SUFFICES ASSUME NEW U \in SUBSET S, NEW y \in S \ U, Cardinality(U) = 0
               PROVE  Fits(U, y)
    OBVIOUS
  <2>1. U = {}
    BY <1>0, FS_EmptySet
  <2>2. Taken({y}) = y /\ {y} \ {y} = {} /\ IsFiniteSet({y})
    BY FS_Singleton DEF Taken
  <2>3. SumFunctionOnSet(f, {y}) = f[y] + SumFunctionOnSet(f, {})
    BY <2>2, SumTake
  <2> QED
    BY <2>1, <2>3
<1>2. ASSUME NEW k \in Nat, k \in Sizes PROVE k + 1 \in Sizes
  <2> SUFFICES ASSUME NEW U \in SUBSET S, NEW y \in S \ U, Cardinality(U) = k + 1
               PROVE  Fits(U, y)
    OBVIOUS
  <2> DEFINE V == U \cup {y}
             c == Taken(V)
  <2>1. V \in SUBSET S /\ IsFiniteSet(V) /\ c \in V
    BY <1>0, TakenIn
  <2>2. SumFunctionOnSet(f, V) = f[c] + SumFunctionOnSet(f, V \ {c})
    BY <2>1, SumTake
  <2> HIDE DEF c
  <2>3. CASE c = y
    <3>1. V \ {c} = U
      BY <2>3
    <3> QED
      BY <2>2, <2>3, <3>1
  <2>4. CASE c # y
    <3>1. c \in U /\ V \ {c} = (U \ {c}) \cup {y} /\ U = (U \ {c}) \cup {c}
      BY <2>1, <2>4
    <3>2. Cardinality(U \ {c}) = k
      <4>1. Cardinality(U \ {c}) = Cardinality(U) - 1
        BY <1>0, <3>1, FS_RemoveElement
      <4> QED
        BY <4>1
    <3>3. Fits(U \ {c}, y)
      BY <1>2, <3>1, <3>2
    <3>4. Fits(U \ {c}, c)
      BY <1>2, <3>1, <3>2
    <3>5. f[c] \in Int /\ f[y] \in Int /\ SumFunctionOnSet(f, U \ {c}) \in Int
      BY <1>0, <3>1 DEF IntOn
    <3> DEFINE rest == SumFunctionOnSet(f, U \ {c})
    <3>6. SumFunctionOnSet(f, V \ {c}) = f[y] + rest
      BY <3>1, <3>3
    <3>7. SumFunctionOnSet(f, U) = f[c] + rest
      BY <3>1, <3>4
    <3>8. SumFunctionOnSet(f, V) = f[c] + (f[y] + rest)
      BY <2>2, <3>6
    <3> HIDE DEF rest
    <3>9. f[c] + (f[y] + rest) = f[y] + (f[c] + rest)
      BY <3>5 DEF rest
    <3> QED
      BY <3>7, <3>8, <3>9
  <2> QED
    BY <2>3, <2>4
<1> HIDE DEF Sizes
<1>3. Nat \subseteq Sizes
  BY <1>1, <1>2, NatClosed
<1> QED
  BY <1>0, <1>3 DEF Sizes

LEMMA SumExt ==
  ASSUME NEW f, NEW g, NEW S, IsFiniteSet(S), IntOn(f, S), \A x \in S : g[x] = f[x]
  PROVE  SumFunctionOnSet(g, S) = SumFunctionOnSet(f, S)
<1> DEFINE G == {T \in SUBSET S : SumFunctionOnSet(g, T) = SumFunctionOnSet(f, T)}
<1>0. IntOn(g, S)
  BY DEF IntOn
<1>1. {} \in G
  BY SumEmpty
<1>2. \A T \in SUBSET S : \A x \in S \ T : T \in G => T \cup {x} \in G
  <2> SUFFICES ASSUME NEW T \in SUBSET S, NEW x \in S \ T, T \in G
               PROVE  T \cup {x} \in G
    OBVIOUS
  <2>1. SumFunctionOnSet(f, T \cup {x}) = f[x] + SumFunctionOnSet(f, T)
    BY SumInsert
  <2>2. SumFunctionOnSet(g, T \cup {x}) = g[x] + SumFunctionOnSet(g, T)
    BY <1>0, SumInsert
  <2> QED
    BY <2>1, <2>2
<1> HIDE DEF G
<1>3. S \in G
  BY <1>1, <1>2, SetClosed
<1> QED
  BY <1>3 DEF G

LEMMA SumPlus ==
  ASSUME NEW f, NEW g, NEW h, NEW S, IsFiniteSet(S), IntOn(f, S), IntOn(g, S),
         \A x \in S : h[x] = f[x] + g[x]
  PROVE  SumFunctionOnSet(h, S) = SumFunctionOnSet(f, S) + SumFunctionOnSet(g, S)
<1> DEFINE G == {T \in SUBSET S : SumFunctionOnSet(h, T) =
                     SumFunctionOnSet(f, T) + SumFunctionOnSet(g, T)}
<1>0. IntOn(h, S)
  BY DEF IntOn
<1>1. {} \in G
  BY SumEmpty
<1>2. \A T \in SUBSET S : \A x \in S \ T : T \in G => T \cup {x} \in G
  <2> SUFFICES ASSUME NEW T \in SUBSET S, NEW x \in S \ T, T \in G
               PROVE  T \cup {x} \in G
    OBVIOUS
  <2>1. SumFunctionOnSet(f, T \cup {x}) = f[x] + SumFunctionOnSet(f, T)
    BY SumInsert
  <2>2. SumFunctionOnSet(g, T \cup {x}) = g[x] + SumFunctionOnSet(g, T)
    BY SumInsert
  <2>3. SumFunctionOnSet(h, T \cup {x}) = h[x] + SumFunctionOnSet(h, T)
    BY <1>0, SumInsert
  <2>4. IsFiniteSet(T) /\ IntOn(f, T) /\ IntOn(g, T)
    BY FS_Subset DEF IntOn
  <2>5. SumFunctionOnSet(f, T) \in Int /\ SumFunctionOnSet(g, T) \in Int
    BY <2>4, SumType
  <2>6. f[x] \in Int /\ g[x] \in Int /\ h[x] = f[x] + g[x]
    BY DEF IntOn
  <2>7. (f[x] + g[x]) + (SumFunctionOnSet(f, T) + SumFunctionOnSet(g, T))
          = (f[x] + SumFunctionOnSet(f, T)) + (g[x] + SumFunctionOnSet(g, T))
    BY <2>5, <2>6
  <2> QED
    BY <2>1, <2>2, <2>3, <2>6, <2>7
<1> HIDE DEF G
<1>3. S \in G
  BY <1>1, <1>2, SetClosed
<1> QED
  BY <1>3 DEF G

LEMMA SumLeq ==
  ASSUME NEW f, NEW g, NEW S, IsFiniteSet(S), IntOn(f, S), IntOn(g, S),
         \A x \in S : f[x] <= g[x]
  PROVE  SumFunctionOnSet(f, S) <= SumFunctionOnSet(g, S)
<1> DEFINE G == {T \in SUBSET S : SumFunctionOnSet(f, T) <= SumFunctionOnSet(g, T)}
<1>1. {} \in G
  BY SumEmpty
<1>2. \A T \in SUBSET S : \A x \in S \ T : T \in G => T \cup {x} \in G
  <2> SUFFICES ASSUME NEW T \in SUBSET S, NEW x \in S \ T, T \in G
               PROVE  T \cup {x} \in G
    OBVIOUS
  <2>1. SumFunctionOnSet(f, T \cup {x}) = f[x] + SumFunctionOnSet(f, T)
    BY SumInsert
  <2>2. SumFunctionOnSet(g, T \cup {x}) = g[x] + SumFunctionOnSet(g, T)
    BY SumInsert
  <2>3. IsFiniteSet(T) /\ IntOn(f, T) /\ IntOn(g, T)
    BY FS_Subset DEF IntOn
  <2>4. SumFunctionOnSet(f, T) \in Int /\ SumFunctionOnSet(g, T) \in Int
    BY <2>3, SumType
  <2>5. f[x] \in Int /\ g[x] \in Int /\ f[x] <= g[x]
    BY DEF IntOn
  <2>6. f[x] + SumFunctionOnSet(f, T) <= g[x] + SumFunctionOnSet(g, T)
    BY <2>4, <2>5
  <2> QED
    BY <2>1, <2>2, <2>6
<1> HIDE DEF G
<1>3. S \in G
  BY <1>1, <1>2, SetClosed
<1> QED
  BY <1>3 DEF G

LEMMA SumConst ==
  ASSUME NEW f, NEW S, IsFiniteSet(S), NEW c \in Int, \A x \in S : f[x] = c
  PROVE  SumFunctionOnSet(f, S) = c * Cardinality(S)
<1> DEFINE G == {T \in SUBSET S : SumFunctionOnSet(f, T) = c * Cardinality(T)}
<1>0. IntOn(f, S)
  BY DEF IntOn
<1>1. {} \in G
  BY SumEmpty, FS_EmptySet
<1>2. \A T \in SUBSET S : \A x \in S \ T : T \in G => T \cup {x} \in G
  <2> SUFFICES ASSUME NEW T \in SUBSET S, NEW x \in S \ T, T \in G
               PROVE  T \cup {x} \in G
    OBVIOUS
  <2>1. SumFunctionOnSet(f, T \cup {x}) = c + SumFunctionOnSet(f, T)
    BY <1>0, SumInsert
  <2>2. IsFiniteSet(T)
    BY FS_Subset
  <2>3. Cardinality(T \cup {x}) = Cardinality(T) + 1 /\ Cardinality(T) \in Nat
    BY <2>2, FS_AddElement, FS_CardinalityType
  <2> DEFINE k == Cardinality(T)
  <2>4. k \in Int
    BY <2>3
  <2> HIDE DEF k
  <2>5. c * (k + 1) = c + c * k
    BY <2>4
  <2> QED
    BY <2>1, <2>3, <2>5 DEF k
<1> HIDE DEF G
<1>3. S \in G
  BY <1>1, <1>2, SetClosed
<1> QED
  BY <1>3 DEF G

LEMMA SumTimes ==
  ASSUME NEW f, NEW h, NEW S, IsFiniteSet(S), IntOn(f, S), NEW c \in Int,
         \A x \in S : h[x] = f[x] * c
  PROVE  SumFunctionOnSet(h, S) = SumFunctionOnSet(f, S) * c
<1> DEFINE G == {T \in SUBSET S : SumFunctionOnSet(h, T) = SumFunctionOnSet(f, T) * c}
<1>0. IntOn(h, S)
  BY DEF IntOn
<1>1. {} \in G
  BY SumEmpty
<1>2. \A T \in SUBSET S : \A x \in S \ T : T \in G => T \cup {x} \in G
  <2> SUFFICES ASSUME NEW T \in SUBSET S, NEW x \in S \ T, T \in G
               PROVE  T \cup {x} \in G
    OBVIOUS
  <2> DEFINE s == SumFunctionOnSet(f, T)
             v == f[x]
  <2>1. SumFunctionOnSet(f, T \cup {x}) = v + s
    BY SumInsert
  <2>2. SumFunctionOnSet(h, T \cup {x}) = h[x] + SumFunctionOnSet(h, T)
    BY <1>0, SumInsert
  <2>3. IsFiniteSet(T) /\ IntOn(f, T)
    BY FS_Subset DEF IntOn
  <2>4. s \in Int /\ v \in Int
    BY <2>3, SumType DEF IntOn
  <2>5. h[x] = v * c /\ SumFunctionOnSet(h, T) = s * c
    OBVIOUS
  <2> HIDE DEF s, v
  <2>6. (v + s) * c = v * c + s * c
    BY <2>4
  <2> QED
    BY <2>1, <2>2, <2>5, <2>6
<1> HIDE DEF G
<1>3. S \in G
  BY <1>1, <1>2, SetClosed
<1> QED
  BY <1>3 DEF G

LEMMA SumZero ==
  ASSUME NEW f, NEW S, IsFiniteSet(S), \A x \in S : f[x] = 0
  PROVE  SumFunctionOnSet(f, S) = 0
<1>1. SumFunctionOnSet(f, S) = 0 * Cardinality(S)
  BY SumConst
<1>2. Cardinality(S) \in Nat
  BY FS_CardinalityType
<1> DEFINE k == Cardinality(S)
<1> HIDE DEF k
<1>3. 0 * k = 0
  BY <1>2 DEF k
<1> QED
  BY <1>1, <1>3 DEF k

LEMMA SumOne ==
  ASSUME NEW f, NEW S, IsFiniteSet(S), NEW i \in S, NEW c \in Int,
         \A x \in S : f[x] = IF x = i THEN c ELSE 0
  PROVE  SumFunctionOnSet(f, S) = c
<1> DEFINE T == S \ {i}
<1>1. IsFiniteSet(T) /\ T \in SUBSET S /\ i \in S \ T /\ T \cup {i} = S
  BY FS_Subset
<1>2. SumFunctionOnSet(f, T) = 0
  <2>1. \A x \in T : f[x] = 0
    OBVIOUS
  <2> QED
    BY <1>1, <2>1, SumZero
<1>3. IntOn(f, S)
  BY DEF IntOn
<1>4. SumFunctionOnSet(f, T \cup {i}) = f[i] + SumFunctionOnSet(f, T)
  BY <1>1, <1>3, SumInsert
<1> QED
  BY <1>1, <1>2, <1>4

(* A sum is that of the sums over the parts w[x] cuts its set into. *)
Part(w, i, S) == {x \in S : w[x] = i}
PartSums(f, w, I, S) == [i \in I |-> SumFunctionOnSet(f, Part(w, i, S))]

LEMMA SumParts ==
  ASSUME NEW f, NEW S, IsFiniteSet(S), IntOn(f, S),
         NEW I, IsFiniteSet(I), NEW w, \A x \in S : w[x] \in I
  PROVE  SumFunctionOnSet(f, S) = SumFunctionOnSet(PartSums(f, w, I, S), I)
<1> DEFINE G == {T \in SUBSET S : SumFunctionOnSet(f, T) =
                                    SumFunctionOnSet(PartSums(f, w, I, T), I)}
<1>0. \A T \in SUBSET S : IntOn(PartSums(f, w, I, T), I)
  <2> SUFFICES ASSUME NEW T \in SUBSET S, NEW i \in I
               PROVE  PartSums(f, w, I, T)[i] \in Int
    BY DEF IntOn
  <2>1. IsFiniteSet(Part(w, i, T)) /\ IntOn(f, Part(w, i, T))
    <3>1. Part(w, i, T) \in SUBSET S
      BY DEF Part
    <3> QED
      BY <3>1, FS_Subset DEF IntOn
  <2>2. SumFunctionOnSet(f, Part(w, i, T)) \in Int
    BY <2>1, SumType
  <2> QED
    BY <2>2 DEF PartSums
<1>1. {} \in G
  <2>1. \A i \in I : PartSums(f, w, I, {})[i] = 0
    <3> TAKE i \in I
    <3>1. Part(w, i, {}) = {}
      BY DEF Part
    <3> QED
      BY <3>1, SumEmpty DEF PartSums
  <2>2. SumFunctionOnSet(PartSums(f, w, I, {}), I) = 0
    BY <2>1, SumZero
  <2> QED
    BY <2>2, SumEmpty
<1>2. \A T \in SUBSET S : \A x \in S \ T : T \in G => T \cup {x} \in G
  <2> SUFFICES ASSUME NEW T \in SUBSET S, NEW x \in S \ T, T \in G
               PROVE  T \cup {x} \in G
    OBVIOUS
  <2> DEFINE U == T \cup {x}
             p == PartSums(f, w, I, T)
             q == PartSums(f, w, I, U)
             d == [i \in I |-> IF i = w[x] THEN f[x] ELSE 0]
  <2>1. SumFunctionOnSet(f, U) = f[x] + SumFunctionOnSet(f, T)
    BY SumInsert
  <2>2. f[x] \in Int /\ w[x] \in I
    BY DEF IntOn
  <2>3. \A i \in I : q[i] = d[i] + p[i]
    <3> TAKE i \in I
    <3>1. IsFiniteSet(Part(w, i, S)) /\ IntOn(f, Part(w, i, S))
      BY FS_Subset DEF Part, IntOn
    <3>2. p[i] = SumFunctionOnSet(f, Part(w, i, T)) /\ q[i] = SumFunctionOnSet(f, Part(w, i, U))
      BY DEF PartSums
    <3>3. CASE i = w[x]
      <4>1. /\ Part(w, i, U) = Part(w, i, T) \cup {x}
            /\ Part(w, i, T) \in SUBSET Part(w, i, S)
            /\ x \in Part(w, i, S) \ Part(w, i, T)
        BY <3>3 DEF Part
      <4> DEFINE P == Part(w, i, T)
      <4> HIDE DEF P
      <4>2. SumFunctionOnSet(f, P \cup {x}) = f[x] + SumFunctionOnSet(f, P)
        BY <3>1, <4>1, SumInsert DEF P
      <4>3. d[i] = f[x]
        BY <3>3
      <4> HIDE DEF d, p, q
      <4> QED
        BY <3>2, <4>1, <4>2, <4>3 DEF P
    <3>4. CASE i # w[x]
      <4>1. Part(w, i, U) = Part(w, i, T)
        BY <3>4 DEF Part
      <4>2. d[i] = 0
        BY <3>4
      <4>3. p[i] \in Int
        BY <1>0 DEF IntOn
      <4> HIDE DEF d, p, q
      <4>4. q[i] = p[i]
        BY <3>2, <4>1
      <4> QED
        BY <4>2, <4>3, <4>4
    <3> QED
      BY <3>3, <3>4
  <2>4. IntOn(d, I) /\ IntOn(p, I)
    BY <1>0, <2>2 DEF IntOn
  <2>5. SumFunctionOnSet(d, I) = f[x]
    <3>1. \A i \in I : d[i] = IF i = w[x] THEN f[x] ELSE 0
      OBVIOUS
    <3> HIDE DEF d
    <3> QED
      BY <2>2, <3>1, SumOne
  <2> HIDE DEF d, p, q
  <2>6. SumFunctionOnSet(q, I) = SumFunctionOnSet(d, I) + SumFunctionOnSet(p, I)
    BY <2>3, <2>4, SumPlus
  <2> QED
    BY <2>1, <2>5, <2>6 DEF p, q
<1> HIDE DEF G
<1>3. S \in G
  BY <1>1, <1>2, SetClosed
<1> QED
  BY <1>3 DEF G

(* The order of two sums does not matter. *)
Row(F, x, Y) == [y \in Y |-> F[<<x, y>>]]
Col(F, y, X) == [x \in X |-> F[<<x, y>>]]
RowSums(F, X, Y) == [x \in X |-> SumFunctionOnSet(Row(F, x, Y), Y)]
ColSums(F, X, Y, T) == [y \in Y |-> SumFunctionOnSet(Col(F, y, X), T)]

LEMMA SumSwap ==
  ASSUME NEW X, IsFiniteSet(X), NEW Y, IsFiniteSet(Y), NEW F,
         \A x \in X, y \in Y : F[<<x, y>>] \in Int
  PROVE  SumFunctionOnSet(RowSums(F, X, Y), X) = SumFunctionOnSet(ColSums(F, X, Y, X), Y)
<1> DEFINE G == {T \in SUBSET X : SumFunctionOnSet(RowSums(F, X, Y), T) =
                                    SumFunctionOnSet(ColSums(F, X, Y, T), Y)}
<1>1. \A x \in X : IntOn(Row(F, x, Y), Y)
  BY DEF IntOn, Row
<1>2. \A y \in Y : IntOn(Col(F, y, X), X)
  BY DEF IntOn, Col
<1>3. IntOn(RowSums(F, X, Y), X)
  <2> SUFFICES ASSUME NEW x \in X PROVE RowSums(F, X, Y)[x] \in Int
    BY DEF IntOn
  <2>1. SumFunctionOnSet(Row(F, x, Y), Y) \in Int
    BY <1>1, SumType
  <2> QED
    BY <2>1 DEF RowSums
<1>4. \A T \in SUBSET X : IntOn(ColSums(F, X, Y, T), Y)
  <2> SUFFICES ASSUME NEW T \in SUBSET X, NEW y \in Y PROVE ColSums(F, X, Y, T)[y] \in Int
    BY DEF IntOn
  <2>1. IsFiniteSet(T) /\ IntOn(Col(F, y, X), T)
    BY <1>2, FS_Subset DEF IntOn
  <2>2. SumFunctionOnSet(Col(F, y, X), T) \in Int
    BY <2>1, SumType
  <2> QED
    BY <2>2 DEF ColSums
<1>5. {} \in G
  <2>1. \A y \in Y : ColSums(F, X, Y, {})[y] = 0
    BY SumEmpty DEF ColSums
  <2>2. SumFunctionOnSet(ColSums(F, X, Y, {}), Y) = 0
    BY <2>1, SumZero
  <2> QED
    BY <2>2, SumEmpty
<1>6. \A T \in SUBSET X : \A x \in X \ T : T \in G => T \cup {x} \in G
  <2> SUFFICES ASSUME NEW T \in SUBSET X, NEW x \in X \ T, T \in G
               PROVE  T \cup {x} \in G
    OBVIOUS
  <2> DEFINE U == T \cup {x}
             p == ColSums(F, X, Y, T)
             q == ColSums(F, X, Y, U)
             r == RowSums(F, X, Y)
             d == Row(F, x, Y)
  <2>1. SumFunctionOnSet(r, U) = r[x] + SumFunctionOnSet(r, T)
    BY <1>3, SumInsert
  <2>2. r[x] = SumFunctionOnSet(d, Y)
    BY DEF RowSums
  <2>3. \A y \in Y : q[y] = d[y] + p[y]
    <3> TAKE y \in Y
    <3> DEFINE c == Col(F, y, X)
    <3>1. SumFunctionOnSet(c, U) = c[x] + SumFunctionOnSet(c, T)
      BY <1>2, SumInsert
    <3>2. c[x] = d[y]
      BY DEF Col, Row
    <3>3. q[y] = SumFunctionOnSet(c, U) /\ p[y] = SumFunctionOnSet(c, T)
      BY DEF ColSums
    <3> HIDE DEF c, d, p, q
    <3> QED
      BY <3>1, <3>2, <3>3
  <2>4. IntOn(d, Y) /\ IntOn(p, Y)
    BY <1>1, <1>4
  <2> HIDE DEF d, p, q, r
  <2>5. SumFunctionOnSet(q, Y) = SumFunctionOnSet(d, Y) + SumFunctionOnSet(p, Y)
    BY <2>3, <2>4, SumPlus
  <2> QED
    BY <2>1, <2>2, <2>5 DEF p, q, r
<1> HIDE DEF G
<1>7. X \in G
  BY <1>5, <1>6, SetClosed
<1> QED
  BY <1>7 DEF G

-----------------------------------------------------------------------------
(* The least and the greatest of a set. *)

LEMMA MinOf ==
  ASSUME NEW S \in SUBSET Nat, S # {}
  PROVE  Min(S) \in S /\ \A x \in S : Min(S) <= x
<1>1. \E m \in S : \A x \in S : m <= x
  BY SmallestNat
<1> QED
  BY <1>1 DEF Min

LEMMA MaxOf ==
  ASSUME NEW S \in SUBSET Nat, S # {}, NEW b \in Nat, \A x \in S : x <= b
  PROVE  Max(S) \in S /\ \A x \in S : x <= Max(S)
<1> DEFINE D == {b - x : x \in S}
<1>1. D \subseteq Nat /\ D # {}
  OBVIOUS
<1>2. PICK d \in D : \A e \in D : d <= e
  BY <1>1, SmallestNat
<1>3. PICK m \in S : d = b - m
  BY <1>2
<1>4. \A x \in S : m >= x
  <2> TAKE x \in S
  <2>1. b - m <= b - x
    BY <1>2, <1>3
  <2> QED
    BY <2>1
<1>5. \E k \in S : \A x \in S : k >= x
  BY <1>4
<1> QED
  BY <1>5 DEF Max

LEMMA MaxIs ==
  ASSUME NEW S \in SUBSET Nat, NEW m \in S, \A x \in S : x <= m
  PROVE  Max(S) = m
<1>1. Max(S) \in S /\ \A x \in S : x <= Max(S)
  BY MaxOf
<1> DEFINE M == Max(S)
<1> HIDE DEF M
<1>2. M \in Nat /\ m \in Nat /\ M <= m /\ m <= M
  BY <1>1 DEF M
<1>3. M = m
  BY <1>2
<1> QED
  BY <1>3 DEF M

-----------------------------------------------------------------------------
(* One node in a window: its energy is what it drew tick by tick, by the   *)
(* last entry at or before each.                                           *)

Statuses == {OFF, IDLE, WORKING}

Sorted(log) ==
    /\ Len(log) \in Nat /\ DOMAIN log = 1 .. Len(log)
    /\ \A i \in DOMAIN log : log[i].timestamp \in Nat
    /\ \A i, j \in DOMAIN log : i < j => log[i].timestamp <= log[j].timestamp

Told(logs, n, t) == StatusAt(0, n, t, logs)

TickPower(logs, n, a, b) == [t \in a .. b - 1 |-> power_for_status(Told(logs, n, t))]

Points(n, a, b, logs) == {0} \cup Within(n, a, b, logs)

(* The point in force at each tick. *)
Started(n, a, b, logs, t) == {i \in Points(n, a, b, logs) : From(i, a, logs) <= t}
InForcePoint(n, a, b, logs) == [t \in a .. b - 1 |-> Max(Started(n, a, b, logs, t))]

Window(n, a, b, logs) == n \in Nodes /\ a \in Nat /\ b \in Nat /\ a <= b /\ Sorted(logs)

LEMMA PointsAre ==
  ASSUME NEW n, NEW a, NEW b, NEW logs, Window(n, a, b, logs)
  PROVE  /\ Within(n, a, b, logs) \subseteq 1 .. Len(logs)
         /\ Points(n, a, b, logs) \subseteq 0 .. Len(logs)
         /\ Points(n, a, b, logs) \subseteq Nat
         /\ IsFiniteSet(Points(n, a, b, logs))
<1>1. Within(n, a, b, logs) \subseteq 1 .. Len(logs) /\ Len(logs) \in Nat
  BY DEF Window, Sorted, Within
<1>2. Points(n, a, b, logs) \subseteq 0 .. Len(logs)
  BY <1>1 DEF Points
<1>3. IsFiniteSet(0 .. Len(logs))
  BY <1>1, FS_Interval
<1> QED
  BY <1>1, <1>2, <1>3, FS_Subset

LEMMA StartedMax ==
  ASSUME NEW n, NEW a, NEW b, NEW logs, Window(n, a, b, logs), NEW t \in a .. b - 1
  PROVE  /\ Max(Started(n, a, b, logs, t)) \in Started(n, a, b, logs, t)
         /\ \A i \in Started(n, a, b, logs, t) : i <= Max(Started(n, a, b, logs, t))
<1> DEFINE S == Started(n, a, b, logs, t)
<1>1. 0 \in S
  BY DEF Started, Points, From, Window
<1>2. S \in SUBSET Nat /\ \A x \in S : x <= Len(logs)
  BY PointsAre DEF Started
<1>3. Len(logs) \in Nat
  BY DEF Window, Sorted
<1> HIDE DEF S
<1>4. Max(S) \in S /\ \A x \in S : x <= Max(S)
  BY <1>1, <1>2, <1>3, MaxOf
<1> QED
  BY <1>4 DEF S

LEMMA UntilIs ==
  ASSUME NEW n, NEW a, NEW b, NEW logs, Window(n, a, b, logs),
         NEW i \in Points(n, a, b, logs)
  PROVE  \/ /\ Until(i, n, a, b, logs) = b
            /\ \A j \in Within(n, a, b, logs) : j <= i
         \/ \E m \in Within(n, a, b, logs) :
               /\ i < m /\ Until(i, n, a, b, logs) = logs[m].timestamp
               /\ \A j \in Within(n, a, b, logs) : i < j => m <= j
<1> DEFINE later == {j \in Within(n, a, b, logs) : i < j}
<1>0. Within(n, a, b, logs) \subseteq Nat /\ i \in Nat
  BY PointsAre
<1>1. Until(i, n, a, b, logs) = IF later = {} THEN b ELSE logs[Min(later)].timestamp
  BY DEF Until
<1>2. CASE later = {}
  BY <1>0, <1>1, <1>2
<1>3. CASE later # {}
  <2>1. later \in SUBSET Nat
    BY <1>0
  <2> HIDE DEF later
  <2>2. Min(later) \in later /\ \A j \in later : Min(later) <= j
    BY <1>3, <2>1, MinOf
  <2>3. Until(i, n, a, b, logs) = logs[Min(later)].timestamp
    BY <1>1, <1>3
  <2> DEFINE m == Min(later)
  <2> HIDE DEF m
  <2>4. m \in later /\ (\A j \in later : m <= j) /\ Until(i, n, a, b, logs) = logs[m].timestamp
    BY <2>2, <2>3 DEF m
  <2> QED
    BY <2>4 DEF later
<1> QED
  BY <1>2, <1>3

LEMMA PointSpan ==
  ASSUME NEW n, NEW a, NEW b, NEW logs, Window(n, a, b, logs),
         NEW i \in Points(n, a, b, logs)
  PROVE  /\ From(i, a, logs) \in Nat /\ Until(i, n, a, b, logs) \in Nat
         /\ a <= From(i, a, logs) /\ Until(i, n, a, b, logs) <= b
         /\ From(i, a, logs) <= Until(i, n, a, b, logs)
<1>0. Within(n, a, b, logs) \subseteq 1 .. Len(logs)
  BY PointsAre
<1>1. \A j \in Within(n, a, b, logs) : /\ logs[j].timestamp \in Nat
                                       /\ a < logs[j].timestamp /\ logs[j].timestamp < b
  BY DEF Within, Window, Sorted
<1>2. /\ From(i, a, logs) \in Nat
      /\ a <= From(i, a, logs) /\ From(i, a, logs) <= b
  BY <1>1 DEF From, Points, Window
<1>3. CASE Until(i, n, a, b, logs) = b
  BY <1>2, <1>3 DEF Window
<1>4. ASSUME NEW m \in Within(n, a, b, logs), i < m,
             Until(i, n, a, b, logs) = logs[m].timestamp
      PROVE  Until(i, n, a, b, logs) \in Nat /\ Until(i, n, a, b, logs) <= b
             /\ From(i, a, logs) <= Until(i, n, a, b, logs)
  <2>1. CASE i = 0
    BY <1>1, <1>4, <2>1 DEF From, Window
  <2>2. CASE i # 0
    <3>1. i \in DOMAIN logs /\ m \in DOMAIN logs
      BY <1>0, <2>2 DEF Points, Window, Sorted
    <3>2. logs[i].timestamp <= logs[m].timestamp
      BY <1>4, <3>1 DEF Window, Sorted
    <3> QED
      BY <1>1, <1>4, <2>2, <3>2 DEF From, Window
  <2> QED
    BY <2>1, <2>2
<1> QED
  BY <1>2, <1>3, <1>4, UntilIs

(* A point is in force from its time until its end. *)
LEMMA PointInForce ==
  ASSUME NEW n, NEW a, NEW b, NEW logs, Window(n, a, b, logs),
         NEW i \in Points(n, a, b, logs), NEW t \in a .. b - 1
  PROVE  InForcePoint(n, a, b, logs)[t] = i <=>
           From(i, a, logs) <= t /\ t < Until(i, n, a, b, logs)
<1> DEFINE S == Started(n, a, b, logs, t)
<1>0. /\ Points(n, a, b, logs) \subseteq Nat
      /\ Within(n, a, b, logs) \subseteq 1 .. Len(logs)
      /\ t \in Nat /\ t < b
      /\ \A j \in Within(n, a, b, logs) : logs[j].timestamp \in Nat
  BY PointsAre DEF Window, Sorted, Within
<1>1. InForcePoint(n, a, b, logs)[t] = Max(S)
  BY DEF InForcePoint
<1>2. Max(S) \in S /\ \A x \in S : x <= Max(S)
  BY StartedMax
<1>3. \A j \in Within(n, a, b, logs) : j \in S <=> logs[j].timestamp <= t
  BY <1>0 DEF Started, Points, From
<1>4. ASSUME Max(S) = i PROVE From(i, a, logs) <= t /\ t < Until(i, n, a, b, logs)
  <2>1. From(i, a, logs) <= t
    BY <1>2, <1>4 DEF Started
  <2>2. ASSUME NEW m \in Within(n, a, b, logs), i < m PROVE t < logs[m].timestamp
    <3>1. m \notin S
      BY <1>0, <1>2, <1>4, <2>2
    <3> QED
      BY <1>0, <1>3, <3>1
  <2> QED
    BY <1>0, <2>1, <2>2, UntilIs
<1>5. ASSUME From(i, a, logs) <= t, t < Until(i, n, a, b, logs) PROVE Max(S) = i
  <2>1. i \in S
    BY <1>5 DEF Started
  <2>2. ASSUME NEW j \in S, i < j PROVE FALSE
    <3>1. j \in Within(n, a, b, logs)
      BY <1>0, <2>2 DEF Started, Points
    <3>2. logs[j].timestamp <= t
      BY <1>3, <2>2, <3>1
    <3>3. PICK m \in Within(n, a, b, logs) : /\ i < m /\ m <= j
                                             /\ Until(i, n, a, b, logs) = logs[m].timestamp
      BY <1>0, <2>2, <3>1, UntilIs
    <3>4. logs[m].timestamp <= logs[j].timestamp
      <4>1. m \in DOMAIN logs /\ j \in DOMAIN logs /\ m \in Nat /\ j \in Nat
        BY <1>0, <3>1 DEF Window, Sorted
      <4> QED
        BY <1>0, <3>1, <3>3, <4>1 DEF Window, Sorted
    <3> QED
      BY <1>0, <1>5, <3>1, <3>2, <3>3, <3>4
  <2>3. S \in SUBSET Nat
    BY <1>0 DEF Started
  <2>4. \A x \in S : x <= i
    BY <1>0, <2>2, <2>3
  <2> HIDE DEF S
  <2> QED
    BY <2>1, <2>3, <2>4, MaxIs
<1> QED
  BY <1>1, <1>4, <1>5

(* ... and it says what the last entry at or before the tick does. *)
LEMMA StatusInForce ==
  ASSUME NEW n, NEW a, NEW b, NEW logs, Window(n, a, b, logs),
         NEW i \in Points(n, a, b, logs), NEW t \in a .. b - 1,
         InForcePoint(n, a, b, logs)[t] = i
  PROVE  StatusAt(i, n, a, logs) = Told(logs, n, t)
<1> DEFINE S == Started(n, a, b, logs, t)
<1>0. Points(n, a, b, logs) \subseteq Nat /\ t \in Nat /\ a <= t /\ t < b
  BY PointsAre DEF Window
<1>1. i \in S /\ \A x \in S : x <= i
  BY StartedMax DEF InForcePoint
<1>2. ASSUME NEW j \in Before(n, t, logs), j \notin Before(n, a, logs) PROVE j \in S
  BY <1>0, <1>2 DEF Before, Within, Started, Points, From, Window, Sorted
<1>3. Before(n, t, logs) \subseteq 1 .. Len(logs) /\ Before(n, a, logs) \subseteq Before(n, t, logs)
  BY <1>0 DEF Before, Window, Sorted
<1>4. CASE i = 0
  <2>1. \A j \in Before(n, t, logs) : j \in Before(n, a, logs)
    <3> SUFFICES ASSUME NEW j \in Before(n, t, logs), j \notin Before(n, a, logs)
                 PROVE  FALSE
      OBVIOUS
    <3>1. j \in 1 .. Len(logs) /\ j \in S
      BY <1>2, <1>3
    <3>2. j <= 0
      BY <1>1, <1>4, <3>1
    <3> QED
      BY <3>1, <3>2
  <2>2. Before(n, t, logs) = Before(n, a, logs)
    BY <1>3, <2>1
  <2> QED
    BY <1>4, <2>2 DEF StatusAt, Told
<1>5. CASE i # 0
  <2>1. /\ i \in DOMAIN logs /\ logs[i].node = n /\ a < logs[i].timestamp
        /\ logs[i].timestamp <= t
    BY <1>1, <1>5 DEF Started, Points, Within, From
  <2>2. i \in Before(n, t, logs)
    BY <2>1 DEF Before
  <2>3. ASSUME NEW j \in Before(n, t, logs) PROVE j <= i
    <3>1. CASE j \in Before(n, a, logs)
      <4>1. logs[j].timestamp <= a /\ j \in DOMAIN logs
        BY <3>1 DEF Before
      <4>2. ~(i < j)
        BY <2>1, <4>1 DEF Window, Sorted
      <4> QED
        BY <1>0, <1>3, <4>2
    <3>2. CASE j \notin Before(n, a, logs)
      BY <1>1, <1>2, <3>2
    <3> QED
      BY <3>1, <3>2
  <2>4. Max(Before(n, t, logs)) = i
    <3> DEFINE B == Before(n, t, logs)
    <3>1. B \in SUBSET Nat
      BY <1>3
    <3> HIDE DEF B
    <3> QED
      BY <2>2, <2>3, <3>1, MaxIs DEF B
  <2> QED
    BY <1>5, <2>2, <2>4 DEF StatusAt, Told
<1> QED
  BY <1>4, <1>5

(* The shortcut for a node the log does not know takes it for one that     *)
(* draws nothing.                                                          *)
OffDrawsNothing == OFF_W = 0

LEMMA PowerType ==
  ASSUME NEW s
  PROVE  power_for_status(s) \in Nat
BY TestResultsAssumption DEF power_for_status

LEMMA TicksType ==
  ASSUME NEW n, NEW a, NEW b, NEW logs, Window(n, a, b, logs)
  PROVE  /\ IsFiniteSet(a .. b - 1)
         /\ IntOn(TickPower(logs, n, a, b), a .. b - 1)
         /\ SumFunctionOnSet(TickPower(logs, n, a, b), a .. b - 1) \in Int
<1>1. a \in Int /\ b - 1 \in Int
  BY DEF Window
<1>2. IsFiniteSet(a .. b - 1)
  BY <1>1, FS_Interval
<1>3. IntOn(TickPower(logs, n, a, b), a .. b - 1)
  <2> SUFFICES ASSUME NEW t \in a .. b - 1 PROVE TickPower(logs, n, a, b)[t] \in Int
    BY DEF IntOn
  <2>1. TickPower(logs, n, a, b)[t] = power_for_status(Told(logs, n, t))
    BY DEF TickPower
  <2>2. power_for_status(Told(logs, n, t)) \in Nat
    BY PowerType
  <2> QED
    BY <2>1, <2>2
<1> QED
  BY <1>2, <1>3, SumType

PointEnergy(i, n, a, b, logs) ==
    power_for_status(StatusAt(i, n, a, logs))
      * (Until(i, n, a, b, logs) - From(i, a, logs))
PointEnergies(n, a, b, logs) ==
    [i \in Points(n, a, b, logs) |-> PointEnergy(i, n, a, b, logs)]

LEMMA PointEnergyIsTicks ==
  ASSUME NEW n, NEW a, NEW b, NEW logs, Window(n, a, b, logs),
         NEW i \in Points(n, a, b, logs)
  PROVE  PointEnergy(i, n, a, b, logs) =
           SumFunctionOnSet(TickPower(logs, n, a, b),
                            Part(InForcePoint(n, a, b, logs), i, a .. b - 1))
<1> DEFINE f == TickPower(logs, n, a, b)
           w == InForcePoint(n, a, b, logs)
           c == power_for_status(StatusAt(i, n, a, logs))
           lo == From(i, a, logs)
           hi == Until(i, n, a, b, logs)
           P == Part(w, i, a .. b - 1)
<1>1. lo \in Nat /\ hi \in Nat /\ a <= lo /\ hi <= b /\ lo <= hi
  BY PointSpan
<1>2. a \in Nat /\ b \in Nat
  BY DEF Window
<1>3. \A t \in a .. b - 1 : w[t] = i <=> lo <= t /\ t < hi
  BY PointInForce
<1>4. \A t \in a .. b - 1 : w[t] = i => f[t] = c
  <2> SUFFICES ASSUME NEW t \in a .. b - 1, w[t] = i PROVE f[t] = c
    OBVIOUS
  <2>1. StatusAt(i, n, a, logs) = Told(logs, n, t)
    BY StatusInForce
  <2>2. f[t] = power_for_status(Told(logs, n, t))
    BY DEF TickPower
  <2> QED
    BY <2>1, <2>2
<1>5. c \in Int
  <2>1. c \in Nat
    BY PowerType
  <2> QED
    BY <2>1
<1> HIDE DEF f, w, c, lo, hi
<1>6. P = lo .. hi - 1
  BY <1>1, <1>2, <1>3 DEF Part
<1>7. IsFiniteSet(lo .. hi - 1) /\ Cardinality(lo .. hi - 1) = hi - lo
  <2>1. lo \in Int /\ hi - 1 \in Int
    BY <1>1
  <2>2. IsFiniteSet(lo .. hi - 1) /\ Cardinality(lo .. hi - 1) =
          IF lo > hi - 1 THEN 0 ELSE hi - 1 - lo + 1
    BY <2>1, FS_Interval
  <2> QED
    BY <1>1, <2>2
<1>8. \A t \in P : f[t] = c
  BY <1>4 DEF Part
<1> HIDE DEF P
<1>9. SumFunctionOnSet(f, P) = c * Cardinality(P)
  BY <1>5, <1>6, <1>7, <1>8, SumConst
<1>10. SumFunctionOnSet(f, P) = c * (hi - lo)
  BY <1>6, <1>7, <1>9
<1> QED
  BY <1>10 DEF f, w, c, lo, hi, P, PointEnergy

LEMMA PointEnergiesAreTicks ==
  ASSUME NEW n, NEW a, NEW b, NEW logs, Window(n, a, b, logs)
  PROVE  SumFunctionOnSet(PointEnergies(n, a, b, logs), Points(n, a, b, logs)) =
           SumFunctionOnSet(TickPower(logs, n, a, b), a .. b - 1)
<1> DEFINE f == TickPower(logs, n, a, b)
           S == a .. b - 1
           w == InForcePoint(n, a, b, logs)
           I == Points(n, a, b, logs)
           e == PointEnergies(n, a, b, logs)
           p == PartSums(f, w, I, S)
<1>1. IsFiniteSet(S) /\ IntOn(f, S) /\ IsFiniteSet(I)
  BY TicksType, PointsAre
<1>2. \A t \in S : w[t] \in I
  BY StartedMax DEF InForcePoint, Started
<1>3. SumFunctionOnSet(f, S) = SumFunctionOnSet(p, I)
  <2> HIDE DEF f, S, w, I
  <2> QED
    BY <1>1, <1>2, SumParts
<1>4. \A i \in I : e[i] = p[i]
  <2> TAKE i \in I
  <2>1. e[i] = PointEnergy(i, n, a, b, logs)
    BY DEF PointEnergies
  <2>2. p[i] = SumFunctionOnSet(f, Part(w, i, S))
    BY DEF PartSums
  <2> QED
    BY <2>1, <2>2, PointEnergyIsTicks
<1>5. IntOn(p, I)
  <2> SUFFICES ASSUME NEW i \in I PROVE p[i] \in Int
    BY DEF IntOn
  <2>1. IsFiniteSet(Part(w, i, S)) /\ IntOn(f, Part(w, i, S))
    BY <1>1, FS_Subset DEF Part, IntOn
  <2>2. SumFunctionOnSet(f, Part(w, i, S)) \in Int
    BY <2>1, SumType
  <2> QED
    BY <2>2 DEF PartSums
<1> HIDE DEF f, S, w, I, e, p
<1>6. SumFunctionOnSet(e, I) = SumFunctionOnSet(p, I)
  BY <1>1, <1>4, <1>5, SumExt
<1> QED
  BY <1>3, <1>6 DEF f, S, I, e

LEMMA NodeEnergyIsTicks ==
  ASSUME NEW n, NEW a, NEW b, NEW logs, Window(n, a, b, logs), OffDrawsNothing
  PROVE  NodeEnergy(n, a, b, logs) = SumFunctionOnSet(TickPower(logs, n, a, b), a .. b - 1)
<1> DEFINE e == PointEnergies(n, a, b, logs)
           I == Points(n, a, b, logs)
<1>1. NodeEnergy(n, a, b, logs) =
        IF Before(n, a, logs) = {} /\ Within(n, a, b, logs) = {} THEN 0
        ELSE SumFunctionOnSet(e, I)
  <2>1. e = [i \in {0} \cup Within(n, a, b, logs) |->
               power_for_status(StatusAt(i, n, a, logs))
                 * (Until(i, n, a, b, logs) - From(i, a, logs))]
    BY DEF PointEnergies, PointEnergy, Points
  <2>2. DOMAIN e = I
    BY DEF PointEnergies
  <2>3. SumFunction(e) = SumFunctionOnSet(e, I)
    BY <2>2 DEF SumFunction
  <2> HIDE DEF e, I
  <2> QED
    BY <2>1, <2>3, Zenon DEF NodeEnergy
<1>2. SumFunctionOnSet(e, I) = SumFunctionOnSet(TickPower(logs, n, a, b), a .. b - 1)
  BY PointEnergiesAreTicks
<1>3. ASSUME Before(n, a, logs) = {}, Within(n, a, b, logs) = {}
      PROVE  SumFunctionOnSet(TickPower(logs, n, a, b), a .. b - 1) = 0
  <2>1. \A t \in a .. b - 1 : TickPower(logs, n, a, b)[t] = 0
    <3> TAKE t \in a .. b - 1
    <3>1. Before(n, t, logs) = {}
      BY <1>3 DEF Before, Within, Window, Sorted
    <3>2. Told(logs, n, t) = OFF
      BY <3>1 DEF Told, StatusAt
    <3> QED
      BY <3>2 DEF TickPower, power_for_status, OffDrawsNothing, OFF, IDLE, WORKING
  <2> QED
    BY <2>1, TicksType, SumZero
<1> HIDE DEF e, I
<1> QED
  BY <1>1, <1>2, <1>3

-----------------------------------------------------------------------------
(* The cluster in a window: what its nodes drew together, tick by tick. *)

NodeDraws(logs, t) == [n \in Nodes |-> power_for_status(Told(logs, n, t))]
ToldPower(logs, t) == SumFunctionOnSet(NodeDraws(logs, t), Nodes)
ToldPowers(logs, a, b) == [t \in a .. b - 1 |-> ToldPower(logs, t)]

(* The same, as a function of node and tick. *)
Draws(logs, T) == [p \in Nodes \X T |-> power_for_status(Told(logs, p[1], p[2]))]

LEMMA ToldPowerType ==
  ASSUME NEW logs, NEW t
  PROVE  ToldPower(logs, t) \in Int
<1>1. IntOn(NodeDraws(logs, t), Nodes)
  <2> SUFFICES ASSUME NEW n \in Nodes PROVE NodeDraws(logs, t)[n] \in Int
    BY DEF IntOn
  <2>1. power_for_status(Told(logs, n, t)) \in Nat
    BY PowerType
  <2> QED
    BY <2>1 DEF NodeDraws
<1> QED
  BY <1>1, SumType, TestResultsAssumption DEF ToldPower

LEMMA ClusterEnergyIsTicks ==
  ASSUME NEW a \in Nat, NEW b \in Nat, a <= b, NEW logs, Sorted(logs), OffDrawsNothing
  PROVE  compute_cluster_energy_wh(a, b, logs) =
           SumFunctionOnSet(ToldPowers(logs, a, b), a .. b - 1)
<1> DEFINE T == a .. b - 1
           F == Draws(logs, T)
           e == [n \in Nodes |-> NodeEnergy(n, a, b, logs)]
           r == RowSums(F, Nodes, T)
           c == ColSums(F, Nodes, T, Nodes)
<1>0. IsFiniteSet(Nodes)
  BY TestResultsAssumption
<1>1. IsFiniteSet(T)
  <2>1. a \in Int /\ b - 1 \in Int
    OBVIOUS
  <2> QED
    BY <2>1, FS_Interval
<1>2. \A n \in Nodes, t \in T : F[<<n, t>>] = power_for_status(Told(logs, n, t))
  BY DEF Draws
<1>3. \A n \in Nodes, t \in T : F[<<n, t>>] \in Int
  <2> SUFFICES ASSUME NEW n \in Nodes, NEW t \in T PROVE F[<<n, t>>] \in Int
    OBVIOUS
  <2>1. power_for_status(Told(logs, n, t)) \in Nat
    BY PowerType
  <2> QED
    BY <1>2, <2>1
<1> HIDE DEF F, T
<1>4. SumFunctionOnSet(r, Nodes) = SumFunctionOnSet(c, T)
  BY <1>0, <1>1, <1>3, SumSwap
<1>5. \A n \in Nodes : r[n] = e[n] /\ r[n] \in Int
  <2> TAKE n \in Nodes
  <2>1. Row(F, n, T) = TickPower(logs, n, a, b)
    BY <1>2 DEF Row, TickPower, T
  <2>2. Window(n, a, b, logs)
    BY DEF Window
  <2>3. NodeEnergy(n, a, b, logs) = SumFunctionOnSet(TickPower(logs, n, a, b), T)
    BY <2>2, NodeEnergyIsTicks DEF T
  <2>4. r[n] = SumFunctionOnSet(Row(F, n, T), T)
    BY DEF RowSums
  <2>5. SumFunctionOnSet(TickPower(logs, n, a, b), T) \in Int
    BY <2>2, TicksType DEF T
  <2> QED
    BY <2>1, <2>3, <2>4, <2>5
<1>6. SumFunctionOnSet(e, Nodes) = SumFunctionOnSet(r, Nodes)
  <2>1. IntOn(r, Nodes) /\ \A n \in Nodes : e[n] = r[n]
    BY <1>5 DEF IntOn
  <2> HIDE DEF e, r
  <2> QED
    BY <1>0, <2>1, SumExt
<1>7. c = ToldPowers(logs, a, b)
  <2>1. \A t \in T : Col(F, t, Nodes) = NodeDraws(logs, t)
    BY <1>2 DEF Col, NodeDraws
  <2> QED
    BY <2>1 DEF ColSums, ToldPowers, ToldPower, T
<1>8. compute_cluster_energy_wh(a, b, logs) = SumFunctionOnSet(e, Nodes)
  BY Zenon DEF compute_cluster_energy_wh, SumFunction
<1> QED
  BY <1>4, <1>6, <1>7, <1>8 DEF T

LEMMA ToldPowersType ==
  ASSUME NEW a \in Nat, NEW b \in Nat, NEW logs
  PROVE  /\ IsFiniteSet(a .. b - 1)
         /\ IntOn(ToldPowers(logs, a, b), a .. b - 1)
         /\ SumFunctionOnSet(ToldPowers(logs, a, b), a .. b - 1) \in Int
<1>1. a \in Int /\ b - 1 \in Int
  OBVIOUS
<1>2. IsFiniteSet(a .. b - 1)
  BY <1>1, FS_Interval
<1>3. IntOn(ToldPowers(logs, a, b), a .. b - 1)
  BY ToldPowerType DEF IntOn, ToldPowers
<1> QED
  BY <1>2, <1>3, SumType

LEMMA SumUnion ==
  ASSUME NEW f, NEW S, IsFiniteSet(S), NEW T, IsFiniteSet(T), S \cap T = {},
         IntOn(f, S \cup T)
  PROVE  SumFunctionOnSet(f, S \cup T) = SumFunctionOnSet(f, S) + SumFunctionOnSet(f, T)
<1> DEFINE V == S \cup T
           G == {U \in SUBSET T : SumFunctionOnSet(f, S \cup U) =
                     SumFunctionOnSet(f, S) + SumFunctionOnSet(f, U)}
<1>0. IsFiniteSet(V) /\ IntOn(f, S) /\ IntOn(f, T)
  BY FS_Union DEF IntOn
<1>1. SumFunctionOnSet(f, S) \in Int
  BY <1>0, SumType
<1>2. {} \in G
  <2>1. S \cup {} = S
    OBVIOUS
  <2> QED
    BY <1>1, <2>1, SumEmpty
<1>3. \A U \in SUBSET T : \A x \in T \ U : U \in G => U \cup {x} \in G
  <2> SUFFICES ASSUME NEW U \in SUBSET T, NEW x \in T \ U, U \in G
               PROVE  U \cup {x} \in G
    OBVIOUS
  <2> DEFINE W == S \cup U
  <2>1. /\ W \in SUBSET V /\ x \in V \ W
        /\ S \cup (U \cup {x}) = W \cup {x}
    OBVIOUS
  <2>2. SumFunctionOnSet(f, W) = SumFunctionOnSet(f, S) + SumFunctionOnSet(f, U)
    OBVIOUS
  <2> HIDE DEF W, V
  <2>3. SumFunctionOnSet(f, W \cup {x}) = f[x] + SumFunctionOnSet(f, W)
    BY <1>0, <2>1, SumInsert DEF V
  <2>4. SumFunctionOnSet(f, U \cup {x}) = f[x] + SumFunctionOnSet(f, U)
    BY <1>0, SumInsert
  <2>5. SumFunctionOnSet(f, U) \in Int /\ f[x] \in Int
    <3>1. IsFiniteSet(U) /\ IntOn(f, U)
      BY <1>0, FS_Subset DEF IntOn
    <3> QED
      BY <1>0, <3>1, SumType DEF IntOn
  <2>6. f[x] + (SumFunctionOnSet(f, S) + SumFunctionOnSet(f, U))
          = SumFunctionOnSet(f, S) + (f[x] + SumFunctionOnSet(f, U))
    BY <1>1, <2>5
  <2>7. SumFunctionOnSet(f, S \cup (U \cup {x})) =
          SumFunctionOnSet(f, S) + SumFunctionOnSet(f, U \cup {x})
    BY <2>1, <2>2, <2>3, <2>4, <2>6
  <2> QED
    BY <2>7
<1> HIDE DEF G
<1>4. T \in G
  BY <1>2, <1>3, SetClosed
<1> QED
  BY <1>4 DEF G

(* Two windows that meet make one. *)
LEMMA WindowsJoin ==
  ASSUME NEW a \in Nat, NEW m \in Nat, NEW b \in Nat, a <= m, m <= b,
         NEW logs, Sorted(logs), OffDrawsNothing
  PROVE  compute_cluster_energy_wh(a, b, logs) =
           compute_cluster_energy_wh(a, m, logs) + compute_cluster_energy_wh(m, b, logs)
<1> DEFINE S == a .. m - 1
           T == m .. b - 1
           f == ToldPowers(logs, a, b)
           g == ToldPowers(logs, a, m)
           h == ToldPowers(logs, m, b)
<1>1. S \cup T = a .. b - 1 /\ S \cap T = {}
  OBVIOUS
<1>2. IsFiniteSet(S) /\ IsFiniteSet(T) /\ IntOn(f, S \cup T) /\ IntOn(g, S) /\ IntOn(h, T)
  BY <1>1, ToldPowersType
<1>3. (\A t \in S : f[t] = g[t]) /\ (\A t \in T : f[t] = h[t])
  BY DEF ToldPowers
<1>4. /\ compute_cluster_energy_wh(a, b, logs) = SumFunctionOnSet(f, S \cup T)
      /\ compute_cluster_energy_wh(a, m, logs) = SumFunctionOnSet(g, S)
      /\ compute_cluster_energy_wh(m, b, logs) = SumFunctionOnSet(h, T)
  <2>1. a <= b
    OBVIOUS
  <2> QED
    BY <1>1, <2>1, ClusterEnergyIsTicks
<1> HIDE DEF S, T, f, g, h
<1>5. SumFunctionOnSet(f, S) = SumFunctionOnSet(g, S)
  BY <1>2, <1>3, SumExt
<1>6. SumFunctionOnSet(f, T) = SumFunctionOnSet(h, T)
  BY <1>2, <1>3, SumExt
<1>7. SumFunctionOnSet(f, S \cup T) = SumFunctionOnSet(f, S) + SumFunctionOnSet(f, T)
  BY <1>1, <1>2, SumUnion
<1> QED
  BY <1>4, <1>5, <1>6, <1>7

-----------------------------------------------------------------------------
(* The three logs together, and the intervals of the market snapshots. *)

NodeLog == [timestamp : Nat, node : Nodes, status : Statuses]
RequestLog == [timestamp : Nat, here : BOOLEAN, renewable : Renewables]
Snapshot == [timestamp : Nat, hour : 0 .. Hour(MaxTime), carbon : Nat]

InOrder(log) ==
    \A i, j \in DOMAIN log : i < j => log[i].timestamp <= log[j].timestamp

UpToNow(log) == \A i \in DOMAIN log : log[i].timestamp <= now

(* The logs are kept in order, and no request is logged before the first   *)
(* market snapshot.                                                        *)
Books ==
    /\ now \in Nat
    /\ node_logs \in Seq(NodeLog) /\ InOrder(node_logs) /\ UpToNow(node_logs)
    /\ request_logs \in Seq(RequestLog) /\ InOrder(request_logs) /\ UpToNow(request_logs)
    /\ snapshots \in Seq(Snapshot) /\ InOrder(snapshots) /\ UpToNow(snapshots)
    /\ \A j \in DOMAIN request_logs :
           /\ 1 \in DOMAIN snapshots
           /\ snapshots[1].timestamp <= request_logs[j].timestamp

LEMMA BooksAreSorted ==
  ASSUME Books
  PROVE  Sorted(node_logs) /\ Sorted(request_logs) /\ Sorted(snapshots)
<1>1. \A i \in DOMAIN node_logs : node_logs[i].timestamp \in Nat
  <2>1. \A i \in DOMAIN node_logs : node_logs[i] \in NodeLog
    BY DEF Books
  <2> QED
    BY <2>1 DEF NodeLog
<1>2. \A i \in DOMAIN request_logs : request_logs[i].timestamp \in Nat
  <2>1. \A i \in DOMAIN request_logs : request_logs[i] \in RequestLog
    BY DEF Books
  <2> QED
    BY <2>1 DEF RequestLog
<1>3. \A i \in DOMAIN snapshots : snapshots[i].timestamp \in Nat
  <2>1. \A i \in DOMAIN snapshots : snapshots[i] \in Snapshot
    BY DEF Books
  <2> QED
    BY <2>1 DEF Snapshot
<1>4. /\ Len(node_logs) \in Nat /\ DOMAIN node_logs = 1 .. Len(node_logs)
      /\ Len(request_logs) \in Nat /\ DOMAIN request_logs = 1 .. Len(request_logs)
      /\ Len(snapshots) \in Nat /\ DOMAIN snapshots = 1 .. Len(snapshots)
  BY DEF Books
<1> QED
  BY <1>1, <1>2, <1>3, <1>4 DEF Books, Sorted, InOrder

first_at == snapshots[1].timestamp
last_at == ended_at(request_logs)

LEMMA Clock ==
  ASSUME Books, Settled
  PROVE  /\ first_at \in Nat /\ started_at(request_logs) \in Nat /\ last_at \in Nat
         /\ first_at <= started_at(request_logs)
         /\ started_at(request_logs) <= last_at
         /\ \A j \in DOMAIN request_logs : request_logs[j].timestamp <= last_at
         /\ 1 \in DOMAIN snapshots /\ Len(snapshots) \in DOMAIN snapshots
         /\ snapshots[Len(snapshots)].timestamp <= last_at
<1> DEFINE R == Timestamps(request_logs)
<1>1. request_logs # <<>> /\ snapshots[Len(snapshots)].timestamp <= last_at
  BY DEF Settled, last_at
<1>2. 1 \in DOMAIN request_logs
  BY <1>1 DEF Books
<1>3. /\ R \in SUBSET Nat /\ R # {} /\ \A x \in R : x <= now
  BY <1>2, BooksAreSorted DEF Timestamps, Books, Sorted, UpToNow
<1>4. /\ 1 \in DOMAIN snapshots /\ Len(snapshots) \in DOMAIN snapshots
      /\ first_at \in Nat
  <2>1. 1 \in DOMAIN snapshots
    BY <1>2 DEF Books
  <2> QED
    BY <2>1, BooksAreSorted DEF Sorted, first_at
<1>5. \A x \in R : first_at <= x
  BY DEF Timestamps, Books, first_at
<1>6. \A j \in DOMAIN request_logs : request_logs[j].timestamp \in R
  BY DEF Timestamps
<1> HIDE DEF R
<1>7. Min(R) \in R /\ \A x \in R : Min(R) <= x
  BY <1>3, MinOf
<1>8. Max(R) \in R /\ \A x \in R : x <= Max(R)
  BY <1>3, MaxOf DEF Books
<1>9. started_at(request_logs) = Min(R) /\ last_at = Max(R)
  BY DEF started_at, last_at, ended_at, R
<1> QED
  BY <1>1, <1>3, <1>4, <1>5, <1>6, <1>7, <1>8, <1>9

LEMMA InForceIs ==
  ASSUME Books, NEW t \in Nat, 1 \in DOMAIN snapshots, first_at <= t
  PROVE  /\ InForce(t) \in DOMAIN snapshots
         /\ \A i \in DOMAIN snapshots :
               InForce(t) = i <=> /\ snapshots[i].timestamp <= t
                                  /\ i # Len(snapshots) => t < snapshots[i + 1].timestamp
<1> DEFINE S == {i \in DOMAIN snapshots : snapshots[i].timestamp <= t}
<1>0. /\ Len(snapshots) \in Nat /\ DOMAIN snapshots = 1 .. Len(snapshots)
      /\ \A i \in DOMAIN snapshots : snapshots[i].timestamp \in Nat
      /\ \A i, j \in DOMAIN snapshots :
            i < j => snapshots[i].timestamp <= snapshots[j].timestamp
  BY BooksAreSorted DEF Sorted
<1>1. S \in SUBSET Nat /\ S # {} /\ \A x \in S : x <= Len(snapshots)
  BY <1>0 DEF first_at
<1>2. InForce(t) = Max(S)
  BY DEF InForce
<1>3. \A i \in DOMAIN snapshots : i \in S <=> snapshots[i].timestamp <= t
  OBVIOUS
<1>4. S \subseteq DOMAIN snapshots
  OBVIOUS
<1> HIDE DEF S
<1>5. Max(S) \in S /\ \A x \in S : x <= Max(S)
  BY <1>0, <1>1, MaxOf
<1>6. ASSUME NEW i \in DOMAIN snapshots, Max(S) = i, i # Len(snapshots)
      PROVE  t < snapshots[i + 1].timestamp
  <2>1. i + 1 \in DOMAIN snapshots /\ ~(i + 1 <= i)
    BY <1>0, <1>6
  <2>2. i + 1 \notin S
    BY <1>5, <1>6, <2>1
  <2> QED
    BY <1>0, <1>3, <2>1, <2>2
<1>7. ASSUME NEW i \in DOMAIN snapshots, snapshots[i].timestamp <= t,
             i # Len(snapshots) => t < snapshots[i + 1].timestamp
      PROVE  Max(S) = i
  <2>1. i \in S
    BY <1>3, <1>7
  <2>2. ASSUME NEW j \in S, i < j PROVE FALSE
    <3>1. j \in DOMAIN snapshots /\ snapshots[j].timestamp <= t
      BY <1>3, <1>4
    <3>2. i # Len(snapshots) /\ i + 1 \in DOMAIN snapshots /\ (i + 1 < j \/ i + 1 = j)
      BY <1>0, <2>2, <3>1
    <3>3. snapshots[i + 1].timestamp <= snapshots[j].timestamp
      BY <1>0, <3>1, <3>2
    <3> QED
      BY <1>0, <1>7, <3>1, <3>2, <3>3
  <2>3. \A x \in S : x <= i
    BY <1>0, <1>1, <2>2
  <2> QED
    BY <1>1, <2>1, <2>3, MaxIs
<1> QED
  BY <1>2, <1>3, <1>4, <1>5, <1>6, <1>7

Test == first_at .. last_at - 1
SnapshotAt == [t \in Test |-> InForce(t)]
StartOf(i) == snapshots[i].timestamp
EndOf(i) == IntervalEnd(i, snapshots, request_logs)
Cuts == Intervals(snapshots, request_logs)

LEMMA CutsAre ==
  ASSUME Books, Settled
  PROVE  /\ IsFiniteSet(Test) /\ IsFiniteSet(Cuts) /\ Cuts \subseteq DOMAIN snapshots
         /\ \A i \in Cuts : /\ StartOf(i) \in Nat /\ EndOf(i) \in Nat
                            /\ first_at <= StartOf(i) /\ StartOf(i) < EndOf(i)
                            /\ EndOf(i) <= last_at
<1>0. /\ Len(snapshots) \in Nat /\ DOMAIN snapshots = 1 .. Len(snapshots)
      /\ \A i \in DOMAIN snapshots : snapshots[i].timestamp \in Nat
      /\ \A i, j \in DOMAIN snapshots :
            i < j => snapshots[i].timestamp <= snapshots[j].timestamp
  BY BooksAreSorted DEF Sorted
<1>1. first_at \in Int /\ last_at - 1 \in Int /\ last_at \in Nat
  BY Clock
<1>2. IsFiniteSet(Test)
  BY <1>1, FS_Interval DEF Test
<1>3. IsFiniteSet(1 .. Len(snapshots))
  BY <1>0, FS_Interval
<1>4. Cuts \subseteq DOMAIN snapshots
  BY DEF Cuts, Intervals
<1>5. IsFiniteSet(Cuts)
  BY <1>0, <1>3, <1>4, FS_Subset
<1>6. ASSUME NEW i \in Cuts
      PROVE  /\ StartOf(i) \in Nat /\ EndOf(i) \in Nat
             /\ first_at <= StartOf(i) /\ StartOf(i) < EndOf(i)
             /\ EndOf(i) <= last_at
  <2>1. StartOf(i) \in Nat /\ StartOf(i) < EndOf(i)
    BY <1>0, <1>4 DEF StartOf, EndOf, Cuts, Intervals
  <2>2. first_at <= StartOf(i)
    <3>1. 1 \in DOMAIN snapshots /\ i \in DOMAIN snapshots /\ (i = 1 \/ 1 < i)
      BY <1>0, <1>4
    <3> QED
      BY <1>0, <3>1 DEF first_at, StartOf
  <2>3. EndOf(i) \in Nat /\ EndOf(i) <= last_at
    <3>1. CASE i = Len(snapshots)
      BY <1>1, <3>1 DEF EndOf, IntervalEnd, last_at
    <3>2. CASE i # Len(snapshots)
      <4>1. /\ i + 1 \in DOMAIN snapshots /\ Len(snapshots) \in DOMAIN snapshots
            /\ (i + 1 = Len(snapshots) \/ i + 1 < Len(snapshots))
        BY <1>0, <1>4, <3>2
      <4>2. snapshots[i + 1].timestamp <= snapshots[Len(snapshots)].timestamp
        BY <1>0, <4>1
      <4>3. snapshots[Len(snapshots)].timestamp <= last_at
        BY Clock
      <4>4. EndOf(i) = snapshots[i + 1].timestamp
        BY <3>2 DEF EndOf, IntervalEnd
      <4> QED
        BY <1>0, <1>1, <4>1, <4>2, <4>3, <4>4
    <3> QED
      BY <3>1, <3>2
  <2> QED
    BY <2>1, <2>2, <2>3
<1> QED
  BY <1>2, <1>4, <1>5, <1>6

(* Each tick of the test is in the interval of the snapshot in force, and  *)
(* in no other.                                                            *)
LEMMA CutsCover ==
  ASSUME Books, Settled
  PROVE  /\ \A t \in Test : SnapshotAt[t] \in Cuts
         /\ \A i \in Cuts : Part(SnapshotAt, i, Test) = StartOf(i) .. EndOf(i) - 1
<1>0. /\ Len(snapshots) \in Nat /\ DOMAIN snapshots = 1 .. Len(snapshots)
      /\ \A i \in DOMAIN snapshots : snapshots[i].timestamp \in Nat
  BY BooksAreSorted DEF Sorted
<1>1. first_at \in Nat /\ last_at \in Nat /\ 1 \in DOMAIN snapshots
  BY Clock
<1>2. \A t \in Test : t \in Nat /\ first_at <= t /\ t < last_at
  BY <1>1 DEF Test
<1>3. ASSUME NEW t \in Test, NEW i \in DOMAIN snapshots
      PROVE  SnapshotAt[t] = i <=> StartOf(i) <= t /\ t < EndOf(i)
  <2>1. SnapshotAt[t] = InForce(t)
    BY DEF SnapshotAt
  <2>2. InForce(t) = i <=> /\ snapshots[i].timestamp <= t
                           /\ i # Len(snapshots) => t < snapshots[i + 1].timestamp
    BY <1>1, <1>2, InForceIs
  <2> QED
    BY <1>2, <2>1, <2>2 DEF StartOf, EndOf, IntervalEnd, last_at
<1>4. ASSUME NEW t \in Test PROVE SnapshotAt[t] \in Cuts
  <2>1. SnapshotAt[t] \in DOMAIN snapshots
    BY <1>1, <1>2, InForceIs DEF SnapshotAt
  <2> DEFINE i == SnapshotAt[t]
  <2>2. StartOf(i) <= t /\ t < EndOf(i) /\ StartOf(i) \in Nat
    BY <1>0, <1>3, <2>1 DEF StartOf
  <2>3. EndOf(i) \in Nat
    <3> HIDE DEF i
    <3>1. i \in DOMAIN snapshots
      BY <2>1 DEF i
    <3> QED
      BY <1>0, <1>1, <3>1 DEF EndOf, IntervalEnd, last_at
  <2>4. StartOf(i) < EndOf(i)
    BY <1>2, <2>2, <2>3
  <2> QED
    BY <2>1, <2>4 DEF Cuts, Intervals, StartOf, EndOf
<1>5. ASSUME NEW i \in Cuts
      PROVE  Part(SnapshotAt, i, Test) = StartOf(i) .. EndOf(i) - 1
  <2>1. /\ i \in DOMAIN snapshots
        /\ StartOf(i) \in Nat /\ EndOf(i) \in Nat
        /\ first_at <= StartOf(i) /\ EndOf(i) <= last_at
    BY CutsAre
  <2>2. \A t \in Test : SnapshotAt[t] = i <=> StartOf(i) <= t /\ t < EndOf(i)
    BY <1>3, <2>1
  <2>3. \A t \in StartOf(i) .. EndOf(i) - 1 : t \in Test
    BY <1>1, <2>1 DEF Test
  <2>4. \A t \in Test : (StartOf(i) <= t /\ t < EndOf(i)) <=> t \in StartOf(i) .. EndOf(i) - 1
    BY <1>2, <2>1
  <2> QED
    BY <2>2, <2>3, <2>4 DEF Part
<1> QED
  BY <1>4, <1>5

(* What is summed over the test may be summed interval by interval. *)
Ticks(i) == StartOf(i) .. EndOf(i) - 1

LEMMA CutSums ==
  ASSUME Books, Settled, NEW f, IntOn(f, Test), NEW e,
         \A i \in Cuts : e[i] = SumFunctionOnSet(f, Ticks(i))
  PROVE  IntOn(e, Cuts) /\ SumFunctionOnSet(e, Cuts) = SumFunctionOnSet(f, Test)
<1> DEFINE p == PartSums(f, SnapshotAt, Cuts, Test)
<1>1. IsFiniteSet(Test) /\ IsFiniteSet(Cuts)
  BY CutsAre
<1>2. \A i \in Cuts : e[i] = p[i]
  BY CutsCover DEF PartSums, Ticks
<1>3. IntOn(p, Cuts)
  <2> SUFFICES ASSUME NEW i \in Cuts PROVE p[i] \in Int
    BY DEF IntOn
  <2>1. Part(SnapshotAt, i, Test) \in SUBSET Test
    BY DEF Part
  <2>2. IsFiniteSet(Part(SnapshotAt, i, Test)) /\ IntOn(f, Part(SnapshotAt, i, Test))
    BY <1>1, <2>1, FS_Subset DEF IntOn
  <2>3. SumFunctionOnSet(f, Part(SnapshotAt, i, Test)) \in Int
    BY <2>2, SumType
  <2> QED
    BY <2>3 DEF PartSums
<1>4. SumFunctionOnSet(f, Test) = SumFunctionOnSet(p, Cuts)
  BY <1>1, CutsCover, SumParts
<1> HIDE DEF p
<1>5. SumFunctionOnSet(e, Cuts) = SumFunctionOnSet(p, Cuts)
  BY <1>1, <1>2, <1>3, SumExt
<1>6. IntOn(e, Cuts)
  BY <1>2, <1>3 DEF IntOn
<1> QED
  BY <1>4, <1>5, <1>6

LEMMA TicksAre ==
  ASSUME Books, Settled, NEW i \in Cuts
  PROVE  /\ IsFiniteSet(Ticks(i)) /\ Ticks(i) \subseteq Test
         /\ Cardinality(Ticks(i)) = EndOf(i) - StartOf(i)
         /\ \A t \in Ticks(i) : InForce(t) = i
<1>1. /\ StartOf(i) \in Nat /\ EndOf(i) \in Nat /\ StartOf(i) < EndOf(i)
  BY CutsAre
<1>2. StartOf(i) \in Int /\ EndOf(i) - 1 \in Int
  BY <1>1
<1>3. IsFiniteSet(Ticks(i)) /\ Cardinality(Ticks(i)) =
        IF StartOf(i) > EndOf(i) - 1 THEN 0 ELSE EndOf(i) - 1 - StartOf(i) + 1
  BY <1>2, FS_Interval DEF Ticks
<1>4. Cardinality(Ticks(i)) = EndOf(i) - StartOf(i)
  BY <1>1, <1>3
<1>5. Part(SnapshotAt, i, Test) = Ticks(i)
  BY CutsCover DEF Ticks
<1> QED
  BY <1>3, <1>4, <1>5 DEF Part, SnapshotAt

EnergyOf(i) == compute_cluster_energy_wh(StartOf(i), EndOf(i), node_logs)
BaseOf(i) == BASE_LOAD_W * (EndOf(i) - StartOf(i))

LEMMA EnergyOfIs ==
  ASSUME Books, Settled, OffDrawsNothing, NEW i \in Cuts
  PROVE  /\ EnergyOf(i) = SumFunctionOnSet(ToldPowers(node_logs, first_at, last_at), Ticks(i))
         /\ EnergyOf(i) \in Int /\ BaseOf(i) \in Int
<1> DEFINE f == ToldPowers(node_logs, first_at, last_at)
           g == ToldPowers(node_logs, StartOf(i), EndOf(i))
<1>1. /\ StartOf(i) \in Nat /\ EndOf(i) \in Nat /\ StartOf(i) <= EndOf(i)
  BY CutsAre
<1>2. EnergyOf(i) = SumFunctionOnSet(g, Ticks(i))
  BY <1>1, BooksAreSorted, ClusterEnergyIsTicks DEF EnergyOf, Ticks
<1>3. IntOn(g, Ticks(i)) /\ IsFiniteSet(Ticks(i))
  BY <1>1, ToldPowersType DEF Ticks
<1>4. \A t \in Ticks(i) : f[t] = g[t]
  BY TicksAre DEF ToldPowers, Ticks, Test
<1> HIDE DEF f, g
<1>5. SumFunctionOnSet(f, Ticks(i)) = SumFunctionOnSet(g, Ticks(i))
  BY <1>3, <1>4, SumExt
<1>6. SumFunctionOnSet(g, Ticks(i)) \in Int
  BY <1>3, SumType
<1>7. BaseOf(i) \in Int
  <2> DEFINE d == EndOf(i) - StartOf(i)
  <2>1. d \in Int /\ BASE_LOAD_W \in Int
    BY <1>1, TestResultsAssumption
  <2> HIDE DEF d
  <2>2. BASE_LOAD_W * d \in Int
    BY <2>1
  <2> QED
    BY <2>2 DEF BaseOf, d
<1> QED
  BY <1>2, <1>5, <1>6, <1>7 DEF f

LEMMA IntervalEnergyIs ==
  ASSUME NEW i
  PROVE  IntervalEnergy(i, node_logs, snapshots, request_logs) = EnergyOf(i) + BaseOf(i)
BY Zenon DEF IntervalEnergy, EnergyOf, BaseOf, StartOf, EndOf

LEMMA BooksShowTheMiss ==
  ASSUME Books, OffDrawsNothing
  PROVE  DashboardMissesTheStart
<1> SUFFICES ASSUME Settled
             PROVE  cluster_energy_wh(node_logs, snapshots, request_logs)
                      + compute_cluster_energy_wh(snapshots[1].timestamp,
                                                  started_at(request_logs), node_logs)
                    = SumFunction([i \in Intervals(snapshots, request_logs) |->
                          IntervalEnergy(i, node_logs, snapshots, request_logs)])
  BY DEF DashboardMissesTheStart
<1> DEFINE e == [i \in Cuts |-> EnergyOf(i)]
           l == [i \in Cuts |-> BaseOf(i)]
           ie == [i \in Cuts |-> IntervalEnergy(i, node_logs, snapshots, request_logs)]
           start == started_at(request_logs)
           Energy(a, b) == compute_cluster_energy_wh(a, b, node_logs)
<1>1. /\ first_at \in Nat /\ start \in Nat /\ last_at \in Nat
      /\ first_at <= start /\ start <= last_at /\ first_at <= last_at
  BY Clock
<1>2. IsFiniteSet(Cuts) /\ IntOn(e, Cuts) /\ IntOn(l, Cuts)
  BY CutsAre, EnergyOfIs DEF IntOn
<1>3. \A i \in Cuts : ie[i] = e[i] + l[i]
  BY IntervalEnergyIs
<1>4. SumFunctionOnSet(e, Cuts) = Energy(first_at, last_at)
  <2> DEFINE f == ToldPowers(node_logs, first_at, last_at)
  <2>1. IntOn(f, Test)
    BY <1>1, ToldPowersType DEF Test
  <2>2. \A i \in Cuts : e[i] = SumFunctionOnSet(f, Ticks(i))
    BY EnergyOfIs
  <2>3. Energy(first_at, last_at) = SumFunctionOnSet(f, Test)
    BY <1>1, BooksAreSorted, ClusterEnergyIsTicks DEF Test
  <2> HIDE DEF e, f
  <2> QED
    BY <2>1, <2>2, <2>3, CutSums
<1>5. Energy(first_at, last_at) = Energy(first_at, start) + Energy(start, last_at)
  BY <1>1, BooksAreSorted, WindowsJoin
<1>6. Energy(first_at, start) \in Int /\ Energy(start, last_at) \in Int
  BY <1>1, BooksAreSorted, ClusterEnergyIsTicks, ToldPowersType
<1>7. cluster_energy_wh(node_logs, snapshots, request_logs) =
        Energy(start, last_at) + SumFunctionOnSet(l, Cuts)
  <2>1. SumFunction(l) = SumFunctionOnSet(l, Cuts)
    BY DEF SumFunction
  <2>2. l = [i \in Intervals(snapshots, request_logs) |->
               BASE_LOAD_W * (IntervalEnd(i, snapshots, request_logs)
                                - snapshots[i].timestamp)]
    BY DEF Cuts, BaseOf, StartOf, EndOf
  <2> HIDE DEF l
  <2> QED
    BY <2>1, <2>2, Zenon DEF cluster_energy_wh, last_at
<1>8. SumFunctionOnSet(l, Cuts) \in Int
  BY <1>2, SumType
<1>9. SumFunction([i \in Intervals(snapshots, request_logs) |->
                      IntervalEnergy(i, node_logs, snapshots, request_logs)])
        = SumFunctionOnSet(ie, Cuts)
  BY Zenon DEF SumFunction, Cuts
<1> HIDE DEF e, l, ie, Energy, start
<1>10. SumFunctionOnSet(ie, Cuts) = SumFunctionOnSet(e, Cuts) + SumFunctionOnSet(l, Cuts)
  BY <1>2, <1>3, SumPlus
<1>11. Energy(start, last_at) + SumFunctionOnSet(l, Cuts) + Energy(first_at, start)
         = SumFunctionOnSet(ie, Cuts)
  BY <1>4, <1>5, <1>6, <1>8, <1>10
<1> QED
  BY <1>7, <1>9, <1>11 DEF Energy, start, first_at

-----------------------------------------------------------------------------
(* The carbon of the test *)

LEMMA LoggedPowerIs ==
  ASSUME NEW t
  PROVE  LoggedPower(t) = ToldPower(node_logs, t)
<1>1. \A n \in Nodes : LoggedStatus(n, t) = Told(node_logs, n, t)
  BY DEF LoggedStatus, Told, StatusAt, Before
<1> DEFINE told == [n \in Nodes |-> LoggedStatus(n, t)]
           e == [n \in Nodes |-> power_for_status(told[n])]
<1>2. e = NodeDraws(node_logs, t)
  BY <1>1 DEF NodeDraws
<1>3. SumFunction(e) = SumFunctionOnSet(e, Nodes)
  BY DEF SumFunction
<1>4. LoggedPower(t) = SumFunction(e)
  BY Zenon DEF LoggedPower, Power
<1> QED
  BY <1>2, <1>3, <1>4 DEF ToldPower

(* The requests of an interval are those the snapshot was in force for. *)
LEMMA RequestsOfSnapshot ==
  ASSUME Books, Settled, NEW i \in Cuts
  PROVE  GridPercent(i) =
           100 - AvgRenewable(request_logs, RequestsIn(i, snapshots, request_logs))
<1> DEFINE S == {j \in DOMAIN request_logs :
                    request_logs[j].here /\ InForce(request_logs[j].timestamp) = i}
           R == RequestsIn(i, snapshots, request_logs)
<1>1. i \in DOMAIN snapshots /\ StartOf(i) \in Nat /\ EndOf(i) \in Nat /\ StartOf(i) < EndOf(i)
  BY CutsAre
<1>2. ASSUME NEW j \in DOMAIN request_logs PROVE j \in S <=> j \in R
  <2> DEFINE t == request_logs[j].timestamp
  <2>1. t \in Nat /\ first_at <= t /\ 1 \in DOMAIN snapshots
    BY BooksAreSorted DEF Books, Sorted, first_at
  <2>2. t <= last_at
    BY Clock
  <2>3. last_at \in Nat
    BY Clock
  <2>4. InForce(t) = i <=> /\ StartOf(i) <= t
                           /\ i # Len(snapshots) => t < snapshots[i + 1].timestamp
    BY <1>1, <2>1, InForceIs DEF StartOf
  <2>5. i = Len(snapshots) => EndOf(i) = last_at
    BY DEF EndOf, IntervalEnd, last_at
  <2>6. i # Len(snapshots) => EndOf(i) = snapshots[i + 1].timestamp
    BY DEF EndOf, IntervalEnd
  <2>7. j \in R <=> /\ request_logs[j].here
                    /\ \/ StartOf(i) <= t /\ t < EndOf(i)
                       \/ i = Len(snapshots) /\ t = EndOf(i)
    BY DEF RequestsIn, StartOf, EndOf
  <2>8. j \in S <=> request_logs[j].here /\ InForce(t) = i
    OBVIOUS
  <2> HIDE DEF t, S, R
  <2>9. InForce(t) = i <=> \/ StartOf(i) <= t /\ t < EndOf(i)
                           \/ i = Len(snapshots) /\ t = EndOf(i)
    BY <1>1, <2>1, <2>2, <2>3, <2>4, <2>5, <2>6
  <2> QED
    BY <2>7, <2>8, <2>9
<1>3. R \subseteq DOMAIN request_logs
  BY DEF RequestsIn
<1>4. S = R
  BY <1>2, <1>3
<1> HIDE DEF R
<1> QED
  BY <1>4 DEF GridPercent, R

LEMMA GridPercentType ==
  ASSUME Books, Settled, NEW i \in Cuts
  PROVE  GridPercent(i) \in Int /\ snapshots[i].carbon \in Nat
<1> DEFINE S == RequestsIn(i, snapshots, request_logs)
           e == [j \in S |-> request_logs[j].renewable]
<1>1. S \subseteq DOMAIN request_logs /\ DOMAIN request_logs = 1 .. Len(request_logs)
      /\ Len(request_logs) \in Nat
  BY BooksAreSorted DEF RequestsIn, Sorted
<1>2. \A j \in DOMAIN request_logs : request_logs[j] \in RequestLog
  BY DEF Books
<1>3. \A j \in S : request_logs[j].renewable \in Nat
  <2>1. Renewables \subseteq Nat
    BY AccountsAssumption
  <2>2. \A j \in S : request_logs[j] \in RequestLog
    BY <1>1, <1>2
  <2> QED
    BY <2>1, <2>2 DEF RequestLog
<1>4. snapshots[i].carbon \in Nat
  <2>1. i \in DOMAIN snapshots
    BY CutsAre
  <2>2. snapshots[i] \in Snapshot
    BY <2>1 DEF Books
  <2> QED
    BY <2>2 DEF Snapshot
<1>5. IsFiniteSet(S)
  <2>1. IsFiniteSet(1 .. Len(request_logs))
    BY <1>1, FS_Interval
  <2> QED
    BY <1>1, <2>1, FS_Subset
<1>6. SumFunction(e) \in Int
  <2>1. DOMAIN e = S /\ IntOn(e, S)
    BY <1>3 DEF IntOn
  <2>2. SumFunction(e) = SumFunctionOnSet(e, S)
    BY <2>1 DEF SumFunction
  <2> HIDE DEF e, S
  <2>3. SumFunctionOnSet(e, S) \in Int
    BY <1>5, <2>1, SumType
  <2> QED
    BY <2>2, <2>3
<1>7. AvgRenewable(request_logs, S) \in Int
  <2>1. CASE S = {}
    BY <2>1 DEF AvgRenewable
  <2>2. CASE S # {}
    <3>1. Cardinality(S) \in Nat /\ Cardinality(S) # 0
      BY <1>5, <2>2, FS_CardinalityType, FS_EmptySet
    <3> DEFINE s == SumFunction(e)
               k == Cardinality(S)
    <3>2. s \in Int /\ k \in Nat /\ k > 0
      BY <1>6, <3>1
    <3>3. AvgRenewable(request_logs, S) = s \div k
      BY <2>2, Zenon DEF AvgRenewable
    <3> HIDE DEF s, k
    <3>4. s \div k \in Int
      BY <3>2
    <3> QED
      BY <3>3, <3>4
  <2> QED
    BY <2>1, <2>2
<1>8. GridPercent(i) = 100 - AvgRenewable(request_logs, S)
  BY RequestsOfSnapshot
<1> HIDE DEF S
<1> QED
  BY <1>4, <1>7, <1>8

CarbonTick(t) ==
    (LoggedPower(t) + BASE_LOAD_W) * snapshots[InForce(t)].carbon * GridPercent(InForce(t))
CarbonTicks == [t \in Test |-> CarbonTick(t)]

CarbonOfCut(i) == (EnergyOf(i) + BaseOf(i)) * snapshots[i].carbon * GridPercent(i)

LEMMA CarbonTicksType ==
  ASSUME Books, Settled
  PROVE  IntOn(CarbonTicks, Test)
<1> SUFFICES ASSUME NEW t \in Test PROVE CarbonTick(t) \in Int
  BY DEF IntOn, CarbonTicks
<1>1. InForce(t) \in Cuts
  BY CutsCover DEF SnapshotAt
<1>2. GridPercent(InForce(t)) \in Int /\ snapshots[InForce(t)].carbon \in Int
  BY <1>1, GridPercentType
<1>3. LoggedPower(t) \in Int /\ BASE_LOAD_W \in Int
  BY LoggedPowerIs, ToldPowerType, TestResultsAssumption
<1> DEFINE p == LoggedPower(t) + BASE_LOAD_W
           c == snapshots[InForce(t)].carbon
           g == GridPercent(InForce(t))
<1>4. p \in Int /\ c \in Int /\ g \in Int
  BY <1>2, <1>3
<1> HIDE DEF p, c, g
<1>5. p * c \in Int
  BY <1>4
<1> DEFINE pc == p * c
<1> HIDE DEF pc
<1>6. pc * g \in Int
  BY <1>4, <1>5 DEF pc
<1> QED
  BY <1>6 DEF p, c, g, pc, CarbonTick

LEMMA CarbonOfCutIs ==
  ASSUME Books, Settled, OffDrawsNothing, NEW i \in Cuts
  PROVE  CarbonOfCut(i) = SumFunctionOnSet(CarbonTicks, Ticks(i))
<1> DEFINE T == Ticks(i)
           f == ToldPowers(node_logs, first_at, last_at)
           b == [t \in T |-> BASE_LOAD_W]
           u == [t \in T |-> f[t] + BASE_LOAD_W]
           c == snapshots[i].carbon
           v == [t \in T |-> u[t] * c]
           g == GridPercent(i)
           x == [t \in T |-> v[t] * g]
<1>1. IsFiniteSet(T) /\ T \subseteq Test /\ \A t \in T : InForce(t) = i
  BY TicksAre
<1>2. first_at \in Nat /\ last_at \in Nat
  BY Clock
<1>3. IntOn(f, T)
  BY <1>1, <1>2, ToldPowersType DEF IntOn, Test
<1>4. c \in Int /\ g \in Int /\ BASE_LOAD_W \in Int
  BY GridPercentType, TestResultsAssumption
<1>5. SumFunctionOnSet(b, T) = BaseOf(i)
  <2>1. SumFunctionOnSet(b, T) = BASE_LOAD_W * Cardinality(T)
    <3>1. \A t \in T : b[t] = BASE_LOAD_W
      OBVIOUS
    <3> HIDE DEF b, T
    <3> QED
      BY <1>1, <1>4, <3>1, SumConst
  <2>2. Cardinality(T) = EndOf(i) - StartOf(i)
    BY TicksAre
  <2> QED
    BY <2>1, <2>2 DEF BaseOf
<1>6. SumFunctionOnSet(f, T) = EnergyOf(i)
  BY EnergyOfIs
<1>7. IntOn(b, T) /\ IntOn(u, T)
  BY <1>3, <1>4 DEF IntOn
<1>8. SumFunctionOnSet(u, T) = SumFunctionOnSet(f, T) + SumFunctionOnSet(b, T)
  <2>1. \A t \in T : u[t] = f[t] + b[t]
    OBVIOUS
  <2> HIDE DEF u, f, b, T
  <2> QED
    BY <1>1, <1>3, <1>7, <2>1, SumPlus
<1>9. \A t \in T : CarbonTicks[t] = x[t]
  <2> TAKE t \in T
  <2>1. t \in Test /\ InForce(t) = i
    BY <1>1
  <2>2. CarbonTicks[t] = (ToldPower(node_logs, t) + BASE_LOAD_W) * c * g
    BY <2>1, LoggedPowerIs DEF CarbonTicks, CarbonTick
  <2>3. f[t] = ToldPower(node_logs, t)
    BY <2>1 DEF ToldPowers, Test
  <2>4. x[t] = (f[t] + BASE_LOAD_W) * c * g
    OBVIOUS
  <2> HIDE DEF f, x, c, g
  <2> QED
    BY <2>2, <2>3, <2>4
<1>10. \A t \in T : v[t] = u[t] * c
  OBVIOUS
<1>11. \A t \in T : x[t] = v[t] * g
  OBVIOUS
<1> HIDE DEF T, f, b, u, c, g
<1>12. SumFunctionOnSet(v, T) = SumFunctionOnSet(u, T) * c
  BY <1>1, <1>4, <1>7, <1>10, SumTimes
<1>13. IntOn(v, T)
  <2> SUFFICES ASSUME NEW t \in T PROVE v[t] \in Int
    BY DEF IntOn
  <2> DEFINE y == u[t]
  <2>1. y \in Int
    BY <1>7 DEF IntOn
  <2> HIDE DEF y
  <2>2. y * c \in Int
    BY <1>4, <2>1
  <2> QED
    BY <1>10, <2>2 DEF y
<1> HIDE DEF v
<1>14. SumFunctionOnSet(x, T) = SumFunctionOnSet(v, T) * g
  BY <1>1, <1>4, <1>11, <1>13, SumTimes
<1>15. IntOn(CarbonTicks, T)
  BY <1>1, CarbonTicksType DEF IntOn
<1> HIDE DEF x
<1>16. SumFunctionOnSet(CarbonTicks, T) = SumFunctionOnSet(x, T)
  <2>1. \A t \in T : x[t] = CarbonTicks[t]
    BY <1>9
  <2>2. SumFunctionOnSet(x, T) = SumFunctionOnSet(CarbonTicks, T)
    BY <1>1, <1>15, <2>1, SumExt
  <2> QED
    BY <2>2
<1>17. SumFunctionOnSet(CarbonTicks, T) = (EnergyOf(i) + BaseOf(i)) * c * g
  BY <1>5, <1>6, <1>8, <1>12, <1>14, <1>16
<1> QED
  BY <1>17 DEF CarbonOfCut, T, c, g

LEMMA BooksGiveTheIntegral ==
  ASSUME Books, OffDrawsNothing
  PROVE  CarbonIsTheIntegral
<1> SUFFICES ASSUME Settled
             PROVE  total_gco2_g(node_logs, snapshots, request_logs) =
                      SumFunctionOnSet(CarbonTicks, Test)
  <2>1. CarbonTicks =
          [t \in snapshots[1].timestamp .. ended_at(request_logs) - 1 |->
              (LoggedPower(t) + BASE_LOAD_W) * snapshots[InForce(t)].carbon
                * GridPercent(InForce(t))]
    BY DEF CarbonTicks, CarbonTick, Test, first_at, last_at
  <2>2. SumFunction(CarbonTicks) = SumFunctionOnSet(CarbonTicks, Test)
    BY DEF SumFunction, CarbonTicks
  <2> QED
    BY <2>1, <2>2, Zenon DEF CarbonIsTheIntegral
<1> DEFINE e == [i \in Cuts |->
                    IntervalEnergy(i, node_logs, snapshots, request_logs)
                      * snapshots[i].carbon
                      * (100 - AvgRenewable(request_logs,
                                   RequestsIn(i, snapshots, request_logs)))]
<1>1. total_gco2_g(node_logs, snapshots, request_logs) = SumFunctionOnSet(e, Cuts)
  <2>1. SumFunction(e) = SumFunctionOnSet(e, Cuts)
    BY DEF SumFunction
  <2>2. total_gco2_g(node_logs, snapshots, request_logs) = SumFunction(e)
    BY Zenon DEF total_gco2_g, Cuts
  <2> QED
    BY <2>1, <2>2
<1>2. \A i \in Cuts : e[i] = SumFunctionOnSet(CarbonTicks, Ticks(i))
  <2> TAKE i \in Cuts
  <2> DEFINE ie == IntervalEnergy(i, node_logs, snapshots, request_logs)
             g == 100 - AvgRenewable(request_logs, RequestsIn(i, snapshots, request_logs))
  <2>1. e[i] = ie * snapshots[i].carbon * g
    OBVIOUS
  <2>2. ie = EnergyOf(i) + BaseOf(i)
    BY IntervalEnergyIs
  <2>3. g = GridPercent(i)
    BY RequestsOfSnapshot
  <2> HIDE DEF e, ie, g
  <2>4. e[i] = CarbonOfCut(i)
    BY <2>1, <2>2, <2>3 DEF CarbonOfCut
  <2> QED
    BY <2>4, CarbonOfCutIs
<1> HIDE DEF e
<1>3. SumFunctionOnSet(e, Cuts) = SumFunctionOnSet(CarbonTicks, Test)
  BY <1>2, CarbonTicksType, CutSums
<1> QED
  BY <1>1, <1>3

-----------------------------------------------------------------------------
(* What the log tells, and what was: a node is told of as it is, or not at *)
(* all, and from the first request on as it is.                            *)

FaithfulAt(n, s, t, ask, log) ==
    /\ Told(log, n, t) \in {OFF, s}
    /\ ask <= t => Told(log, n, t) = s

Faithful(nw, st, tr, ask, log) ==
    \A n \in Nodes :
        /\ FaithfulAt(n, st[n], nw, ask, log)
        /\ \A t \in 0 .. nw - 1 : FaithfulAt(n, tr[t + 1][n], t, ask, log)

LEMMA Joined ==
  ASSUME NEW S, NEW L \in Seq(S), NEW E \in Seq(S)
  PROVE  /\ Len(L) \in Nat /\ DOMAIN L = 1 .. Len(L)
         /\ Len(E) \in Nat /\ DOMAIN E = 1 .. Len(E)
         /\ DOMAIN (L \o E) = 1 .. Len(L) + Len(E)
         /\ \A i \in DOMAIN L : (L \o E)[i] = L[i]
         /\ \A k \in DOMAIN E : (L \o E)[Len(L) + k] = E[k]
         /\ \A j \in DOMAIN (L \o E) : j \notin DOMAIN L =>
               j - Len(L) \in DOMAIN E /\ (L \o E)[j] = E[j - Len(L)]
<1>1. Len(L) \in Nat /\ DOMAIN L = 1 .. Len(L) /\ Len(E) \in Nat /\ DOMAIN E = 1 .. Len(E)
  OBVIOUS
<1>2. /\ DOMAIN (L \o E) = 1 .. Len(L) + Len(E)
      /\ \A i \in 1 .. Len(L) + Len(E) :
            (L \o E)[i] = IF i <= Len(L) THEN L[i] ELSE E[i - Len(L)]
  BY ConcatProperties
<1> DEFINE J == L \o E
           l == Len(L)
           e == Len(E)
<1> HIDE DEF J, l, e
<1>3. l \in Nat /\ e \in Nat
  BY <1>1 DEF l, e
<1>4. \A i \in 1 .. l + e : J[i] = IF i <= l THEN L[i] ELSE E[i - l]
  BY <1>2 DEF J, l, e
<1>5. \A i \in 1 .. l : J[i] = L[i]
  BY <1>3, <1>4
<1>6. \A k \in 1 .. e : J[l + k] = E[k]
  <2> TAKE k \in 1 .. e
  <2>1. l + k \in 1 .. l + e /\ ~(l + k <= l) /\ (l + k) - l = k
    BY <1>3
  <2> QED
    BY <1>4, <2>1
<1>7. \A j \in 1 .. l + e : j \notin 1 .. l => j - l \in 1 .. e /\ J[j] = E[j - l]
  BY <1>3, <1>4
<1> QED
  BY <1>1, <1>2, <1>5, <1>6, <1>7 DEF J, l, e

(* Later entries change nothing of what was told before. *)
LEMMA ToldBefore ==
  ASSUME NEW L \in Seq(NodeLog), NEW E \in Seq(NodeLog), NEW n, NEW t \in Nat,
         \A k \in DOMAIN E : E[k].node = n => ~(E[k].timestamp <= t)
  PROVE  Told(L \o E, n, t) = Told(L, n, t)
<1> DEFINE J == L \o E
           B == Before(n, t, L)
<1>1. /\ Len(L) \in Nat /\ DOMAIN L = 1 .. Len(L)
      /\ DOMAIN J = 1 .. Len(L) + Len(E) /\ Len(E) \in Nat
      /\ \A i \in DOMAIN L : J[i] = L[i]
      /\ \A j \in DOMAIN J : j \notin DOMAIN L => j - Len(L) \in DOMAIN E /\ J[j] = E[j - Len(L)]
  BY Joined
<1>2. \A j \in DOMAIN J : j \in Before(n, t, J) <=> j \in B
  <2> TAKE j \in DOMAIN J
  <2> HIDE DEF J
  <2>1. CASE j \in DOMAIN L
    BY <1>1, <2>1 DEF Before
  <2>2. CASE j \notin DOMAIN L
    BY <1>1, <2>2 DEF Before
  <2> QED
    BY <2>1, <2>2
<1>3. Before(n, t, J) \subseteq DOMAIN J /\ B \subseteq DOMAIN L
  BY DEF Before
<1>4. DOMAIN L \subseteq DOMAIN J
  BY <1>1
<1> HIDE DEF J
<1>5. Before(n, t, J) = B
  BY <1>2, <1>3, <1>4
<1>6. B # {} => Max(B) \in DOMAIN L
  <2> SUFFICES ASSUME B # {} PROVE Max(B) \in DOMAIN L
    OBVIOUS
  <2>1. B \in SUBSET Nat /\ \A x \in B : x <= Len(L)
    BY <1>1, <1>3
  <2> HIDE DEF B
  <2>2. Max(B) \in B
    BY <1>1, <2>1, MaxOf
  <2> QED
    BY <1>3, <2>2
<1> QED
  BY <1>1, <1>5, <1>6 DEF Told, StatusAt, J

(* The last of them is what is told from then on. *)
LEMMA ToldLast ==
  ASSUME NEW L \in Seq(NodeLog), NEW E \in Seq(NodeLog), NEW n, NEW t \in Nat,
         NEW k \in DOMAIN E, E[k].node = n, E[k].timestamp <= t,
         \A j \in DOMAIN E : k < j => E[j].node # n
  PROVE  Told(L \o E, n, t) = E[k].status
<1> DEFINE J == L \o E
           B == Before(n, t, J)
           m == Len(L) + k
<1>1. /\ Len(L) \in Nat /\ DOMAIN L = 1 .. Len(L)
      /\ DOMAIN J = 1 .. Len(L) + Len(E) /\ Len(E) \in Nat /\ DOMAIN E = 1 .. Len(E)
      /\ \A i \in DOMAIN E : J[Len(L) + i] = E[i]
      /\ \A j \in DOMAIN J : j \notin DOMAIN L => j - Len(L) \in DOMAIN E /\ J[j] = E[j - Len(L)]
  BY Joined
<1>2. k \in Nat /\ k # 0 /\ m \in DOMAIN J /\ J[m] = E[k]
  BY <1>1
<1>3. m \in B
  BY <1>2 DEF Before
<1>4. B \in SUBSET Nat /\ B \subseteq DOMAIN J /\ \A j \in B : J[j].node = n
  BY <1>1 DEF Before
<1>5. ASSUME NEW j \in B, m < j PROVE FALSE
  <2>1. j \in DOMAIN J /\ J[j].node = n /\ j \in Nat
    BY <1>4
  <2>2. j \notin DOMAIN L
    BY <1>1, <1>2, <1>5, <2>1
  <2>3. j - Len(L) \in DOMAIN E /\ J[j] = E[j - Len(L)]
    BY <1>1, <2>1, <2>2
  <2>4. k < j - Len(L)
    BY <1>1, <1>2, <1>5, <2>1
  <2> QED
    BY <2>1, <2>3, <2>4
<1>6. \A j \in B : j <= m
  BY <1>1, <1>2, <1>4, <1>5
<1> HIDE DEF J, B, m
<1>7. Max(B) = m
  BY <1>3, <1>4, <1>6, MaxIs
<1> QED
  BY <1>2, <1>3, <1>7 DEF Told, StatusAt, J, B

(* Entries of this instant, the last of each node saying what it is now,   *)
(* keep the log faithful.                                                  *)
LEMMA FaithfulWrite ==
  ASSUME NEW nw \in Nat, NEW st, NEW st2, NEW tr, NEW ask \in Nat, NEW ask2 \in Nat,
         NEW L \in Seq(NodeLog), NEW E \in Seq(NodeLog),
         Faithful(nw, st, tr, ask, L),
         \A k \in DOMAIN E : E[k].timestamp = nw,
         \A t \in 0 .. nw - 1 : ask2 <= t => ask <= t,
         \A k \in DOMAIN E :
             (\A j \in DOMAIN E : k < j => E[j].node # E[k].node)
               => E[k].status = st2[E[k].node],
         \A n \in Nodes : (\A k \in DOMAIN E : E[k].node # n)
               => st2[n] = st[n] /\ (ask2 <= nw => ask <= nw \/ st[n] = OFF)
  PROVE  Faithful(nw, st2, tr, ask2, L \o E)
<1> SUFFICES ASSUME NEW n \in Nodes
             PROVE  /\ FaithfulAt(n, st2[n], nw, ask2, L \o E)
                    /\ \A t \in 0 .. nw - 1 : FaithfulAt(n, tr[t + 1][n], t, ask2, L \o E)
  BY DEF Faithful
<1>1. /\ FaithfulAt(n, st[n], nw, ask, L)
      /\ \A t \in 0 .. nw - 1 : FaithfulAt(n, tr[t + 1][n], t, ask, L)
  BY DEF Faithful
<1>2. ASSUME NEW t \in 0 .. nw - 1 PROVE FaithfulAt(n, tr[t + 1][n], t, ask2, L \o E)
  <2>1. t \in Nat /\ \A k \in DOMAIN E : ~(E[k].timestamp <= t)
    OBVIOUS
  <2>2. Told(L \o E, n, t) = Told(L, n, t)
    BY <2>1, ToldBefore
  <2>3. ask2 <= t => ask <= t
    OBVIOUS
  <2> QED
    BY <1>1, <2>2, <2>3 DEF FaithfulAt
<1> DEFINE D == {k \in DOMAIN E : E[k].node = n}
<1>3. CASE D = {}
  <2>1. \A k \in DOMAIN E : E[k].node # n
    BY <1>3
  <2>2. Told(L \o E, n, nw) = Told(L, n, nw)
    BY <2>1, ToldBefore
  <2>3. st2[n] = st[n] /\ (ask2 <= nw => ask <= nw \/ st[n] = OFF)
    BY <2>1
  <2>4. FaithfulAt(n, st2[n], nw, ask2, L \o E)
    BY <1>1, <2>2, <2>3 DEF FaithfulAt
  <2> QED
    BY <1>2, <2>4
<1>4. CASE D # {}
  <2>1. D \in SUBSET Nat /\ Len(E) \in Nat /\ \A k \in D : k <= Len(E)
    OBVIOUS
  <2> DEFINE k == Max(D)
  <2>2. k \in D /\ \A j \in D : j <= k
    <3> HIDE DEF D
    <3> QED
      BY <1>4, <2>1, MaxOf
  <2> HIDE DEF k
  <2>3. k \in DOMAIN E /\ E[k].node = n /\ E[k].timestamp = nw /\ k \in Nat
    BY <2>1, <2>2
  <2>4. \A j \in DOMAIN E : k < j => E[j].node # n
    <3> SUFFICES ASSUME NEW j \in DOMAIN E, k < j, E[j].node = n PROVE FALSE
      OBVIOUS
    <3>1. j <= k /\ j \in Nat
      BY <2>1, <2>2
    <3> QED
      BY <2>3, <3>1
  <2>5. E[k].status = st2[n]
    BY <2>3, <2>4
  <2>6. E[k].timestamp <= nw
    BY <2>3
  <2>7. Told(L \o E, n, nw) = E[k].status
    BY <2>3, <2>4, <2>6, ToldLast
  <2>8. FaithfulAt(n, st2[n], nw, ask2, L \o E)
    BY <2>5, <2>7 DEF FaithfulAt
  <2> QED
    BY <1>2, <2>8
<1> QED
  BY <1>3, <1>4

(* A tick that passes without an entry. *)
LEMMA FaithfulTick ==
  ASSUME NEW nw \in Nat, NEW st, NEW tr, NEW tr2, NEW ask \in Nat, NEW L \in Seq(NodeLog),
         Faithful(nw, st, tr, ask, L),
         \A i \in DOMAIN L : L[i].timestamp <= nw,
         ask <= nw + 1 => ask <= nw,
         \A t \in 0 .. nw - 1 : tr2[t + 1] = tr[t + 1], tr2[nw + 1] = st
  PROVE  Faithful(nw + 1, st, tr2, ask, L)
<1> SUFFICES ASSUME NEW n \in Nodes
             PROVE  /\ FaithfulAt(n, st[n], nw + 1, ask, L)
                    /\ \A t \in 0 .. (nw + 1) - 1 : FaithfulAt(n, tr2[t + 1][n], t, ask, L)
  BY DEF Faithful
<1>1. /\ FaithfulAt(n, st[n], nw, ask, L)
      /\ \A t \in 0 .. nw - 1 : FaithfulAt(n, tr[t + 1][n], t, ask, L)
  BY DEF Faithful
<1>2. \A i \in DOMAIN L : L[i].timestamp \in Nat
  <2>1. \A i \in DOMAIN L : L[i] \in NodeLog
    OBVIOUS
  <2> QED
    BY <2>1 DEF NodeLog
<1>3. Before(n, nw + 1, L) = Before(n, nw, L)
  BY <1>2 DEF Before
<1>4. Told(L, n, nw + 1) = Told(L, n, nw)
  BY <1>3 DEF Told, StatusAt
<1>5. FaithfulAt(n, st[n], nw + 1, ask, L)
  BY <1>1, <1>4 DEF FaithfulAt
<1>6. ASSUME NEW t \in 0 .. (nw + 1) - 1 PROVE FaithfulAt(n, tr2[t + 1][n], t, ask, L)
  <2>1. CASE t = nw
    BY <1>1, <2>1
  <2>2. CASE t # nw
    <3>1. t \in 0 .. nw - 1
      BY <2>2
    <3> QED
      BY <1>1, <3>1
  <2> QED
    BY <2>1, <2>2
<1> QED
  BY <1>5, <1>6

(* Every running node is in the list sync_worker_status goes through. *)
LEMMA SetToSeqIs ==
  ASSUME NEW S, IsFiniteSet(S)
  PROVE  /\ SetToSeq(S) \in Seq(S)
         /\ \A x \in S : \E i \in DOMAIN SetToSeq(S) : SetToSeq(S)[i] = x
<1> DEFINE k == Cardinality(S)
           f == SetToSeq(S)
<1>1. k \in Nat /\ ExistsBijection(1 .. k, S)
  BY FS_CardinalityType
<1>2. \E g \in [1 .. k -> S] : IsInjective(g)
  BY <1>1 DEF ExistsBijection, Bijection, Injection
<1>3. f = CHOOSE g \in [1 .. k -> S] : IsInjective(g)
  BY DEF SetToSeq
<1> HIDE DEF f
<1>4. f \in [1 .. k -> S] /\ IsInjective(f)
  BY <1>2, <1>3
<1>5. f \in Injection(1 .. k, S)
  BY <1>4 DEF Injection
<1>6. Cardinality(1 .. k) = k
  BY <1>1, FS_CountingElements, FS_Interval
<1> HIDE DEF k
<1>7. f \in Surjection(1 .. k, S)
  BY <1>5, <1>6, FS_Injection DEF k
<1>8. f \in Seq(S)
  BY <1>1, <1>4
<1> QED
  BY <1>4, <1>7, <1>8 DEF Surjection, f

-----------------------------------------------------------------------------
(* The inductive invariant: the logs are kept in order, nothing is logged  *)
(* for a request before the first market snapshot, and the node log has    *)
(* told of the nodes what they were, tick by tick.                         *)

Basics ==
    /\ now \in 0 .. MaxTime
    /\ status \in [Nodes -> Statuses]
    /\ truth \in Seq([Nodes -> Statuses]) /\ Len(truth) = now
    /\ place \in [Requests -> Nodes \cup {New, Away, Done}]
    /\ asked \in 0 .. Never /\ (asked = Never \/ asked <= now)
    /\ switches \in 0 .. MaxSwitches

Priced == \A r \in Requests : place[r] # New => 1 \in DOMAIN snapshots

IInv ==
    /\ Basics
    /\ Books
    /\ Priced
    /\ Faithful(now, status, truth, asked, node_logs)

NodesBook == node_logs \in Seq(NodeLog) /\ InOrder(node_logs) /\ UpToNow(node_logs)

RequestsBook ==
    /\ request_logs \in Seq(RequestLog) /\ InOrder(request_logs) /\ UpToNow(request_logs)

SnapshotsBook == snapshots \in Seq(Snapshot) /\ InOrder(snapshots) /\ UpToNow(snapshots)

FirstBook ==
    \A j \in DOMAIN request_logs :
        /\ 1 \in DOMAIN snapshots
        /\ snapshots[1].timestamp <= request_logs[j].timestamp

LEMMA BooksAre ==
  Books <=> /\ now \in Nat /\ NodesBook /\ RequestsBook /\ SnapshotsBook /\ FirstBook
BY DEF Books, NodesBook, RequestsBook, SnapshotsBook, FirstBook

LEMMA HourGrows ==
  ASSUME NEW a \in Nat, NEW b \in Nat, a <= b
  PROVE  Hour(a) \in 0 .. Hour(b)
<1> DEFINE p == Hour(a)
           q == Hour(b)
           d == HourLength
<1>1. d \in Nat /\ d > 0
  BY AccountsAssumption
<1>2. /\ p \in Int /\ 0 <= p /\ d * p <= a /\ a < d * p + d
      /\ q \in Int /\ 0 <= q /\ d * q <= b /\ b < d * q + d
  BY <1>1, SMTT(30) DEF Hour
<1> HIDE DEF p, q, d
<1>3. ASSUME q < p PROVE FALSE
  <2>1. p - (q + 1) \in Nat
    BY <1>2, <1>3
  <2>2. d * (p - (q + 1)) >= 0
    <3> DEFINE x == p - (q + 1)
    <3>1. x \in Nat
      BY <2>1
    <3> HIDE DEF x
    <3>2. d * x >= 0
      BY <1>1, <3>1
    <3> QED
      BY <3>2 DEF x
  <2>3. d * (p - (q + 1)) = d * p - d * q - d
    BY <1>1, <1>2
  <2>4. d * p \in Int /\ d * q \in Int
    BY <1>1, <1>2
  <2> DEFINE dp == d * p
             dq == d * q
  <2>5. dp - dq - d >= 0 /\ dp <= a /\ b < dq + d /\ dp \in Int /\ dq \in Int
    BY <1>2, <2>2, <2>3, <2>4
  <2> HIDE DEF dp, dq
  <2> QED
    BY <1>1, <2>5
<1>4. p \in 0 .. q
  BY <1>2, <1>3
<1> QED
  BY <1>4 DEF p, q

(* Entries of this instant at the end keep a log in order. *)
LEMMA OrderKept ==
  ASSUME NEW S, NEW L \in Seq(S), NEW E \in Seq(S), NEW nw \in Nat,
         \A i \in DOMAIN L : L[i].timestamp \in Nat /\ L[i].timestamp <= nw,
         InOrder(L), \A k \in DOMAIN E : E[k].timestamp = nw
  PROVE  /\ L \o E \in Seq(S)
         /\ InOrder(L \o E)
         /\ \A i \in DOMAIN (L \o E) : (L \o E)[i].timestamp <= nw
<1> DEFINE J == L \o E
<1>0. J \in Seq(S)
  BY ConcatProperties
<1>1. /\ Len(L) \in Nat /\ DOMAIN L = 1 .. Len(L)
      /\ DOMAIN J = 1 .. Len(L) + Len(E) /\ Len(E) \in Nat
      /\ \A i \in DOMAIN L : J[i] = L[i]
      /\ \A j \in DOMAIN J : j \notin DOMAIN L => j - Len(L) \in DOMAIN E /\ J[j] = E[j - Len(L)]
  BY Joined
<1> HIDE DEF J
<1>2. \A j \in DOMAIN J : /\ J[j].timestamp \in Nat /\ J[j].timestamp <= nw
                          /\ j \notin DOMAIN L => J[j].timestamp = nw
  <2> SUFFICES ASSUME NEW j \in DOMAIN J
               PROVE  /\ J[j].timestamp \in Nat /\ J[j].timestamp <= nw
                      /\ j \notin DOMAIN L => J[j].timestamp = nw
    OBVIOUS
  <2>1. CASE j \in DOMAIN L
    BY <1>1, <2>1
  <2>2. CASE j \notin DOMAIN L
    BY <1>1, <2>2
  <2> QED
    BY <2>1, <2>2
<1>3. InOrder(J)
  <2> SUFFICES ASSUME NEW i \in DOMAIN J, NEW j \in DOMAIN J, i < j
               PROVE  J[i].timestamp <= J[j].timestamp
    BY DEF InOrder
  <2>1. CASE j \in DOMAIN L
    <3>1. i \in DOMAIN L
      BY <1>1, <2>1
    <3>2. L[i].timestamp <= L[j].timestamp
      BY <2>1, <3>1 DEF InOrder
    <3> QED
      BY <1>1, <2>1, <3>1, <3>2
  <2>2. CASE j \notin DOMAIN L
    BY <1>2, <2>2
  <2> QED
    BY <2>1, <2>2
<1> QED
  BY <1>0, <1>2, <1>3 DEF J

LEMMA NodesWritten ==
  ASSUME Books, NEW E \in Seq(NodeLog), \A k \in DOMAIN E : E[k].timestamp = now,
         node_logs' = node_logs \o E, now' = now
  PROVE  NodesBook'
<1>1. node_logs \in Seq(NodeLog) /\ InOrder(node_logs) /\ now \in Nat
  BY DEF Books
<1>2. \A i \in DOMAIN node_logs : node_logs[i].timestamp \in Nat /\ node_logs[i].timestamp <= now
  BY BooksAreSorted DEF Sorted, Books, UpToNow
<1>3. /\ node_logs \o E \in Seq(NodeLog) /\ InOrder(node_logs \o E)
      /\ \A i \in DOMAIN (node_logs \o E) : (node_logs \o E)[i].timestamp <= now
  BY <1>1, <1>2, OrderKept
<1> QED
  BY <1>3 DEF NodesBook, UpToNow, InOrder

LEMMA RequestWritten ==
  ASSUME Books, 1 \in DOMAIN snapshots, NEW here \in BOOLEAN, LogRequest(here),
         now' = now, snapshots' = snapshots
  PROVE  RequestsBook' /\ FirstBook'
<1>1. PICK fraction \in Renewables :
        request_logs' = Append(request_logs, [timestamp |-> now, here |-> here,
                                              renewable |-> fraction])
  BY DEF LogRequest
<1> DEFINE e == [timestamp |-> now, here |-> here, renewable |-> fraction]
           E == <<e>>
<1>2. e \in RequestLog /\ now \in Nat /\ e.timestamp = now
  BY DEF Books, RequestLog
<1> HIDE DEF e
<1>3. /\ request_logs \in Seq(RequestLog) /\ E \in Seq(RequestLog) /\ InOrder(request_logs)
      /\ Len(E) = 1 /\ DOMAIN E = {1} /\ \A k \in DOMAIN E : E[k].timestamp = now
  BY <1>2 DEF Books
<1>4. request_logs' = request_logs \o E
  BY <1>1, <1>2, <1>3, AppendIsConcat DEF e
<1>5. \A i \in DOMAIN request_logs : /\ request_logs[i].timestamp \in Nat
                                     /\ request_logs[i].timestamp <= now
  BY BooksAreSorted DEF Sorted, Books, UpToNow
<1>6. /\ request_logs \o E \in Seq(RequestLog) /\ InOrder(request_logs \o E)
      /\ \A i \in DOMAIN (request_logs \o E) : (request_logs \o E)[i].timestamp <= now
  BY <1>2, <1>3, <1>5, OrderKept
<1>7. RequestsBook'
  BY <1>4, <1>6 DEF RequestsBook, UpToNow, InOrder
<1>8. FirstBook'
  <2>1. /\ \A i \in DOMAIN request_logs : request_logs'[i] = request_logs[i]
        /\ \A j \in DOMAIN request_logs' : j \notin DOMAIN request_logs =>
              j - Len(request_logs) \in DOMAIN E
              /\ request_logs'[j] = E[j - Len(request_logs)]
    BY <1>3, <1>4, Joined
  <2>2. snapshots[1].timestamp <= now
    BY DEF Books, UpToNow
  <2>3. \A j \in DOMAIN request_logs : snapshots[1].timestamp <= request_logs[j].timestamp
    BY DEF Books
  <2> SUFFICES ASSUME NEW j \in DOMAIN request_logs'
               PROVE  snapshots[1].timestamp <= request_logs'[j].timestamp
    BY DEF FirstBook
  <2>4. CASE j \in DOMAIN request_logs
    BY <2>1, <2>3, <2>4
  <2>5. CASE j \notin DOMAIN request_logs
    BY <1>3, <2>1, <2>2, <2>5
  <2> QED
    BY <2>4, <2>5
<1> QED
  BY <1>7, <1>8

LEMMA SnapshotWritten ==
  ASSUME Books, Basics, LogSnapshot, now' = now, request_logs' = request_logs
  PROVE  SnapshotsBook' /\ FirstBook' /\ 1 \in DOMAIN snapshots'
<1>1. CASE \E i \in DOMAIN snapshots : snapshots[i].hour = Hour(now)
  <2>1. snapshots' = snapshots
    BY <1>1 DEF LogSnapshot
  <2>2. 1 \in DOMAIN snapshots
    BY <1>1, BooksAreSorted DEF Sorted
  <2> QED
    BY <2>1, <2>2, BooksAre DEF SnapshotsBook, FirstBook, InOrder, UpToNow
<1>2. CASE ~\E i \in DOMAIN snapshots : snapshots[i].hour = Hour(now)
  <2> DEFINE e == [timestamp |-> now, hour |-> Hour(now), carbon |-> CarbonOf[Hour(now)]]
             E == <<e>>
  <2>1. snapshots' = Append(snapshots, e)
    BY <1>2 DEF LogSnapshot
  <2>2. e \in Snapshot /\ now \in Nat /\ e.timestamp = now
    <3>1. now \in Nat /\ MaxTime \in Nat /\ now <= MaxTime
      BY AccountsAssumption DEF Basics
    <3>2. Hour(now) \in 0 .. Hour(MaxTime)
      BY <3>1, HourGrows
    <3>3. CarbonOf[Hour(now)] \in Nat
      BY <3>2, AccountsAssumption DEF Hour
    <3> QED
      BY <3>1, <3>2, <3>3 DEF Snapshot
  <2> HIDE DEF e
  <2>3. /\ snapshots \in Seq(Snapshot) /\ E \in Seq(Snapshot) /\ InOrder(snapshots)
        /\ Len(E) = 1 /\ DOMAIN E = {1} /\ \A k \in DOMAIN E : E[k].timestamp = now
    BY <2>2 DEF Books
  <2>4. snapshots' = snapshots \o E
    BY <2>1, <2>2, <2>3, AppendIsConcat
  <2>5. \A i \in DOMAIN snapshots : /\ snapshots[i].timestamp \in Nat
                                    /\ snapshots[i].timestamp <= now
    BY BooksAreSorted DEF Sorted, Books, UpToNow
  <2>6. /\ snapshots \o E \in Seq(Snapshot) /\ InOrder(snapshots \o E)
        /\ \A i \in DOMAIN (snapshots \o E) : (snapshots \o E)[i].timestamp <= now
    BY <2>2, <2>3, <2>5, OrderKept
  <2>7. SnapshotsBook'
    BY <2>4, <2>6 DEF SnapshotsBook, UpToNow, InOrder
  <2>8. /\ Len(snapshots) \in Nat
        /\ DOMAIN snapshots' = 1 .. Len(snapshots) + Len(E)
        /\ \A i \in DOMAIN snapshots : snapshots'[i] = snapshots[i]
    BY <2>3, <2>4, Joined
  <2>9. 1 \in DOMAIN snapshots'
    BY <2>3, <2>8
  <2>10. FirstBook'
    BY <2>8, <2>9 DEF Books, FirstBook
  <2> QED
    BY <2>7, <2>9, <2>10
<1> QED
  BY <1>1, <1>2

-----------------------------------------------------------------------------
(* One lemma for each action *)

LEMMA BasicsGive ==
  ASSUME Basics
  PROVE  /\ now \in Nat /\ MaxTime \in Nat /\ now <= MaxTime /\ asked \in Nat
         /\ asked = MaxTime + 1 \/ asked <= now
BY AccountsAssumption DEF Basics, Never

LEMMA TickKeeps ==
  ASSUME IInv, Tick
  PROVE  IInv'
<1>1. /\ now < MaxTime /\ now' = now + 1 /\ truth' = Append(truth, status)
      /\ UNCHANGED <<status, place, asked, switches, node_logs, request_logs, snapshots>>
  BY DEF Tick
<1>2. Basics /\ Books /\ Priced /\ Faithful(now, status, truth, asked, node_logs)
  BY DEF IInv
<1>3. now \in Nat /\ MaxTime \in Nat /\ asked \in Nat /\ (asked = MaxTime + 1 \/ asked <= now)
  BY <1>2, BasicsGive
<1>4. /\ truth' \in Seq([Nodes -> Statuses]) /\ Len(truth') = now + 1
      /\ \A t \in 0 .. now - 1 : truth'[t + 1] = truth[t + 1]
      /\ truth'[now + 1] = status
  <2>1. truth \in Seq([Nodes -> Statuses]) /\ status \in [Nodes -> Statuses] /\ Len(truth) = now
    BY <1>2 DEF Basics
  <2> DEFINE F == [Nodes -> Statuses]
  <2> HIDE DEF F
  <2>2. /\ truth' \in Seq(F) /\ Len(truth') = Len(truth) + 1
        /\ \A i \in 1 .. Len(truth) : truth'[i] = truth[i]
        /\ truth'[Len(truth) + 1] = status
    BY <1>1, <2>1, AppendProperties DEF F
  <2>3. \A t \in 0 .. now - 1 : t + 1 \in 1 .. now
    BY <1>3
  <2> QED
    BY <2>1, <2>2, <2>3 DEF F
<1>5. Basics'
  <2>1. now' \in 0 .. MaxTime
    BY <1>1, <1>3
  <2>2. asked' = Never \/ asked' <= now'
    BY <1>1, <1>3 DEF Never
  <2> QED
    BY <1>1, <1>2, <1>4, <2>1, <2>2 DEF Basics, Never
<1>6. Books'
  <2>1. \A i \in DOMAIN node_logs : node_logs[i].timestamp <= now + 1
    BY <1>2, <1>3, BooksAreSorted DEF Books, UpToNow, Sorted
  <2>2. \A i \in DOMAIN request_logs : request_logs[i].timestamp <= now + 1
    BY <1>2, <1>3, BooksAreSorted DEF Books, UpToNow, Sorted
  <2>3. \A i \in DOMAIN snapshots : snapshots[i].timestamp <= now + 1
    BY <1>2, <1>3, BooksAreSorted DEF Books, UpToNow, Sorted
  <2> QED
    BY <1>1, <1>2, <1>3, <2>1, <2>2, <2>3 DEF Books, UpToNow, InOrder
<1>7. Faithful(now', status', truth', asked', node_logs')
  <2>1. node_logs \in Seq(NodeLog) /\ \A i \in DOMAIN node_logs : node_logs[i].timestamp <= now
    BY <1>2 DEF Books, UpToNow
  <2>2. asked <= now + 1 => asked <= now
    BY <1>1, <1>3
  <2>3. Faithful(now + 1, status, truth', asked, node_logs)
    BY <1>2, <1>3, <1>4, <2>1, <2>2, FaithfulTick
  <2> QED
    BY <1>1, <2>3
<1>8. Priced'
  BY <1>1, <1>2 DEF Priced
<1> QED
  BY <1>5, <1>6, <1>7, <1>8 DEF IInv

LEMMA GoElsewhereKeeps ==
  ASSUME IInv, NEW r \in Requests, GoElsewhere(r)
  PROVE  IInv'
<1>1. /\ LogSnapshot /\ place' = [place EXCEPT ![r] = Away]
      /\ UNCHANGED <<now, status, truth, asked, switches, node_logs, request_logs>>
  BY DEF GoElsewhere
<1>2. Basics /\ Books /\ Priced /\ Faithful(now, status, truth, asked, node_logs)
  BY DEF IInv
<1>3. SnapshotsBook' /\ FirstBook' /\ 1 \in DOMAIN snapshots'
  BY <1>1, <1>2, SnapshotWritten
<1>4. Basics'
  BY <1>1, <1>2 DEF Basics, Never
<1>5. Books'
  BY <1>1, <1>2, <1>3 DEF Books, SnapshotsBook, FirstBook, InOrder, UpToNow
<1>6. Priced'
  BY <1>3 DEF Priced
<1>7. Faithful(now', status', truth', asked', node_logs')
  BY <1>1, <1>2
<1> QED
  BY <1>4, <1>5, <1>6, <1>7 DEF IInv

LEMMA FinishElsewhereKeeps ==
  ASSUME IInv, NEW r \in Requests, FinishElsewhere(r)
  PROVE  IInv'
<1>1. /\ place[r] = Away /\ place' = [place EXCEPT ![r] = Done]
      /\ UNCHANGED <<now, status, truth, asked, switches, node_logs, snapshots>>
  BY DEF FinishElsewhere
<1>2. PICK here \in BOOLEAN : LogRequest(here)
  BY DEF FinishElsewhere
<1>3. Basics /\ Books /\ Priced /\ Faithful(now, status, truth, asked, node_logs)
  BY DEF IInv
<1>4. 1 \in DOMAIN snapshots
  BY <1>1, <1>3 DEF Priced, New, Away
<1>5. RequestsBook' /\ FirstBook'
  BY <1>1, <1>2, <1>3, <1>4, RequestWritten
<1>6. Basics'
  BY <1>1, <1>3 DEF Basics, Never
<1>7. Books'
  BY <1>1, <1>3, <1>5 DEF Books, RequestsBook, FirstBook, InOrder, UpToNow
<1>8. Priced'
  BY <1>1, <1>4 DEF Priced
<1>9. Faithful(now', status', truth', asked', node_logs')
  BY <1>1, <1>3
<1> QED
  BY <1>6, <1>7, <1>8, <1>9 DEF IInv

(* A node that is logged as what it becomes. *)
LEMMA OneWritten ==
  ASSUME IInv, NEW n \in Nodes, NEW s \in Statuses, now' = now, truth' = truth,
         asked' = asked, status' = [status EXCEPT ![n] = s],
         node_logs' = Append(node_logs, LogOf(n, s))
  PROVE  /\ NodesBook' /\ Faithful(now', status', truth', asked', node_logs')
         /\ status' \in [Nodes -> Statuses]
<1> DEFINE e == LogOf(n, s)
           E == <<e>>
<1>1. Basics /\ Books /\ Faithful(now, status, truth, asked, node_logs)
  BY DEF IInv
<1>2. now \in Nat /\ asked \in Nat /\ node_logs \in Seq(NodeLog) /\ status \in [Nodes -> Statuses]
  BY <1>1, BasicsGive DEF Books, Basics
<1>3. e \in NodeLog /\ e.timestamp = now /\ e.node = n /\ e.status = s
  BY <1>2 DEF LogOf, NodeLog
<1> HIDE DEF e
<1>4. /\ E \in Seq(NodeLog) /\ Len(E) = 1 /\ DOMAIN E = {1} /\ E[1] = e
  BY <1>3
<1>5. node_logs' = node_logs \o E
  BY <1>2, <1>3, AppendIsConcat DEF e
<1>6. status' \in [Nodes -> Statuses]
  BY <1>2
<1>7. \A k \in DOMAIN E : E[k].timestamp = now
  BY <1>3, <1>4
<1>8. \A k \in DOMAIN E : (\A j \in DOMAIN E : k < j => E[j].node # E[k].node)
                            => E[k].status = status'[E[k].node]
  BY <1>2, <1>3, <1>4
<1>9. \A m \in Nodes : (\A k \in DOMAIN E : E[k].node # m)
         => status'[m] = status[m] /\ (asked' <= now => asked <= now \/ status[m] = OFF)
  BY <1>2, <1>3, <1>4
<1>10. \A t \in 0 .. now - 1 : asked' <= t => asked <= t
  OBVIOUS
<1>11. asked' \in Nat
  BY <1>2
<1> HIDE DEF E
<1>12. Faithful(now, status', truth, asked', node_logs \o E)
  BY <1>1, <1>2, <1>4, <1>7, <1>8, <1>9, <1>10, <1>11, FaithfulWrite
<1>13. NodesBook'
  BY <1>1, <1>4, <1>5, <1>7, NodesWritten
<1> QED
  BY <1>5, <1>6, <1>12, <1>13

LEMMA FinishKeeps ==
  ASSUME IInv, NEW r \in Requests, NEW n \in Nodes, Finish(r, n)
  PROVE  IInv'
<1> DEFINE s == IF Held(n) = {r} THEN IDLE ELSE WORKING
<1>1. /\ place[r] = n /\ place' = [place EXCEPT ![r] = Done] /\ LogRequest(TRUE)
      /\ UNCHANGED <<now, truth, asked, switches, snapshots>>
      /\ IF status[n] = OFF THEN UNCHANGED <<status, node_logs>>
         ELSE /\ status' = [status EXCEPT ![n] = s]
              /\ node_logs' = Append(node_logs, LogOf(n, s))
  BY DEF Finish
<1>2. Basics /\ Books /\ Priced /\ Faithful(now, status, truth, asked, node_logs)
  BY DEF IInv
<1>3. 1 \in DOMAIN snapshots
  <2>1. n # New
    BY TestResultsAssumption DEF New
  <2> QED
    BY <1>1, <1>2, <2>1 DEF Priced
<1>4. RequestsBook' /\ FirstBook'
  BY <1>1, <1>2, <1>3, RequestWritten
<1>5. /\ NodesBook' /\ Faithful(now', status', truth', asked', node_logs')
      /\ status' \in [Nodes -> Statuses]
  <2>1. CASE status[n] = OFF
    <3>1. status' = status /\ node_logs' = node_logs
      BY <1>1, <2>1
    <3> QED
      BY <1>1, <1>2, <3>1 DEF NodesBook, Books, InOrder, UpToNow, Basics
  <2>2. CASE status[n] # OFF
    <3>1. s \in Statuses
      BY DEF Statuses
    <3> HIDE DEF s
    <3> QED
      BY <1>1, <2>2, <3>1, OneWritten
  <2> QED
    BY <2>1, <2>2
<1> HIDE DEF s
<1>6. Basics'
  BY <1>1, <1>2, <1>5 DEF Basics, Never
<1>7. Books'
  <2>1. SnapshotsBook'
    BY <1>1, <1>2 DEF Books, SnapshotsBook, InOrder, UpToNow
  <2>2. (now \in Nat)'
    BY <1>1, <1>2 DEF Books
  <2> QED
    BY <1>4, <1>5, <2>1, <2>2 DEF Books, NodesBook, RequestsBook, SnapshotsBook, FirstBook
<1>8. Priced'
  BY <1>1, <1>3 DEF Priced
<1> QED
  BY <1>5, <1>6, <1>7, <1>8 DEF IInv

LEMMA SwitchKeeps ==
  ASSUME IInv, NEW n \in Nodes, NEW from, NEW to \in Statuses, Switch(n, from, to)
  PROVE  IInv'
<1>1. /\ switches < MaxSwitches /\ switches' = switches + 1
      /\ status' = [status EXCEPT ![n] = to]
      /\ node_logs' = Append(node_logs, LogOf(n, to))
      /\ UNCHANGED <<now, truth, place, asked, request_logs, snapshots>>
  BY DEF Switch
<1>2. Basics /\ Books /\ Priced /\ Faithful(now, status, truth, asked, node_logs)
  BY DEF IInv
<1>3. /\ NodesBook' /\ Faithful(now', status', truth', asked', node_logs')
      /\ status' \in [Nodes -> Statuses]
  BY <1>1, OneWritten
<1>4. switches' \in 0 .. MaxSwitches
  BY <1>1, <1>2, AccountsAssumption DEF Basics
<1>5. Basics'
  BY <1>1, <1>2, <1>3, <1>4 DEF Basics, Never
<1>6. Books'
  BY <1>1, <1>2, <1>3 DEF Books, NodesBook, InOrder, UpToNow
<1>7. Priced'
  BY <1>1, <1>2 DEF Priced
<1> QED
  BY <1>3, <1>5, <1>6, <1>7 DEF IInv

(* The running workers are logged, each as it is, and then the chosen one. *)
LEMMA SyncLogsAre ==
  ASSUME Basics
  PROVE  /\ SyncLogs \in Seq(NodeLog)
         /\ \A i \in DOMAIN SyncLogs :
               /\ SyncLogs[i].timestamp = now
               /\ SyncLogs[i].node \in RunningNodes
               /\ SyncLogs[i].status = status[SyncLogs[i].node]
         /\ \A m \in RunningNodes : \E i \in DOMAIN SyncLogs : SyncLogs[i].node = m
<1> DEFINE names == SetToSeq(RunningNodes)
<1>1. IsFiniteSet(RunningNodes)
  BY TestResultsAssumption, FS_Subset DEF RunningNodes
<1>2. names \in Seq(RunningNodes) /\ \A m \in RunningNodes : \E i \in DOMAIN names : names[i] = m
  BY <1>1, SetToSeqIs
<1>3. SyncLogs = [i \in DOMAIN names |-> LogOf(names[i], status[names[i]])]
  BY DEF SyncLogs
<1> HIDE DEF names
<1>4. \A i \in DOMAIN names : names[i] \in RunningNodes
  BY <1>2
<1>5. DOMAIN SyncLogs = DOMAIN names /\ DOMAIN names = 1 .. Len(names) /\ Len(names) \in Nat
  BY <1>2, <1>3
<1>6. ASSUME NEW i \in DOMAIN names
      PROVE  /\ SyncLogs[i] \in NodeLog /\ SyncLogs[i].timestamp = now
             /\ SyncLogs[i].node = names[i] /\ SyncLogs[i].status = status[names[i]]
  <2>1. names[i] \in Nodes /\ status[names[i]] \in Statuses /\ now \in Nat
    BY <1>4, BasicsGive DEF RunningNodes, Basics
  <2>2. SyncLogs[i] = LogOf(names[i], status[names[i]])
    BY <1>3
  <2> QED
    BY <2>1, <2>2 DEF LogOf, NodeLog
<1>7. SyncLogs \in Seq(NodeLog)
  <2>1. \A i \in 1 .. Len(names) : SyncLogs[i] \in NodeLog
    BY <1>5, <1>6
  <2>2. SyncLogs \in [1 .. Len(names) -> NodeLog]
    BY <1>3, <1>5, <2>1
  <2> QED
    BY <1>5, <2>2
<1> QED
  BY <1>2, <1>4, <1>5, <1>6, <1>7

LEMMA AcceptWrites ==
  ASSUME IInv, NEW r \in Requests, NEW n \in Nodes, Accept(r, n)
  PROVE  /\ NodesBook' /\ Faithful(now', status', truth', asked', node_logs')
         /\ status' \in [Nodes -> Statuses]
         /\ asked' \in 0 .. Never /\ asked' <= now
<1> DEFINE e == LogOf(n, WORKING)
           E == SyncLogs \o <<e>>
           l == Len(SyncLogs)
<1>1. /\ n \in RunningNodes /\ status' = [status EXCEPT ![n] = WORKING]
      /\ node_logs' = node_logs \o SyncLogs \o <<e>>
      /\ asked' = Min({asked, now}) /\ now' = now /\ truth' = truth
  BY DEF Accept
<1>2. Basics /\ Books /\ Faithful(now, status, truth, asked, node_logs)
  BY DEF IInv
<1>3. /\ now \in Nat /\ asked \in Nat /\ node_logs \in Seq(NodeLog)
      /\ status \in [Nodes -> Statuses] /\ MaxTime \in Nat /\ now <= MaxTime
  BY <1>2, BasicsGive DEF Books, Basics
<1>4. e \in NodeLog /\ e.timestamp = now /\ e.node = n /\ e.status = WORKING
  BY <1>3 DEF LogOf, NodeLog, Statuses
<1>5. asked' \in Nat /\ asked' <= now /\ (asked' = asked \/ asked' = now)
  <2> DEFINE A == {asked, now}
  <2>1. A \in SUBSET Nat /\ A # {} /\ now \in A
    BY <1>3
  <2> HIDE DEF A
  <2>2. Min(A) \in A /\ \A x \in A : Min(A) <= x
    BY <2>1, MinOf
  <2> QED
    BY <1>1, <1>3, <2>1, <2>2 DEF A
<1>6. status' \in [Nodes -> Statuses]
  BY <1>1, <1>3 DEF Statuses
<1> HIDE DEF e
<1>7. /\ SyncLogs \in Seq(NodeLog)
      /\ \A i \in DOMAIN SyncLogs :
            /\ SyncLogs[i].timestamp = now
            /\ SyncLogs[i].node \in RunningNodes
            /\ SyncLogs[i].status = status[SyncLogs[i].node]
      /\ \A m \in RunningNodes : \E i \in DOMAIN SyncLogs : SyncLogs[i].node = m
  BY <1>2, SyncLogsAre
<1>8. <<e>> \in Seq(NodeLog) /\ Len(<<e>>) = 1 /\ DOMAIN <<e>> = {1} /\ <<e>>[1] = e
  BY <1>4
<1>9. E \in Seq(NodeLog) /\ node_logs' = node_logs \o E
  <2> DEFINE X == <<e>>
  <2>1. X \in Seq(NodeLog) /\ E = SyncLogs \o X /\ node_logs' = node_logs \o SyncLogs \o X
    BY <1>1, <1>8 DEF e
  <2> HIDE DEF X, E
  <2>2. SyncLogs \o X \in Seq(NodeLog)
    BY <1>7, <2>1, ConcatProperties
  <2>3. (node_logs \o SyncLogs) \o X = node_logs \o (SyncLogs \o X)
    BY <1>3, <1>7, <2>1, ConcatAssociative
  <2> QED
    BY <2>1, <2>2, <2>3
<1>10. /\ l \in Nat /\ DOMAIN SyncLogs = 1 .. l /\ DOMAIN E = 1 .. l + 1
       /\ \A i \in DOMAIN SyncLogs : E[i] = SyncLogs[i]
       /\ E[l + 1] = e
  BY <1>7, <1>8, Joined
<1> HIDE DEF E, l
<1>11. \A k \in DOMAIN E : k \in DOMAIN SyncLogs \/ k = l + 1
  BY <1>10
<1>12. \A k \in DOMAIN E : E[k].timestamp = now
  BY <1>4, <1>7, <1>10, <1>11
<1>13. ASSUME NEW k \in DOMAIN E, \A j \in DOMAIN E : k < j => E[j].node # E[k].node
       PROVE  E[k].status = status'[E[k].node]
  <2>1. CASE k = l + 1
    BY <1>1, <1>3, <1>4, <1>10, <2>1
  <2>2. CASE k \in DOMAIN SyncLogs
    <3>1. l + 1 \in DOMAIN E /\ k < l + 1
      BY <1>10, <2>2
    <3>2. E[l + 1].node # E[k].node
      BY <1>13, <3>1
    <3>3. E[k] = SyncLogs[k] /\ E[k].node # n
      BY <1>4, <1>10, <2>2, <3>2
    <3>4. E[k].node \in Nodes /\ E[k].status = status[E[k].node]
      BY <1>7, <2>2, <3>3 DEF RunningNodes
    <3> QED
      BY <1>1, <1>3, <3>3, <3>4
  <2> QED
    BY <1>11, <2>1, <2>2
<1>14. ASSUME NEW m \in Nodes, \A k \in DOMAIN E : E[k].node # m
       PROVE  status'[m] = status[m] /\ (asked' <= now => asked <= now \/ status[m] = OFF)
  <2>1. m # n
    <3>1. l + 1 \in DOMAIN E
      BY <1>10
    <3> QED
      BY <1>4, <1>10, <1>14, <3>1
  <2>2. m \notin RunningNodes
    <3> SUFFICES ASSUME m \in RunningNodes PROVE FALSE
      OBVIOUS
    <3>1. PICK i \in DOMAIN SyncLogs : SyncLogs[i].node = m
      BY <1>7
    <3>2. i \in DOMAIN E /\ E[i].node = m
      BY <1>10, <3>1
    <3> QED
      BY <1>14, <3>2
  <2>3. status[m] = OFF
    BY <2>2 DEF RunningNodes
  <2> QED
    BY <1>1, <1>3, <2>1, <2>3
<1>15. \A t \in 0 .. now - 1 : asked' <= t => asked <= t
  BY <1>3, <1>5
<1>16. Faithful(now, status', truth, asked', node_logs \o E)
  BY <1>2, <1>3, <1>5, <1>9, <1>12, <1>13, <1>14, <1>15, FaithfulWrite
<1>17. NodesBook'
  BY <1>1, <1>2, <1>9, <1>12, NodesWritten
<1>18. asked' \in 0 .. Never
  BY <1>3, <1>5 DEF Never
<1> QED
  BY <1>1, <1>5, <1>6, <1>9, <1>16, <1>17, <1>18

LEMMA AcceptKeeps ==
  ASSUME IInv, NEW r \in Requests, NEW n \in Nodes, Accept(r, n)
  PROVE  IInv'
<1>1. /\ LogSnapshot /\ place' = [place EXCEPT ![r] = n]
      /\ UNCHANGED <<now, truth, switches, request_logs>>
  BY DEF Accept
<1>2. Basics /\ Books /\ Priced
  BY DEF IInv
<1>3. SnapshotsBook' /\ FirstBook' /\ 1 \in DOMAIN snapshots'
  BY <1>1, <1>2, SnapshotWritten
<1>4. /\ NodesBook' /\ Faithful(now', status', truth', asked', node_logs')
      /\ status' \in [Nodes -> Statuses]
      /\ asked' \in 0 .. Never /\ asked' <= now
  BY AcceptWrites
<1>5. Basics'
  BY <1>1, <1>2, <1>4 DEF Basics, Never
<1>6. Books'
  <2>1. RequestsBook'
    BY <1>1, <1>2 DEF Books, RequestsBook, InOrder, UpToNow
  <2>2. (now \in Nat)'
    BY <1>1, <1>2 DEF Books
  <2> QED
    BY <1>3, <1>4, <2>1, <2>2 DEF Books, NodesBook, RequestsBook, SnapshotsBook, FirstBook
<1>7. Priced'
  BY <1>3 DEF Priced
<1> QED
  BY <1>4, <1>5, <1>6, <1>7 DEF IInv

LEMMA InitHolds ==
  ASSUME Init
  PROVE  IInv
<1>1. /\ now = 0 /\ status \in [Nodes -> {OFF, IDLE}] /\ truth = <<>>
      /\ place = [r \in Requests |-> New] /\ asked = Never /\ switches = 0
      /\ node_logs = <<>> /\ request_logs = <<>> /\ snapshots = <<>>
  BY DEF Init
<1>2. MaxTime \in Nat /\ MaxSwitches \in Nat
  BY AccountsAssumption
<1>3. Basics
  <2>1. status \in [Nodes -> Statuses]
    BY <1>1 DEF Statuses
  <2>2. asked \in 0 .. Never /\ now \in 0 .. MaxTime /\ switches \in 0 .. MaxSwitches
    BY <1>1, <1>2 DEF Never
  <2> QED
    BY <1>1, <2>1, <2>2 DEF Basics
<1>4. Books
  BY <1>1 DEF Books, InOrder, UpToNow
<1>5. Priced
  BY <1>1 DEF Priced
<1>6. Faithful(now, status, truth, asked, node_logs)
  <2>1. \A n \in Nodes : Told(node_logs, n, 0) = OFF
    BY <1>1 DEF Told, StatusAt, Before
  <2>2. ~(asked <= 0)
    BY <1>1, <1>2 DEF Never
  <2> QED
    BY <1>1, <2>1, <2>2 DEF Faithful, FaithfulAt
<1> QED
  BY <1>3, <1>4, <1>5, <1>6 DEF IInv

LEMMA Inductive ==
  ASSUME IInv, [Next]_vars
  PROVE  IInv'
<1>1. CASE Tick
  BY <1>1, TickKeeps
<1>2. ASSUME NEW r \in Requests, NEW n \in Nodes, Accept(r, n) PROVE IInv'
  BY <1>2, AcceptKeeps
<1>3. ASSUME NEW r \in Requests, NEW n \in Nodes, Finish(r, n) PROVE IInv'
  BY <1>3, FinishKeeps
<1>4. ASSUME NEW r \in Requests, GoElsewhere(r) PROVE IInv'
  BY <1>4, GoElsewhereKeeps
<1>5. ASSUME NEW r \in Requests, FinishElsewhere(r) PROVE IInv'
  BY <1>5, FinishElsewhereKeeps
<1>6. ASSUME NEW n \in Nodes, Switch(n, OFF, IDLE) \/ Switch(n, IDLE, OFF) PROVE IInv'
  BY <1>6, SwitchKeeps DEF Statuses
<1>7. CASE UNCHANGED vars
  <2>1. Basics /\ Books /\ Priced /\ Faithful(now, status, truth, asked, node_logs)
    BY DEF IInv
  <2>2. UNCHANGED <<now, status, truth, place, asked, switches, node_logs,
                    request_logs, snapshots>>
    BY <1>7 DEF vars
  <2>3. Basics'
    BY <2>1, <2>2 DEF Basics, Never
  <2>4. Books'
    BY <2>1, <2>2 DEF Books, InOrder, UpToNow
  <2>5. Priced'
    BY <2>1, <2>2 DEF Priced
  <2>6. Faithful(now', status', truth', asked', node_logs')
    BY <2>1, <2>2
  <2> QED
    BY <2>3, <2>4, <2>5, <2>6 DEF IInv
<1> QED
  BY <1>1, <1>2, <1>3, <1>4, <1>5, <1>6, <1>7 DEF Next

LEMMA IInvIsInvariant == Spec => []IInv
<1>1. Init => IInv
  BY InitHolds
<1>2. IInv /\ [Next]_vars => IInv'
  BY Inductive
<1> QED
  BY <1>1, <1>2, PTL DEF Spec

-----------------------------------------------------------------------------
(* The results *)

LEMMA IInvTypes ==
  ASSUME IInv
  PROVE  TypeOK
<1>1. Basics /\ Books
  BY DEF IInv
<1>2. now \in Nat
  BY <1>1 DEF Books
<1>3. \A i \in DOMAIN node_logs :
         node_logs[i] \in [timestamp : 0 .. now, node : Nodes, status : {OFF, IDLE, WORKING}]
  <2> TAKE i \in DOMAIN node_logs
  <2>1. node_logs[i] \in NodeLog /\ node_logs[i].timestamp <= now
    BY <1>1 DEF Books, UpToNow
  <2> QED
    BY <1>2, <2>1 DEF NodeLog, Statuses
<1>4. \A i \in DOMAIN request_logs :
         request_logs[i] \in [timestamp : 0 .. now, here : BOOLEAN, renewable : Renewables]
  <2> TAKE i \in DOMAIN request_logs
  <2>1. request_logs[i] \in RequestLog /\ request_logs[i].timestamp <= now
    BY <1>1 DEF Books, UpToNow
  <2> QED
    BY <1>2, <2>1 DEF RequestLog
<1>5. \A i \in DOMAIN snapshots :
         snapshots[i] \in [timestamp : 0 .. now, hour : 0 .. Hour(MaxTime), carbon : Nat]
  <2> TAKE i \in DOMAIN snapshots
  <2>1. snapshots[i] \in Snapshot /\ snapshots[i].timestamp <= now
    BY <1>1 DEF Books, UpToNow
  <2> QED
    BY <1>2, <2>1 DEF Snapshot
<1> QED
  BY <1>1, <1>3, <1>4, <1>5 DEF TypeOK, Basics, Statuses

(* A node the log misses counts as off, and that draws least. *)
LEMMA ToldPowerIsTrue ==
  ASSUME IInv, OffDrawsNothing, NEW t \in 0 .. now - 1
  PROVE  /\ Power(truth[t + 1]) \in Int
         /\ ToldPower(node_logs, t) <= Power(truth[t + 1])
         /\ asked <= t => ToldPower(node_logs, t) = Power(truth[t + 1])
<1> DEFINE told == NodeDraws(node_logs, t)
           true == [n \in Nodes |-> power_for_status(truth[t + 1][n])]
<1>1. Power(truth[t + 1]) = SumFunctionOnSet(true, Nodes)
  <2>1. SumFunction(true) = SumFunctionOnSet(true, Nodes)
    BY DEF SumFunction
  <2>2. Power(truth[t + 1]) = SumFunction(true)
    BY Zenon DEF Power
  <2> QED
    BY <2>1, <2>2
<1>2. ASSUME NEW n \in Nodes
      PROVE  /\ told[n] \in Int /\ true[n] \in Int /\ told[n] <= true[n]
             /\ asked <= t => told[n] = true[n]
  <2>1. FaithfulAt(n, truth[t + 1][n], t, asked, node_logs)
    BY DEF IInv, Faithful
  <2>2. told[n] = power_for_status(Told(node_logs, n, t))
    BY DEF NodeDraws
  <2>3. true[n] = power_for_status(truth[t + 1][n])
    OBVIOUS
  <2>4. /\ power_for_status(Told(node_logs, n, t)) \in Nat
        /\ power_for_status(truth[t + 1][n]) \in Nat
    BY PowerType
  <2>5. power_for_status(OFF) = 0
    BY DEF power_for_status, OFF, IDLE, WORKING, OffDrawsNothing
  <2> HIDE DEF told, true
  <2> QED
    BY <2>1, <2>2, <2>3, <2>4, <2>5 DEF FaithfulAt
<1>3. IsFiniteSet(Nodes) /\ IntOn(told, Nodes) /\ IntOn(true, Nodes)
  BY <1>2, TestResultsAssumption DEF IntOn
<1>4. ToldPower(node_logs, t) = SumFunctionOnSet(told, Nodes)
  BY DEF ToldPower
<1> HIDE DEF told, true
<1>5. SumFunctionOnSet(told, Nodes) <= SumFunctionOnSet(true, Nodes)
  BY <1>2, <1>3, SumLeq
<1>6. asked <= t => SumFunctionOnSet(told, Nodes) = SumFunctionOnSet(true, Nodes)
  <2> SUFFICES ASSUME asked <= t
               PROVE  SumFunctionOnSet(told, Nodes) = SumFunctionOnSet(true, Nodes)
    OBVIOUS
  <2>1. \A n \in Nodes : told[n] = true[n]
    BY <1>2
  <2> QED
    BY <1>3, <2>1, SumExt
<1>7. SumFunctionOnSet(true, Nodes) \in Int
  BY <1>3, SumType
<1> QED
  BY <1>1, <1>4, <1>5, <1>6, <1>7

LEMMA IInvBillsTheTruth ==
  ASSUME IInv, OffDrawsNothing
  PROVE  EnergyIsTrue
<1> SUFFICES ASSUME NEW a \in 0 .. now, NEW b \in 0 .. now, a < b
             PROVE  /\ compute_cluster_energy_wh(a, b, node_logs) <= TrueEnergy(a, b)
                    /\ asked <= a => compute_cluster_energy_wh(a, b, node_logs) = TrueEnergy(a, b)
  BY DEF EnergyIsTrue
<1> DEFINE T == a .. b - 1
           told == ToldPowers(node_logs, a, b)
           true == [t \in T |-> Power(truth[t + 1])]
<1>0. Books /\ now \in Nat /\ asked \in Nat
  BY BasicsGive DEF IInv, Books
<1>1. a \in Nat /\ b \in Nat /\ a <= b
  BY <1>0
<1>2. compute_cluster_energy_wh(a, b, node_logs) = SumFunctionOnSet(told, T)
  BY <1>0, <1>1, BooksAreSorted, ClusterEnergyIsTicks
<1>3. TrueEnergy(a, b) = SumFunctionOnSet(true, T)
  <2>1. SumFunction(true) = SumFunctionOnSet(true, T)
    BY DEF SumFunction
  <2>2. TrueEnergy(a, b) = SumFunction(true)
    BY Zenon DEF TrueEnergy
  <2> QED
    BY <2>1, <2>2
<1>4. IsFiniteSet(T) /\ IntOn(told, T)
  BY <1>1, ToldPowersType
<1>5. ASSUME NEW t \in T
      PROVE  /\ true[t] \in Int /\ told[t] <= true[t]
             /\ asked <= a => told[t] = true[t]
  <2>1. t \in 0 .. now - 1 /\ a <= t
    BY <1>0, <1>1
  <2>2. told[t] = ToldPower(node_logs, t) /\ true[t] = Power(truth[t + 1])
    BY DEF ToldPowers
  <2>3. asked <= a => asked <= t
    BY <1>0, <1>1, <2>1
  <2> HIDE DEF told, true, T
  <2> QED
    BY <2>1, <2>2, <2>3, ToldPowerIsTrue
<1>6. IntOn(true, T)
  BY <1>5 DEF IntOn
<1> HIDE DEF told, true, T
<1>7. SumFunctionOnSet(told, T) <= SumFunctionOnSet(true, T)
  BY <1>4, <1>5, <1>6, SumLeq
<1>8. asked <= a => SumFunctionOnSet(told, T) = SumFunctionOnSet(true, T)
  <2> SUFFICES ASSUME asked <= a
               PROVE  SumFunctionOnSet(told, T) = SumFunctionOnSet(true, T)
    OBVIOUS
  <2>1. \A t \in T : told[t] = true[t]
    BY <1>5
  <2> QED
    BY <1>4, <1>6, <2>1, SumExt
<1> QED
  BY <1>2, <1>3, <1>7, <1>8

(* Whatever the writers do, each log stays of its type and within the time *)
(* that has passed.                                                        *)
THEOREM AccountsTypes == Spec => []TypeOK
<1>1. IInv => TypeOK
  BY IInvTypes
<1> QED
  BY <1>1, IInvIsInvariant, PTL

(* The cluster is billed for what its nodes drew: never for more, and from *)
(* its first request on for exactly that, in any window, however requests  *)
(* and power transitions fall.  This needs sync_worker_status in Accept.   *)
THEOREM BilledForWhatWasDrawn ==
  ASSUME OffDrawsNothing
  PROVE  Spec => []EnergyIsTrue
<1>1. IInv => EnergyIsTrue
  BY IInvBillsTheTruth
<1> QED
  BY <1>1, IInvIsInvariant, PTL

(* get_test_results sums the carbon interval by interval; that is the sum  *)
(* over all ticks of the test, each in the interval of its own snapshot.   *)
THEOREM CarbonCountsEachTickOnce ==
  ASSUME OffDrawsNothing
  PROVE  Spec => []CarbonIsTheIntegral
<1>1. IInv => CarbonIsTheIntegral
  BY BooksGiveTheIntegral DEF IInv
<1> QED
  BY <1>1, IInvIsInvariant, PTL

(* The energy the dashboard shows lacks what the nodes drew before the     *)
(* first request was logged, and nothing else.                             *)
THEOREM TheMissIsTheStart ==
  ASSUME OffDrawsNothing
  PROVE  Spec => []DashboardMissesTheStart
<1>1. IInv => DashboardMissesTheStart
  BY BooksShowTheMiss DEF IInv
<1> QED
  BY <1>1, IInvIsInvariant, PTL
=============================================================================
