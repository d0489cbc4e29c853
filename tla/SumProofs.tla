----------------------------- MODULE SumProofs ------------------------------
(***************************************************************************)
(* Sums of the values of a function over a finite set, and functions that  *)
(* recurse along a rank: what the proofs about weights need of them.       *)
(***************************************************************************)
EXTENDS AdaptivePruningProofs

-----------------------------------------------------------------------------
(* Finite sets                                                             *)

\* Of some subsets of a finite set, one has no smaller one among them.
LEMMA SmallestSet ==
    ASSUME NEW D, IsFiniteSet(D), NEW bad, bad \subseteq SUBSET D, bad # {}
    PROVE  \E s \in bad : /\ IsFiniteSet(s)
                          /\ \A x \in s : s \ {x} \notin bad
                          /\ \A x, y \in s : x # y => (s \ {x}) \ {y} \notin bad
<1> DEFINE sizes == {Cardinality(t) : t \in bad}
<1>1. \A t \in SUBSET D : IsFiniteSet(t) /\ Cardinality(t) \in Nat
  BY FS_Subset, FS_CardinalityType
<1>2. sizes \subseteq Nat /\ sizes # {}
  BY <1>1
<1>3. PICK least \in sizes : \A y \in sizes : least <= y
  <2> HIDE DEF sizes
  <2> QED  BY <1>2, FirstExists
<1>4. PICK s \in bad : least = Cardinality(s)
  BY <1>3
<1>5. \A t \in bad : Cardinality(s) <= Cardinality(t)
  BY <1>3, <1>4
<1>6. ASSUME NEW x \in s
      PROVE  /\ s \ {x} \notin bad
             /\ \A y \in s : x # y => (s \ {x}) \ {y} \notin bad
  <2>1. s \in SUBSET D /\ IsFiniteSet(s) /\ Cardinality(s) \in Nat
    BY <1>1, <1>4
  <2>2. IsFiniteSet(s \ {x}) /\ Cardinality(s \ {x}) = Cardinality(s) - 1
    BY <2>1, FS_RemoveElement
  <2>3. \A y \in s : x # y => Cardinality((s \ {x}) \ {y}) = Cardinality(s) - 1 - 1
    BY <2>2, FS_RemoveElement
  <2> QED  BY <1>5, <2>1, <2>2, <2>3
<1> QED  BY <1>1, <1>4, <1>6

\* A family of sets that has the empty one, and with a set each one element larger, has every
\* finite one.
LEMMA FiniteSetGrows ==
    ASSUME NEW D, IsFiniteSet(D), NEW G, {} \in G,
           \A t \in SUBSET D : \A x \in D \ t : t \in G => t \cup {x} \in G
    PROVE  D \in G
<1> DEFINE bad == {t \in SUBSET D : t \notin G}
<1> SUFFICES ASSUME D \notin G  PROVE FALSE
  OBVIOUS
<1>1. PICK s \in bad : \A x \in s : s \ {x} \notin bad
  <2>1. bad \subseteq SUBSET D /\ bad # {}
    OBVIOUS
  <2> HIDE DEF bad
  <2> QED  BY <2>1, SmallestSet
<1>2. PICK x \in s : TRUE
  BY <1>1
<1>3. s \ {x} \in SUBSET D /\ x \in D \ (s \ {x}) /\ s = (s \ {x}) \cup {x}
  BY <1>1, <1>2
<1>4. s \ {x} \in G
  BY <1>1, <1>3
<1> QED  BY <1>1, <1>3, <1>4

-----------------------------------------------------------------------------
(* Sums                                                                    *)

First(s) == CHOOSE x \in s : TRUE

IsSum(f, g) ==
    g = [s \in SUBSET DOMAIN f |-> IF s = {} THEN 0 ELSE f[First(s)] + g[s \ {First(s)}]]

SumsOf(f) == CHOOSE g : IsSum(f, g)

LEMMA SumOfIs == ASSUME NEW f  PROVE SumOf(f) = SumsOf(f)[DOMAIN f]
BY DEF SumOf, MapThenSumSet, MapThenFoldSet, SumsOf, IsSum, First

Weights(f) == IsFiniteSet(DOMAIN f) /\ \A x \in DOMAIN f : f[x] \in Int

LEMMA SumsExist ==
    ASSUME NEW f, Weights(f)
    PROVE  IsSum(f, SumsOf(f))
<1> DEFINE D == DOMAIN f
           longer(h) == [s \in SUBSET D |-> IF s = {} THEN 0 ELSE f[First(s)] + h[s \ {First(s)}]]
           tables == [SUBSET D -> Int]
           one == [h \in tables |-> longer(h)]
           step == [k \in Nat \ {0} |-> one]
           start == [s \in SUBSET D |-> 0]
<1>1. \A s \in SUBSET D : s # {} => First(s) \in s /\ f[First(s)] \in Int
  BY DEF First, Weights
<1>2. ASSUME NEW h \in tables  PROVE longer(h) \in tables
  BY <1>1
<1>3. one \in [tables -> tables]
  <2> HIDE DEF tables, longer
  <2> QED  BY <1>2
<1>4. step \in [Nat \ {0} -> [tables -> tables]] /\ start \in tables
  <2>1. start \in tables
    OBVIOUS
  <2> HIDE DEF tables, one, start
  <2> QED  BY <1>3, <2>1
<1>5. PICK table \in [Nat -> tables] : Iterates(table, start, step)
  <2> HIDE DEF tables, step, start
  <2> QED  BY <1>4, IterationExists
<1>6. \A s \in SUBSET D : IsFiniteSet(s) /\ Cardinality(s) \in Nat
  BY FS_Subset, FS_CardinalityType DEF Weights
<1> DEFINE g == [s \in SUBSET D |-> table[Cardinality(s)][s]]
<1>7. \A s \in SUBSET D : g[s] \in Int
  BY <1>5, <1>6
<1>8. ASSUME NEW s \in SUBSET D
      PROVE  g[s] = IF s = {} THEN 0 ELSE f[First(s)] + g[s \ {First(s)}]
  <2>1. CASE s = {}
    <3>1. table[0] = start /\ Cardinality({}) = 0
      BY <1>5, FS_EmptySet DEF Iterates
    <3>2. g[{}] = start[{}]
      BY <3>1
    <3> QED  BY <2>1, <3>2
  <2>2. CASE s # {}
    <3> DEFINE x == First(s)
               c == Cardinality(s)
               rest == s \ {x}
    <3>1. x \in s /\ rest \in SUBSET D
      BY <1>1, <2>2
    <3>2. Cardinality(rest) = c - 1
      BY <1>6, <3>1, FS_RemoveElement
    <3>3. c \in Nat \ {0}
      BY <1>6, <2>2, FS_EmptySet
    <3>4. table[c] = step[c][table[c - 1]] /\ table[c - 1] \in tables
      <4> HIDE DEF c, step, start, tables
      <4>1. c - 1 \in Nat
        BY <3>3
      <4> QED  BY <1>5, <3>3, <4>1 DEF Iterates
    <3>5. step[c][table[c - 1]] = longer(table[c - 1])
      <4> HIDE DEF c, longer, tables
      <4> QED  BY <3>3, <3>4
    <3>6. g[s] = table[c][s] /\ g[rest] = table[c - 1][rest]
      BY <3>1, <3>2
    <3>7. longer(table[c - 1])[s] = f[x] + table[c - 1][rest]
      BY <2>2
    <3> HIDE DEF g, longer, step, c
    <3> QED  BY <2>2, <3>4, <3>5, <3>6, <3>7
  <2> QED  BY <2>1, <2>2
<1>9. IsSum(f, g)
  <2>1. g = [s \in SUBSET D |-> g[s]]
    OBVIOUS
  <2> HIDE DEF g
  <2> QED  BY <1>8, <2>1 DEF IsSum
<1> HIDE DEF g
<1> QED  BY <1>9 DEF SumsOf

\* The order of the summands does not matter.
IsAdditive(f, g) ==
    /\ g[{}] = 0
    /\ \A s \in SUBSET DOMAIN f : g[s] \in Int /\ \A x \in s : g[s] = f[x] + g[s \ {x}]

LEMMA SumsAreAdditive == ASSUME NEW f, Weights(f)  PROVE IsAdditive(f, SumsOf(f))
<1> DEFINE g == SumsOf(f)
<1>1. /\ g[{}] = 0
      /\ \A s \in SUBSET DOMAIN f :
           s # {} => First(s) \in s /\ g[s] = f[First(s)] + g[s \ {First(s)}]
  BY SumsExist DEF IsSum, First
<1> HIDE DEF g
<1>2. ASSUME NEW s \in SUBSET DOMAIN f  PROVE g[s] \in Int
  <2> DEFINE bad == {t \in SUBSET DOMAIN f : g[t] \notin Int}
  <2> SUFFICES ASSUME bad # {}  PROVE FALSE
    OBVIOUS
  <2>1. PICK t \in bad : \A x \in t : t \ {x} \notin bad
    <3>1. bad \subseteq SUBSET DOMAIN f
      OBVIOUS
    <3> HIDE DEF bad
    <3> QED  BY <3>1, SmallestSet DEF Weights
  <2>2. t \in SUBSET DOMAIN f /\ g[t] \notin Int
    BY <2>1
  <2>3. t # {}
    <3>1. g[{}] \in Int
      BY <1>1
    <3> QED  BY <2>2, <3>1
  <2> DEFINE z == First(t)
  <2>4. z \in t /\ g[t] = f[z] + g[t \ {z}]
    BY <1>1, <2>2, <2>3
  <2> HIDE DEF z
  <2>5. g[t \ {z}] \in Int
    <3>1. t \ {z} \in SUBSET DOMAIN f /\ t \ {z} \notin bad
      BY <2>1, <2>2, <2>4
    <3> QED  BY <3>1
  <2>6. f[z] \in Int
    BY <2>2, <2>4 DEF Weights
  <2> QED  BY <2>2, <2>4, <2>5, <2>6
<1>3. ASSUME NEW s \in SUBSET DOMAIN f, NEW x \in s  PROVE g[s] = f[x] + g[s \ {x}]
  <2> DEFINE bad == {t \in SUBSET DOMAIN f : \E y \in t : g[t] # f[y] + g[t \ {y}]}
  <2> SUFFICES ASSUME bad # {}  PROVE FALSE
    OBVIOUS
  <2>1. PICK t \in bad : \A y \in t : t \ {y} \notin bad
    <3>1. bad \subseteq SUBSET DOMAIN f
      OBVIOUS
    <3> HIDE DEF bad
    <3> QED  BY <3>1, SmallestSet DEF Weights
  <2>2. PICK y \in t : g[t] # f[y] + g[t \ {y}]
    BY <2>1
  <2> DEFINE z == First(t)
             rest == (t \ {y}) \ {z}
  <2>3. t \in SUBSET DOMAIN f /\ z \in t /\ g[t] = f[z] + g[t \ {z}]
    BY <1>1, <2>1, <2>2
  <2> HIDE DEF z
  <2>4. y # z
    BY <2>2, <2>3
  <2>5. g[t \ {z}] = f[y] + g[rest]
    <3>1. t \ {z} \in SUBSET DOMAIN f /\ t \ {z} \notin bad /\ y \in t \ {z}
      BY <2>1, <2>3, <2>4
    <3>2. rest = (t \ {z}) \ {y}
      OBVIOUS
    <3> QED  BY <3>1, <3>2
  <2>6. g[t \ {y}] = f[z] + g[rest]
    BY <2>1, <2>3, <2>4
  <2>7. f[y] \in Int /\ f[z] \in Int /\ g[rest] \in Int
    BY <1>2, <2>3 DEF Weights
  <2> QED  BY <2>2, <2>3, <2>5, <2>6, <2>7
<1> QED  BY <1>1, <1>2, <1>3 DEF IsAdditive, g

\* Sums over a set of indices.
SumOn(f, S) == SumOf([x \in S |-> f[x]])

LEMMA SumOfEmpty == ASSUME NEW f  PROVE SumOn(f, {}) = 0
<1> DEFINE e == [x \in {} |-> f[x]]
<1>1. DOMAIN e = {} /\ Weights(e)
  BY FS_EmptySet DEF Weights
<1> HIDE DEF e
<1>2. SumsOf(e)[{}] = 0
  BY <1>1, SumsAreAdditive DEF IsAdditive
<1> QED  BY <1>1, <1>2, SumOfIs DEF SumOn, e

LEMMA SumIsWhole == ASSUME NEW f, Weights(f)  PROVE SumOf(f) \in Int
BY SumOfIs, SumsAreAdditive DEF IsAdditive

\* The sums over the subsets of a set do not depend on the set.
LEMMA SumOfPart ==
    ASSUME NEW f, Weights(f), NEW S \in SUBSET DOMAIN f
    PROVE  SumsOf(f)[S] = SumOn(f, S)
<1> DEFINE r == [x \in S |-> f[x]]
           a == SumsOf(f)
           b == SumsOf(r)
           G == {t \in SUBSET S : a[t] = b[t]}
<1>1. DOMAIN r = S /\ Weights(r) /\ IsFiniteSet(S) /\ \A x \in S : r[x] = f[x]
  <2>1. IsFiniteSet(S)
    BY FS_Subset DEF Weights
  <2> QED  BY <2>1 DEF Weights
<1> HIDE DEF r
<1>2. IsAdditive(f, a) /\ IsAdditive(r, b)
  BY <1>1, SumsAreAdditive
<1> HIDE DEF a, b
<1>3. {} \in G
  BY <1>2 DEF IsAdditive
<1>4. ASSUME NEW t \in SUBSET S, NEW x \in S \ t, t \in G  PROVE t \cup {x} \in G
  <2> DEFINE u == t \cup {x}
  <2>1. u \in SUBSET S /\ u \in SUBSET DOMAIN f /\ x \in u /\ u \ {x} = t
    OBVIOUS
  <2> HIDE DEF u
  <2>2. a[u] = f[x] + a[t] /\ b[u] = r[x] + b[t]
    BY <1>1, <1>2, <2>1 DEF IsAdditive
  <2> QED  BY <1>1, <1>4, <2>1, <2>2 DEF u
<1>5. S \in G
  <2> HIDE DEF G
  <2> QED  BY <1>1, <1>3, <1>4, FiniteSetGrows
<1> QED  BY <1>1, <1>5, SumOfIs DEF SumOn, a, b, r

IntegerOn(f, S) == \A x \in S : f[x] \in Int

\* A sum, one summand more.
LEMMA SumGrows ==
    ASSUME NEW S, IsFiniteSet(S), NEW x, x \notin S, NEW f, IntegerOn(f, S \cup {x})
    PROVE  SumOn(f, S \cup {x}) = SumOn(f, S) + f[x]
<1> DEFINE more == S \cup {x}
           r == [y \in more |-> f[y]]
<1>1. DOMAIN r = more /\ Weights(r) /\ S \in SUBSET more /\ more \ {x} = S /\ x \in more
  <2>1. IsFiniteSet(S \cup {x})
    BY FS_AddElement
  <2> QED  BY <2>1 DEF Weights, IntegerOn
<1>2. SumOn(f, more) = SumsOf(r)[more]
  BY <1>1, SumOfIs DEF SumOn
<1>3. r[x] = f[x] /\ r[x] \in Int /\ [y \in S |-> r[y]] = [y \in S |-> f[y]]
  BY DEF IntegerOn
<1> HIDE DEF r
<1>4. SumsOf(r)[S] = SumOn(f, S)
  <2>1. S \in SUBSET DOMAIN r
    BY <1>1
  <2>2. SumsOf(r)[S] = SumOn(r, S)
    BY <1>1, <2>1, SumOfPart
  <2> QED  BY <1>3, <2>2 DEF SumOn
<1>5. SumsOf(r)[more] = r[x] + SumsOf(r)[S] /\ SumsOf(r)[S] \in Int
  <2>1. IsAdditive(r, SumsOf(r))
    BY <1>1, SumsAreAdditive
  <2>2. more \in SUBSET DOMAIN r /\ S \in SUBSET DOMAIN r
    BY <1>1
  <2> HIDE DEF more
  <2> QED  BY <1>1, <2>1, <2>2 DEF IsAdditive
<1> HIDE DEF more
<1> QED  BY <1>2, <1>3, <1>4, <1>5 DEF more

LEMMA SumOnIsWhole ==
    ASSUME NEW S, IsFiniteSet(S), NEW f, IntegerOn(f, S)
    PROVE  SumOn(f, S) \in Int
<1> DEFINE r == [x \in S |-> f[x]]
<1>1. Weights(r)
  BY DEF Weights, IntegerOn
<1> HIDE DEF r
<1> QED  BY <1>1, SumIsWhole DEF SumOn, r

LEMMA SumSame ==
    ASSUME NEW S, NEW f, NEW g, \A x \in S : f[x] = g[x]
    PROVE  SumOn(f, S) = SumOn(g, S)
<1>1. [x \in S |-> f[x]] = [x \in S |-> g[x]]
  OBVIOUS
<1> QED  BY <1>1 DEF SumOn

LEMMA SumPlus ==
    ASSUME NEW S, IsFiniteSet(S), NEW f, NEW g, NEW h, IntegerOn(f, S), IntegerOn(g, S),
           \A x \in S : h[x] = f[x] + g[x]
    PROVE  SumOn(h, S) = SumOn(f, S) + SumOn(g, S)
<1> DEFINE G == {t \in SUBSET S : SumOn(h, t) = SumOn(f, t) + SumOn(g, t)}
<1>1. {} \in G
  BY SumOfEmpty
<1>2. ASSUME NEW t \in SUBSET S, NEW x \in S \ t, t \in G  PROVE t \cup {x} \in G
  <2>1. /\ IsFiniteSet(t) /\ x \notin t /\ IntegerOn(f, t \cup {x}) /\ IntegerOn(g, t \cup {x})
        /\ IntegerOn(h, t \cup {x}) /\ IntegerOn(f, t) /\ IntegerOn(g, t)
        /\ h[x] = f[x] + g[x] /\ f[x] \in Int /\ g[x] \in Int
    BY FS_Subset DEF IntegerOn
  <2>2. SumOn(f, t) \in Int /\ SumOn(g, t) \in Int
    BY <2>1, SumOnIsWhole
  <2>3. SumOn(f, t \cup {x}) = SumOn(f, t) + f[x]
    BY <2>1, SumGrows
  <2>4. SumOn(g, t \cup {x}) = SumOn(g, t) + g[x]
    BY <2>1, SumGrows
  <2>5. SumOn(h, t \cup {x}) = SumOn(h, t) + h[x]
    BY <2>1, SumGrows
  <2>6. SumOn(h, t) = SumOn(f, t) + SumOn(g, t)
    BY <1>2
  <2>7. SumOn(h, t \cup {x}) = SumOn(f, t \cup {x}) + SumOn(g, t \cup {x})
    BY <2>1, <2>2, <2>3, <2>4, <2>5, <2>6
  <2> QED  BY <2>7
<1>3. S \in G
  <2> HIDE DEF G
  <2> QED  BY <1>1, <1>2, FiniteSetGrows
<1> QED  BY <1>3

LEMMA SumScaled ==
    ASSUME NEW S, IsFiniteSet(S), NEW c \in Int, NEW f, NEW g, IntegerOn(f, S),
           \A x \in S : g[x] = c * f[x]
    PROVE  SumOn(g, S) = c * SumOn(f, S)
<1> DEFINE G == {t \in SUBSET S : SumOn(g, t) = c * SumOn(f, t)}
<1>1. {} \in G
  BY SumOfEmpty
<1>2. ASSUME NEW t \in SUBSET S, NEW x \in S \ t, t \in G  PROVE t \cup {x} \in G
  <2>1. /\ IsFiniteSet(t) /\ x \notin t /\ IntegerOn(f, t \cup {x}) /\ IntegerOn(g, t \cup {x})
        /\ IntegerOn(f, t) /\ g[x] = c * f[x] /\ f[x] \in Int
    BY FS_Subset DEF IntegerOn
  <2>2. SumOn(f, t) \in Int
    BY <2>1, SumOnIsWhole
  <2>3. SumOn(f, t \cup {x}) = SumOn(f, t) + f[x]
    BY <2>1, SumGrows
  <2>4. SumOn(g, t \cup {x}) = SumOn(g, t) + g[x]
    BY <2>1, SumGrows
  <2>5. SumOn(g, t) = c * SumOn(f, t)
    BY <1>2
  <2>6. SumOn(g, t \cup {x}) = c * SumOn(f, t \cup {x})
    BY <2>1, <2>2, <2>3, <2>4, <2>5
  <2> QED  BY <2>6
<1>3. S \in G
  <2> HIDE DEF G
  <2> QED  BY <1>1, <1>2, FiniteSetGrows
<1> QED  BY <1>3

LEMMA SumUnion ==
    ASSUME NEW S, IsFiniteSet(S), NEW T, IsFiniteSet(T), S \cap T = {}, NEW f,
           IntegerOn(f, S \cup T)
    PROVE  SumOn(f, S \cup T) = SumOn(f, S) + SumOn(f, T)
<1> DEFINE G == {t \in SUBSET T : SumOn(f, S \cup t) = SumOn(f, S) + SumOn(f, t)}
<1>0. SumOn(f, S) \in Int
  BY SumOnIsWhole DEF IntegerOn
<1>1. {} \in G
  <2>1. S \cup {} = S
    OBVIOUS
  <2> QED  BY <1>0, <2>1, SumOfEmpty
<1>2. ASSUME NEW t \in SUBSET T, NEW x \in T \ t, t \in G  PROVE t \cup {x} \in G
  <2>1. IsFiniteSet(t) /\ IsFiniteSet(S \cup t)
    BY FS_Subset, FS_Union
  <2>2. /\ x \notin t /\ x \notin S \cup t /\ IntegerOn(f, t \cup {x}) /\ IntegerOn(f, t)
        /\ IntegerOn(f, (S \cup t) \cup {x}) /\ f[x] \in Int
    BY DEF IntegerOn
  <2>3. SumOn(f, t) \in Int
    BY <2>1, <2>2, SumOnIsWhole
  <2>4. SumOn(f, t \cup {x}) = SumOn(f, t) + f[x]
    BY <2>1, <2>2, SumGrows
  <2>5. SumOn(f, (S \cup t) \cup {x}) = SumOn(f, S \cup t) + f[x]
    BY <2>1, <2>2, SumGrows
  <2>6. SumOn(f, S \cup t) = SumOn(f, S) + SumOn(f, t)
    BY <1>2
  <2>7. (S \cup t) \cup {x} = S \cup (t \cup {x})
    OBVIOUS
  <2>8. SumOn(f, S \cup (t \cup {x})) = SumOn(f, S \cup t) + f[x]
    BY <2>5, <2>7, Zenon
  <2>9. SumOn(f, S \cup (t \cup {x})) = SumOn(f, S) + SumOn(f, t \cup {x})
    BY <1>0, <2>2, <2>3, <2>4, <2>6, <2>8
  <2> QED  BY <2>9
<1>3. T \in G
  <2> HIDE DEF G
  <2> QED  BY <1>1, <1>2, FiniteSetGrows
<1> QED  BY <1>3

LEMMA SumOfZeros ==
    ASSUME NEW S, IsFiniteSet(S), NEW f, \A x \in S : f[x] = 0
    PROVE  SumOn(f, S) = 0
<1> DEFINE one == [x \in S |-> 0]
<1>1. IntegerOn(one, S) /\ \A x \in S : f[x] = 0 * one[x]
  BY DEF IntegerOn
<1> HIDE DEF one
<1>2. SumOn(f, S) = 0 * SumOn(one, S) /\ SumOn(one, S) \in Int
  BY <1>1, SumScaled, SumOnIsWhole
<1> QED  BY <1>2

\* What is zero outside a part adds up to the sum over the part.
LEMMA SumOfSupport ==
    ASSUME NEW S, IsFiniteSet(S), NEW T \in SUBSET S, NEW f, IntegerOn(f, T),
           \A x \in S \ T : f[x] = 0
    PROVE  SumOn(f, S) = SumOn(f, T)
<1>1. /\ IsFiniteSet(T) /\ IsFiniteSet(S \ T) /\ T \cap (S \ T) = {} /\ T \cup (S \ T) = S
  BY FS_Subset, FS_Difference
<1>2. IntegerOn(f, T \cup (S \ T))
  BY DEF IntegerOn
<1>3. SumOn(f, S) = SumOn(f, T) + SumOn(f, S \ T)
  <2>1. SumOn(f, T \cup (S \ T)) = SumOn(f, T) + SumOn(f, S \ T)
    BY <1>1, <1>2, SumUnion
  <2> QED  BY <1>1, <2>1, Zenon
<1>4. SumOn(f, S \ T) = 0
  BY <1>1, SumOfZeros
<1>5. SumOn(f, T) \in Int
  BY <1>1, SumOnIsWhole
<1> QED  BY <1>3, <1>4, <1>5

LEMMA SumOfOne ==
    ASSUME NEW S, IsFiniteSet(S), NEW a \in S, NEW f, f[a] \in Int, \A x \in S \ {a} : f[x] = 0
    PROVE  SumOn(f, S) = f[a]
<1>1. SumOn(f, S) = SumOn(f, {a})
  BY SumOfSupport DEF IntegerOn
<1>2. SumOn(f, {} \cup {a}) = SumOn(f, {}) + f[a] /\ {} \cup {a} = {a}
  BY SumGrows, FS_EmptySet DEF IntegerOn
<1> QED  BY <1>1, <1>2, SumOfEmpty

LEMMA SumOfOneOrNone ==
    ASSUME NEW S, IsFiniteSet(S), NEW a, NEW w \in Int, NEW f,
           \A x \in S : f[x] = IF x = a THEN w ELSE 0
    PROVE  SumOn(f, S) = IF a \in S THEN w ELSE 0
<1>1. CASE a \in S
  <2>1. f[a] = w /\ \A x \in S \ {a} : f[x] = 0
    BY <1>1
  <2> QED  BY <1>1, <2>1, SumOfOne
<1>2. CASE a \notin S
  <2>1. \A x \in S : f[x] = 0
    BY <1>2
  <2> QED  BY <1>2, <2>1, SumOfZeros
<1> QED  BY <1>1, <1>2

\* A sum over other indices, one for one.
Indices(to, S) == {to[x] : x \in S}

LEMMA SumReindexed ==
    ASSUME NEW S, IsFiniteSet(S), NEW to, \A x, y \in S : to[x] = to[y] => x = y,
           NEW f, NEW g, IntegerOn(f, S), \A x \in S : g[to[x]] = f[x]
    PROVE  SumOn(g, Indices(to, S)) = SumOn(f, S) /\ IsFiniteSet(Indices(to, S))
<1> DEFINE G == {t \in SUBSET S : /\ IsFiniteSet({to[x] : x \in t})
                                  /\ SumOn(g, {to[x] : x \in t}) = SumOn(f, t)}
<1>1. {} \in G
  <2>1. {to[x] : x \in {}} = {}
    OBVIOUS
  <2> QED  BY <2>1, SumOfEmpty, FS_EmptySet
<1>2. ASSUME NEW t \in SUBSET S, NEW x \in S \ t, t \in G  PROVE t \cup {x} \in G
  <2> DEFINE image == {to[y] : y \in t}
  <2>1. {to[y] : y \in t \cup {x}} = image \cup {to[x]}
    OBVIOUS
  <2>2. to[x] \notin image
    OBVIOUS
  <2>3. IsFiniteSet(image) /\ SumOn(g, image) = SumOn(f, t)
    BY <1>2
  <2>4. IntegerOn(g, image \cup {to[x]}) /\ g[to[x]] = f[x]
    BY DEF IntegerOn
  <2> HIDE DEF image
  <2>5. SumOn(g, image \cup {to[x]}) = SumOn(g, image) + g[to[x]]
    BY <2>2, <2>3, <2>4, SumGrows
  <2>6. IsFiniteSet(t) /\ x \notin t /\ IntegerOn(f, t \cup {x})
    BY FS_Subset DEF IntegerOn
  <2>7. SumOn(f, t \cup {x}) = SumOn(f, t) + f[x]
    BY <2>6, SumGrows
  <2>8. IsFiniteSet(image \cup {to[x]})
    BY <2>3, FS_AddElement
  <2> QED  BY <2>1, <2>3, <2>4, <2>5, <2>7, <2>8
<1>3. S \in G
  <2> HIDE DEF G
  <2> QED  BY <1>1, <1>2, FiniteSetGrows
<1> QED  BY <1>3 DEF Indices

Column(f, S, y) == [x \in S |-> f[x][y]]

\* The order of summation may be exchanged.
LEMMA SumExchanged ==
    ASSUME NEW S, IsFiniteSet(S), NEW T, IsFiniteSet(T), NEW f,
           \A x \in S : IntegerOn(f[x], T), NEW rows, NEW columns,
           \A x \in S : rows[x] = SumOn(f[x], T),
           \A y \in T : columns[y] = SumOn(Column(f, S, y), S)
    PROVE  SumOn(rows, S) = SumOn(columns, T)
<1> DEFINE partly(t) == [y \in T |-> SumOn(Column(f, S, y), t)]
           G == {t \in SUBSET S : SumOn(rows, t) = SumOn(partly(t), T)}
<1>1. {} \in G
  <2>1. \A y \in T : partly({})[y] = 0
    BY SumOfEmpty
  <2> HIDE DEF partly
  <2> QED  BY <2>1, SumOfEmpty, SumOfZeros
<1>2. ASSUME NEW t \in SUBSET S, NEW x \in S \ t, t \in G  PROVE t \cup {x} \in G
  <2>1. IsFiniteSet(t) /\ x \notin t /\ IsFiniteSet(t \cup {x}) /\ t \cup {x} \in SUBSET S
    BY FS_Subset
  <2>2. ASSUME NEW y \in T
        PROVE  /\ partly(t \cup {x})[y] = partly(t)[y] + f[x][y]
               /\ partly(t)[y] \in Int /\ f[x][y] \in Int
    <3> DEFINE at == Column(f, S, y)
    <3>1. \A z \in S : at[z] = f[z][y] /\ f[z][y] \in Int
      BY DEF IntegerOn, Column
    <3> HIDE DEF at
    <3>2. IntegerOn(at, t \cup {x}) /\ IntegerOn(at, t) /\ at[x] = f[x][y] /\ at[x] \in Int
      BY <3>1 DEF IntegerOn
    <3>3. SumOn(at, t \cup {x}) = SumOn(at, t) + at[x]
      <4>1. IsFiniteSet(t) /\ x \notin t /\ IntegerOn(at, t \cup {x})
        BY <2>1, <3>2
      <4> QED  BY <4>1, SumGrows
    <3>4. SumOn(at, t) \in Int
      BY <2>1, <3>2, SumOnIsWhole
    <3> QED  BY <3>2, <3>3, <3>4 DEF at
  <2>3. \A z \in S : rows[z] \in Int
    BY SumOnIsWhole
  <2>4. SumOn(rows, t \cup {x}) = SumOn(rows, t) + rows[x]
    BY <2>1, <2>3, SumGrows DEF IntegerOn
  <2>5. SumOn(partly(t \cup {x}), T) = SumOn(partly(t), T) + SumOn(f[x], T)
    <3> DEFINE now == partly(t)
               row == f[x]
               next == partly(t \cup {x})
    <3>1. \A y \in T : next[y] = now[y] + row[y] /\ now[y] \in Int /\ row[y] \in Int
      BY <2>2
    <3> HIDE DEF now, row, next
    <3>2. IntegerOn(now, T) /\ IntegerOn(row, T)
      BY <3>1 DEF IntegerOn
    <3>3. SumOn(next, T) = SumOn(now, T) + SumOn(row, T)
      BY <3>1, <3>2, SumPlus
    <3> QED  BY <3>3 DEF now, row, next
  <2> HIDE DEF partly
  <2> QED  BY <1>2, <2>1, <2>4, <2>5
<1>3. S \in G
  <2> HIDE DEF G
  <2> QED  BY <1>1, <1>2, FiniteSetGrows
<1>4. SumOn(partly(S), T) = SumOn(columns, T)
  <2>1. \A y \in T : partly(S)[y] = columns[y]
    OBVIOUS
  <2> HIDE DEF partly
  <2> QED  BY <2>1, SumSame
<1> HIDE DEF partly
<1> QED  BY <1>3, <1>4

Joined(part, S) == UNION {part[x] : x \in S}

\* A sum over disjoint sets, set by set.
LEMMA SumOfParts ==
    ASSUME NEW S, IsFiniteSet(S), NEW part, NEW f, NEW sums,
           \A x \in S : /\ IsFiniteSet(part[x]) /\ IntegerOn(f, part[x])
                        /\ sums[x] = SumOn(f, part[x]),
           \A x, y \in S : x # y => part[x] \cap part[y] = {}
    PROVE  SumOn(sums, S) = SumOn(f, Joined(part, S))
<1> DEFINE whole(t) == UNION {part[x] : x \in t}
           G == {t \in SUBSET S : /\ IsFiniteSet(whole(t))
                                  /\ SumOn(sums, t) = SumOn(f, whole(t))}
<1>1. {} \in G
  <2>1. whole({}) = {}
    OBVIOUS
  <2> HIDE DEF whole
  <2> QED  BY <2>1, SumOfEmpty, FS_EmptySet
<1>2. ASSUME NEW t \in SUBSET S, NEW x \in S \ t, t \in G  PROVE t \cup {x} \in G
  <2>1. /\ whole(t \cup {x}) = whole(t) \cup part[x] /\ whole(t) \cap part[x] = {}
        /\ IntegerOn(f, whole(t) \cup part[x])
    BY DEF IntegerOn
  <2>2. IsFiniteSet(whole(t)) /\ SumOn(sums, t) = SumOn(f, whole(t)) /\ IsFiniteSet(part[x])
    BY <1>2
  <2>3. \A z \in S : sums[z] \in Int
    BY SumOnIsWhole
  <2>4. SumOn(sums, t \cup {x}) = SumOn(sums, t) + sums[x]
    BY <2>3, SumGrows, FS_Subset DEF IntegerOn
  <2> HIDE DEF whole
  <2>5. SumOn(f, whole(t) \cup part[x]) = SumOn(f, whole(t)) + SumOn(f, part[x])
    BY <2>1, <2>2, SumUnion
  <2>6. IsFiniteSet(whole(t) \cup part[x])
    BY <2>2, FS_Union
  <2>7. SumOn(sums, t \cup {x}) = SumOn(f, whole(t \cup {x}))
    BY <2>1, <2>2, <2>4, <2>5
  <2> QED  BY <2>1, <2>6, <2>7
<1>3. S \in G
  <2> HIDE DEF G
  <2> QED  BY <1>1, <1>2, FiniteSetGrows
<1> QED  BY <1>3 DEF Joined

-----------------------------------------------------------------------------
(* Functions defined along a rank                                          *)

\* What is made of a function at an index is made of its values at indices of lower rank.
LooksDown(D, V, rank, make) ==
    \A n \in D : \A g, h \in [D -> V] :
        (\A k \in D : rank[k] < rank[n] => g[k] = h[k]) => make[g][n] = make[h][n]

HasFixpoint(D, V, make) == \E f \in [D -> V] : make[f] = f

LEMMA RecursionExists ==
    ASSUME NEW D, NEW V, NEW v \in V, NEW rank \in [D -> Nat],
           NEW make \in [[D -> V] -> [D -> V]], LooksDown(D, V, rank, make)
    PROVE  HasFixpoint(D, V, make)
<1> DEFINE F == [D -> V]
           start == [n \in D |-> v]
           step == [k \in Nat \ {0} |-> make]
<1>1. PICK table \in [Nat -> F] : Iterates(table, start, step)
  <2>1. start \in F /\ step \in [Nat \ {0} -> [F -> F]]
    OBVIOUS
  <2> HIDE DEF F, start, step
  <2> QED  BY <2>1, IterationExists
<1>2. ASSUME NEW k \in Nat  PROVE table[k + 1] = make[table[k]] /\ table[k] \in F
  <2>1. k + 1 \in Nat \ {0} /\ (k + 1) - 1 = k
    OBVIOUS
  <2>2. table[k + 1] = step[k + 1][table[k]]
    <3> HIDE DEF step, start, F
    <3> QED  BY <1>1, <2>1 DEF Iterates
  <2> QED  BY <1>1, <2>1, <2>2
<1> HIDE DEF start, step
<1>3. \A n \in D : \A g, h \in F :
        (\A k \in D : rank[k] < rank[n] => g[k] = h[k]) => make[g][n] = make[h][n]
  BY DEF LooksDown
\* The value at an index has settled after as many steps as its rank.
<1> DEFINE Unsettled(n, k) == rank[n] < k /\ table[k][n] # table[rank[n] + 1][n]
           bad == {rank[n] : n \in {i \in D : \E k \in Nat : Unsettled(i, k)}}
<1>4. bad = {}
  <2> SUFFICES ASSUME bad # {}  PROVE FALSE
    OBVIOUS
  <2>1. PICK least \in bad : \A y \in bad : least <= y
    <3>1. bad \subseteq Nat
      OBVIOUS
    <3> HIDE DEF bad
    <3> QED  BY <3>1, FirstExists
  <2>2. PICK n \in D : least = rank[n] /\ \E k \in Nat : Unsettled(n, k)
    BY <2>1
  <2>3. PICK k \in Nat : Unsettled(n, k)
    BY <2>2
  <2>4. rank[n] \in Nat /\ k - 1 \in Nat /\ rank[n] <= k - 1 /\ (k - 1) + 1 = k
    BY <2>3
  <2>5. ASSUME NEW i \in D, rank[i] < rank[n]  PROVE table[k - 1][i] = table[rank[n]][i]
    <3>1. rank[i] \in Nat /\ rank[i] \notin bad
      <4>1. rank[i] \in Nat /\ rank[n] \in Nat /\ ~ (rank[n] <= rank[i])
        BY <2>5
      <4> HIDE DEF bad
      <4> QED  BY <2>1, <2>2, <4>1
    <3>2. ~ Unsettled(i, k - 1) /\ ~ Unsettled(i, rank[n])
      BY <2>4, <3>1
    <3>3. rank[i] < k - 1
      BY <2>4, <2>5, <3>1
    <3> QED  BY <2>5, <3>2, <3>3
  <2>6. table[k] = make[table[k - 1]] /\ table[rank[n] + 1] = make[table[rank[n]]]
    BY <1>2, <2>4
  <2>7. table[k - 1] \in F /\ table[rank[n]] \in F
    BY <1>2, <2>4
  <2> DEFINE g == table[k - 1]
             h == table[rank[n]]
  <2>8. g \in F /\ h \in F /\ \A i \in D : rank[i] < rank[n] => g[i] = h[i]
    BY <2>5, <2>7
  <2>9. make[g][n] = make[h][n]
    <3> HIDE DEF g, h, F
    <3> QED  BY <1>3, <2>2, <2>8
  <2> QED  BY <2>3, <2>6, <2>9
<1>5. \A n \in D : \A k \in Nat : rank[n] < k => table[k][n] = table[rank[n] + 1][n]
  <2>1. ASSUME NEW n \in D, NEW k \in Nat  PROVE ~ Unsettled(n, k)
    <3> SUFFICES ASSUME Unsettled(n, k)  PROVE FALSE
      OBVIOUS
    <3>1. n \in {i \in D : \E l \in Nat : Unsettled(i, l)}
      BY <2>1
    <3>2. rank[n] \in bad
      <4> HIDE DEF Unsettled
      <4> QED  BY <3>1
    <3> QED  BY <1>4, <3>2
  <2> QED  BY <2>1
<1> DEFINE f == [n \in D |-> table[rank[n] + 1][n]]
<1>6. \A n \in D : rank[n] \in Nat /\ rank[n] + 1 \in Nat
  OBVIOUS
<1>7. f \in F
  BY <1>2, <1>6
<1>8. ASSUME NEW n \in D  PROVE make[f][n] = f[n]
  <2>1. f[n] = make[table[rank[n]]][n] /\ table[rank[n]] \in F
    BY <1>2, <1>6
  <2>2. ASSUME NEW i \in D, rank[i] < rank[n]  PROVE f[i] = table[rank[n]][i]
    <3>1. table[rank[n]][i] = table[rank[i] + 1][i]
      BY <1>6, <1>5, <2>2
    <3> QED  BY <3>1
  <2> HIDE DEF f
  <2>3. make[f][n] = make[table[rank[n]]][n]
    BY <1>7, <2>1, <2>2 DEF LooksDown
  <2> QED  BY <2>1, <2>3
<1>9. make[f] \in F
  BY <1>7
<1>10. make[f] = f
  <2> HIDE DEF f
  <2> QED  BY <1>7, <1>8, <1>9
<1> QED  BY <1>7, <1>10 DEF HasFixpoint
=============================================================================
