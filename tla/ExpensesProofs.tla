--------------------------- MODULE ExpensesProofs ---------------------------
(***************************************************************************)
(* Expenses: types, foreign keys, the faithfulness of summaries, and that  *)
(* the transfers of a summary settle its bill.                             *)
(*                                                                         *)
(* A summary reads three times while others write.  Its ids are of the     *)
(* past, and the sequence gives none of them away again: what still stands *)
(* under an id that it found is the expense that it found.  An expense     *)
(* itself only loses participants, together with their accounts.           *)
(*                                                                         *)
(* A bill is settled as follows.  The shares of an expense add up to its   *)
(* amount, as one cent more goes to as many participants as cents are      *)
(* left; so balances add up to what was paid for nobody.  What is open in  *)
(* the two lists of the loop is what the transfers so far have not         *)
(* cleared, and every turn closes one balance at least: the loop ends in   *)
(* time, with no debtor left, since what remains adds up to nothing        *)
(* negative.                                                               *)
(***************************************************************************)
EXTENDS Expenses, FiniteSetTheorems, SequenceTheorems, TLAPS

-----------------------------------------------------------------------------
\* Sums over finite sets.

\* What MapThenFoldSet takes from a set first.
Pick(S) == CHOOSE x \in S : TRUE

\* The sum over a set, and the function on its subsets that defines it.
SumOf(f, S) == SumFunctionOnSet(f, S)

Adds(g, f, S) ==
    g = [s \in SUBSET S |-> IF s = {} THEN 0 ELSE f[Pick(s)] + g[s \ {Pick(s)}]]

LEMMA PickIsThere == \A S : S # {} => Pick(S) \in S
  BY DEF Pick

\* Induction over a finite set: what fails for some subset fails for one that is
\* minimal.
LEMMA MinimalSubset ==
    ASSUME NEW S, IsFiniteSet(S), NEW F \in SUBSET (SUBSET S), F # {}
    PROVE  \E A \in F : \A B \in F : B \subseteq A => B = A
<1>1. IsWellFoundedOn(StrictSubsetOrdering(S), SUBSET S)
  BY FS_StrictSubsetOrderingWellFounded, FS_FiniteSubsetsOfFinite
<1>2. PICK A \in F : \A B \in F : <<B, A>> \notin StrictSubsetOrdering(S)
  BY <1>1, WFMin
<1>3. QED
  BY <1>2 DEF StrictSubsetOrdering

LEMMA AddsApart ==
    ASSUME NEW g, NEW f, NEW S, Adds(g, f, S)
    PROVE  \A s \in SUBSET S :
              g[s] = IF s = {} THEN 0 ELSE f[Pick(s)] + g[s \ {Pick(s)}]
  BY DEF Adds

LEMMA AddsTheSame ==
    ASSUME NEW S, IsFiniteSet(S), NEW f, NEW A \in SUBSET S, NEW B \in SUBSET S,
           NEW g, NEW h, Adds(g, f, A), Adds(h, f, B)
    PROVE  \A C \in SUBSET (A \cap B) : g[C] = h[C]
<1> DEFINE F == {C \in SUBSET (A \cap B) : g[C] # h[C]}
<1>1. SUFFICES ASSUME F # {} PROVE FALSE
  OBVIOUS
<1>2. PICK C \in F : \A D \in F : D \subseteq C => D = C
  <2>1. F \in SUBSET (SUBSET S)
    OBVIOUS
  <2> HIDE DEF F
  <2>2. QED
    BY <1>1, <2>1, MinimalSubset
<1>3. C # {}
  BY AddsApart
<1>4. Pick(C) \in C /\ C \ {Pick(C)} \in SUBSET (A \cap B)
  BY <1>3, PickIsThere
<1>5. g[C \ {Pick(C)}] = h[C \ {Pick(C)}]
  BY <1>2, <1>4
<1>6. g[C] = f[Pick(C)] + g[C \ {Pick(C)}] /\ h[C] = f[Pick(C)] + h[C \ {Pick(C)}]
  BY <1>3, AddsApart
<1>7. QED
  BY <1>5, <1>6

LEMMA SumsExist ==
    ASSUME NEW S, IsFiniteSet(S), NEW f
    PROVE  \E g : Adds(g, f, S)
<1> DEFINE F == {A \in SUBSET S : ~ \E g : Adds(g, f, A)}
<1>1. SUFFICES ASSUME F # {} PROVE FALSE
  OBVIOUS
<1>2. PICK A \in F : \A B \in F : B \subseteq A => B = A
  <2>1. F \in SUBSET (SUBSET S)
    OBVIOUS
  <2> HIDE DEF F
  <2>2. QED
    BY <1>1, <2>1, MinimalSubset
<1> DEFINE below(B) == CHOOSE g : Adds(g, f, B)
           at(B) == below(B)[B]
           top == [s \in SUBSET A |-> IF s = {} THEN 0
                                      ELSE f[Pick(s)] + at(s \ {Pick(s)})]
<1>3. \A B \in SUBSET A : B # A => Adds(below(B), f, B)
  <2>1. SUFFICES ASSUME NEW B \in SUBSET A, B # A PROVE Adds(below(B), f, B)
    OBVIOUS
  <2>2. \E g : Adds(g, f, B)
    BY <1>2, <2>1
  <2>3. QED
    BY <2>2
<1>4. ASSUME NEW t \in SUBSET A, t # A
      PROVE  at(t) = IF t = {} THEN 0 ELSE f[Pick(t)] + at(t \ {Pick(t)})
  <2> HIDE DEF below
  <2>1. Adds(below(t), f, t)
    BY <1>3, <1>4
  <2>2. at(t) = IF t = {} THEN 0 ELSE f[Pick(t)] + below(t)[t \ {Pick(t)}]
    BY <2>1, AddsApart
  <2>3. CASE t # {}
    <3> DEFINE u == t \ {Pick(t)}
    <3>1. u \in SUBSET A /\ u # A /\ u \subseteq t
      BY <1>4, <2>3, PickIsThere
    <3>2. Adds(below(u), f, u)
      BY <1>3, <3>1
    <3>3. below(t)[u] = below(u)[u]
      BY <2>1, <3>1, <3>2, AddsTheSame
    <3>4. QED
      BY <2>2, <2>3, <3>3
  <2>4. QED
    BY <2>2, <2>3
<1>5. Adds(top, f, A)
  <2> HIDE DEF below, at
  <2>1. ASSUME NEW s \in SUBSET A, s # {}
        PROVE  at(s \ {Pick(s)}) = top[s \ {Pick(s)}]
    <3> DEFINE t == s \ {Pick(s)}
    <3>1. t \in SUBSET A /\ t # A
      BY <2>1, PickIsThere
    <3>2. at(t) = IF t = {} THEN 0 ELSE f[Pick(t)] + at(t \ {Pick(t)})
      BY <1>4, <3>1
    <3>3. top[t] = IF t = {} THEN 0 ELSE f[Pick(t)] + at(t \ {Pick(t)})
      BY <3>1
    <3>4. QED
      BY <3>2, <3>3
  <2>2. top = [s \in SUBSET A |-> IF s = {} THEN 0 ELSE f[Pick(s)] + top[s \ {Pick(s)}]]
    BY <2>1
  <2>3. QED
    BY <2>2 DEF Adds
<1>6. QED
  BY <1>2, <1>5

LEMMA SumIsAdded ==
    ASSUME NEW S, IsFiniteSet(S), NEW f
    PROVE  \E g : Adds(g, f, S) /\ SumOf(f, S) = g[S]
<1> DEFINE g == CHOOSE g : Adds(g, f, S)
<1>1. Adds(g, f, S)
  BY SumsExist
<1>2. SumOf(f, S) = g[S]
  BY DEF SumOf, SumFunctionOnSet, FoldFunctionOnSet, MapThenFoldSet, Adds, Pick
<1>3. QED
  BY <1>1, <1>2

LEMMA SumEmpty == \A f : SumOf(f, {}) = 0
<1>1. SUFFICES ASSUME NEW f PROVE SumOf(f, {}) = 0
  OBVIOUS
<1>2. PICK g : Adds(g, f, {}) /\ SumOf(f, {}) = g[{}]
  BY SumIsAdded, FS_EmptySet
<1>3. QED
  BY <1>2, AddsApart

LEMMA SumPicks ==
    ASSUME NEW S, IsFiniteSet(S), S # {}, NEW f
    PROVE  SumOf(f, S) = f[Pick(S)] + SumOf(f, S \ {Pick(S)})
<1> DEFINE T == S \ {Pick(S)}
<1>1. IsFiniteSet(T)
  BY FS_RemoveElement
<1>2. PICK g : Adds(g, f, S) /\ SumOf(f, S) = g[S]
  BY SumIsAdded
<1>3. PICK h : Adds(h, f, T) /\ SumOf(f, T) = h[T]
  BY <1>1, SumIsAdded
<1>4. g[T] = h[T]
  <2>1. S \in SUBSET S /\ T \in SUBSET S /\ T \in SUBSET (S \cap T)
    OBVIOUS
  <2> HIDE DEF T
  <2>2. QED
    BY <1>2, <1>3, <2>1, AddsTheSame
<1>5. QED
  BY <1>2, <1>3, <1>4, AddsApart

\* A sum of integers is an integer, and of naturals a natural.
LEMMA SumTyped ==
    ASSUME NEW S, IsFiniteSet(S), NEW f, \A x \in S : f[x] \in Int
    PROVE  /\ SumOf(f, S) \in Int
           /\ (\A x \in S : f[x] >= 0) => SumOf(f, S) >= 0
<1> DEFINE Good(A) == /\ SumOf(f, A) \in Int
                      /\ (\A x \in A : f[x] >= 0) => SumOf(f, A) >= 0
           F == {A \in SUBSET S : ~Good(A)}
<1>1. SUFFICES ASSUME F # {} PROVE FALSE
  OBVIOUS
<1>2. PICK A \in F : \A B \in F : B \subseteq A => B = A
  <2>1. F \in SUBSET (SUBSET S)
    OBVIOUS
  <2> HIDE DEF F
  <2>2. QED
    BY <1>1, <2>1, MinimalSubset
<1>3. A # {}
  BY SumEmpty
<1> DEFINE x == Pick(A)
<1>4. x \in A /\ A \ {x} \in SUBSET S /\ A \ {x} # A
  BY <1>3, PickIsThere
<1>5. Good(A \ {x})
  BY <1>2, <1>4
<1>6. SumOf(f, A) = f[x] + SumOf(f, A \ {x})
  BY <1>3, SumPicks, FS_Subset
<1>7. Good(A)
  <2> HIDE DEF x
  <2>1. QED
    BY <1>4, <1>5, <1>6
<1>8. QED
  BY <1>2, <1>7

\* Whichever element is taken out.
LEMMA SumTakesOut ==
    ASSUME NEW S, IsFiniteSet(S), NEW f, \A y \in S : f[y] \in Int
    PROVE  \A x \in S : SumOf(f, S) = f[x] + SumOf(f, S \ {x})
<1> DEFINE Good(A) == \A x \in A : SumOf(f, A) = f[x] + SumOf(f, A \ {x})
           F == {A \in SUBSET S : ~Good(A)}
<1>1. SUFFICES ASSUME F # {} PROVE FALSE
  OBVIOUS
<1>2. PICK A \in F : \A B \in F : B \subseteq A => B = A
  <2>1. F \in SUBSET (SUBSET S)
    OBVIOUS
  <2> HIDE DEF F
  <2>2. QED
    BY <1>1, <2>1, MinimalSubset
<1>3. PICK x \in A : SumOf(f, A) # f[x] + SumOf(f, A \ {x})
  OBVIOUS
<1> DEFINE p == Pick(A)
           C == A \ {p, x}
<1>4. p \in A /\ A \in SUBSET S
  BY <1>3, PickIsThere
<1>5. SumOf(f, A) = f[p] + SumOf(f, A \ {p})
  BY <1>3, <1>4, SumPicks, FS_Subset
<1>6. p # x
  BY <1>3, <1>5
<1> HIDE DEF p
<1>7. SumOf(f, A \ {p}) = f[x] + SumOf(f, C)
  <2>1. Good(A \ {p})
    BY <1>2, <1>4
  <2>2. x \in A \ {p} /\ (A \ {p}) \ {x} = C
    BY <1>6
  <2>3. QED
    BY <2>1, <2>2
<1>8. SumOf(f, A \ {x}) = f[p] + SumOf(f, C)
  <2>1. Good(A \ {x})
    BY <1>2, <1>4
  <2>2. p \in A \ {x} /\ (A \ {x}) \ {p} = C
    BY <1>4, <1>6
  <2>3. QED
    BY <2>1, <2>2
<1>9. /\ f[p] \in Int /\ f[x] \in Int
      /\ SumOf(f, C) \in Int
  BY <1>4, SumTyped, FS_Subset
<1>10. QED
  BY <1>3, <1>5, <1>7, <1>8, <1>9

\* Sums over the same summands are the same.
LEMMA SumsAgree ==
    ASSUME NEW S, IsFiniteSet(S), NEW f, NEW g, \A x \in S : f[x] = g[x]
    PROVE  SumOf(f, S) = SumOf(g, S)
<1> DEFINE F == {A \in SUBSET S : SumOf(f, A) # SumOf(g, A)}
<1>1. SUFFICES ASSUME F # {} PROVE FALSE
  OBVIOUS
<1>2. PICK A \in F : \A B \in F : B \subseteq A => B = A
  <2>1. F \in SUBSET (SUBSET S)
    OBVIOUS
  <2> HIDE DEF F
  <2>2. QED
    BY <1>1, <2>1, MinimalSubset
<1>3. A # {}
  BY SumEmpty
<1> DEFINE p == Pick(A)
<1>4. p \in A /\ A \in SUBSET S /\ IsFiniteSet(A)
  BY <1>3, PickIsThere, FS_Subset
<1>5. SumOf(f, A) = f[p] + SumOf(f, A \ {p}) /\ SumOf(g, A) = g[p] + SumOf(g, A \ {p})
  BY <1>3, <1>4, SumPicks
<1>6. SumOf(f, A \ {p}) = SumOf(g, A \ {p})
  BY <1>2, <1>4
<1>7. QED
  BY <1>4, <1>5, <1>6

LEMMA SumOfZeros ==
    ASSUME NEW S, IsFiniteSet(S), NEW f, \A x \in S : f[x] = 0
    PROVE  SumOf(f, S) = 0
<1> DEFINE F == {A \in SUBSET S : SumOf(f, A) # 0}
<1>1. SUFFICES ASSUME F # {} PROVE FALSE
  OBVIOUS
<1>2. PICK A \in F : \A B \in F : B \subseteq A => B = A
  <2>1. F \in SUBSET (SUBSET S)
    OBVIOUS
  <2> HIDE DEF F
  <2>2. QED
    BY <1>1, <2>1, MinimalSubset
<1>3. A # {}
  BY SumEmpty
<1> DEFINE p == Pick(A)
<1>4. p \in A /\ A \in SUBSET S /\ IsFiniteSet(A)
  BY <1>3, PickIsThere, FS_Subset
<1>5. SumOf(f, A) = f[p] + SumOf(f, A \ {p})
  BY <1>3, <1>4, SumPicks
<1>6. SumOf(f, A \ {p}) = 0
  BY <1>2, <1>4
<1>7. QED
  BY <1>4, <1>5, <1>6

\* Sums of sums.
LEMMA SumsAdd ==
    ASSUME NEW S, IsFiniteSet(S), NEW f, NEW g, NEW h,
           \A x \in S : f[x] \in Int /\ g[x] \in Int /\ h[x] = f[x] + g[x]
    PROVE  SumOf(h, S) = SumOf(f, S) + SumOf(g, S)
<1> DEFINE F == {A \in SUBSET S : SumOf(h, A) # SumOf(f, A) + SumOf(g, A)}
<1>1. SUFFICES ASSUME F # {} PROVE FALSE
  OBVIOUS
<1>2. PICK A \in F : \A B \in F : B \subseteq A => B = A
  <2>1. F \in SUBSET (SUBSET S)
    OBVIOUS
  <2> HIDE DEF F
  <2>2. QED
    BY <1>1, <2>1, MinimalSubset
<1>3. A # {}
  <2>1. SUFFICES ASSUME A = {} PROVE FALSE
    OBVIOUS
  <2>2. SumOf(f, A) = 0 /\ SumOf(g, A) = 0 /\ SumOf(h, A) = 0
    BY <2>1, SumEmpty
  <2>3. SumOf(h, A) # SumOf(f, A) + SumOf(g, A)
    OBVIOUS
  <2>4. SumOf(h, A) # 0 + 0
    BY <2>2, <2>3
  <2>5. QED
    BY <2>2, <2>4
<1> DEFINE p == Pick(A)
<1>4. p \in A /\ A \in SUBSET S /\ IsFiniteSet(A) /\ IsFiniteSet(A \ {p})
  BY <1>3, PickIsThere, FS_Subset, FS_RemoveElement
<1>5. /\ SumOf(f, A) = f[p] + SumOf(f, A \ {p})
      /\ SumOf(g, A) = g[p] + SumOf(g, A \ {p})
      /\ SumOf(h, A) = h[p] + SumOf(h, A \ {p})
  BY <1>3, <1>4, SumPicks
<1>6. SumOf(h, A \ {p}) = SumOf(f, A \ {p}) + SumOf(g, A \ {p})
  BY <1>2, <1>4
<1>7. SumOf(f, A \ {p}) \in Int /\ SumOf(g, A \ {p}) \in Int
  BY <1>4, SumTyped
<1>8. f[p] \in Int /\ g[p] \in Int /\ h[p] = f[p] + g[p]
  BY <1>4
<1> HIDE DEF p
<1>9. QED
  BY <1>2, <1>5, <1>6, <1>7, <1>8

\* What is zero elsewhere need not be added.
LEMMA SumOfSome ==
    ASSUME NEW S, IsFiniteSet(S), NEW T \in SUBSET S, NEW f, NEW g,
           \A x \in T : f[x] = g[x] /\ g[x] \in Int,
           \A x \in S \ T : f[x] = 0
    PROVE  SumOf(f, S) = SumOf(g, T)
<1> DEFINE F == {A \in SUBSET S : SumOf(f, A) # SumOf(g, A \cap T)}
<1>1. SUFFICES ASSUME F # {} PROVE FALSE
  <2>1. S \cap T = T
    OBVIOUS
  <2>2. QED
    BY <1>1, <2>1
<1>2. PICK A \in F : \A B \in F : B \subseteq A => B = A
  <2>1. F \in SUBSET (SUBSET S)
    OBVIOUS
  <2> HIDE DEF F
  <2>2. QED
    BY <1>1, <2>1, MinimalSubset
<1>3. A # {}
  <2>1. {} \cap T = {}
    OBVIOUS
  <2>2. QED
    BY <2>1, SumEmpty
<1> DEFINE p == Pick(A)
           B == A \cap T
<1>4. /\ p \in A /\ A \in SUBSET S /\ IsFiniteSet(A)
      /\ B \in SUBSET S /\ B \subseteq T /\ IsFiniteSet(B)
      /\ (A \ {p}) \cap T = B \ {p}
      /\ SumOf(f, A) # SumOf(g, B)
  BY <1>3, PickIsThere, FS_Subset
<1> HIDE DEF p, B
<1>5. SumOf(f, A) = f[p] + SumOf(f, A \ {p})
  BY <1>3, <1>4, SumPicks DEF p
<1>6. SumOf(f, A \ {p}) = SumOf(g, B \ {p})
  BY <1>2, <1>4
<1>7. \A x \in B : g[x] \in Int
  BY <1>4
<1>8. SumOf(g, B) \in Int
  BY <1>4, <1>7, SumTyped
<1>9. CASE p \in B
  <2>1. SumOf(g, B) = g[p] + SumOf(g, B \ {p})
    BY <1>4, <1>7, <1>9, SumTakesOut
  <2>2. f[p] = g[p]
    BY <1>4, <1>9
  <2>3. QED
    BY <1>4, <1>5, <1>6, <2>1, <2>2
<1>10. CASE p \notin B
  <2>1. B \ {p} = B /\ f[p] = 0
    BY <1>4, <1>10 DEF B
  <2>2. SumOf(f, A) = 0 + SumOf(g, B)
    BY <1>5, <1>6, <2>1
  <2>3. QED
    BY <1>4, <1>8, <2>2
<1>11. QED
  BY <1>9, <1>10

LEMMA SumOfSame ==
    ASSUME NEW S, IsFiniteSet(S), NEW f, NEW c \in Int, \A x \in S : f[x] = c
    PROVE  SumOf(f, S) = c * Cardinality(S)
<1> DEFINE F == {A \in SUBSET S : SumOf(f, A) # c * Cardinality(A)}
<1>1. SUFFICES ASSUME F # {} PROVE FALSE
  OBVIOUS
<1>2. PICK A \in F : \A B \in F : B \subseteq A => B = A
  <2>1. F \in SUBSET (SUBSET S)
    OBVIOUS
  <2> HIDE DEF F
  <2>2. QED
    BY <1>1, <2>1, MinimalSubset
<1>3. A # {}
  BY SumEmpty, FS_EmptySet
<1> DEFINE p == Pick(A)
<1>4. p \in A /\ A \in SUBSET S /\ IsFiniteSet(A)
  BY <1>3, PickIsThere, FS_Subset
<1>5. SumOf(f, A) = c + SumOf(f, A \ {p})
  BY <1>3, <1>4, SumPicks
<1>6. SumOf(f, A \ {p}) = c * Cardinality(A \ {p})
  BY <1>2, <1>4
<1>7. Cardinality(A) \in Nat /\ Cardinality(A \ {p}) = Cardinality(A) - 1
  BY <1>4, FS_CardinalityType, FS_RemoveElement
<1> DEFINE n == Cardinality(A)
<1>8. c + c * (n - 1) = c * n
  <2> HIDE DEF n
  <2>1. ASSUME NEW k \in Int PROVE c + c * (k - 1) = c * k
    OBVIOUS
  <2>2. QED
    BY <1>7, <2>1 DEF n
<1>9. QED
  BY <1>2, <1>5, <1>6, <1>7, <1>8

\* A table is added by columns or by rows.
LEMMA SumsExchange ==
    ASSUME NEW X, IsFiniteSet(X), NEW U, IsFiniteSet(U), NEW m,
           \A x \in X, u \in U : m[x][u] \in Int
    PROVE  SumOf([u \in U |-> SumOf([x \in X |-> m[x][u]], X)], U)
             = SumOf([x \in X |-> SumOf(m[x], U)], X)
<1> DEFINE at(u)  == [x \in X |-> m[x][u]]
           col(A) == [u \in U |-> SumOf(at(u), A)]
           row    == [x \in X |-> SumOf(m[x], U)]
           F == {A \in SUBSET X : SumOf(col(A), U) # SumOf(row, A)}
<1>1. SUFFICES ASSUME F # {} PROVE FALSE
  OBVIOUS
<1>2. PICK A \in F : \A B \in F : B \subseteq A => B = A
  <2>1. F \in SUBSET (SUBSET X)
    OBVIOUS
  <2> HIDE DEF F
  <2>2. QED
    BY <1>1, <2>1, MinimalSubset
<1>3. ASSUME NEW B \in SUBSET X
      PROVE  IsFiniteSet(B) /\ \A u \in U : col(B)[u] = SumOf(at(u), B)
  BY FS_Subset
<1>4. \A u \in U : \A x \in X : at(u)[x] \in Int /\ at(u)[x] = m[x][u]
  OBVIOUS
<1>5. \A x \in X : row[x] = SumOf(m[x], U)
  OBVIOUS
<1>6. SumOf(col(A), U) # SumOf(row, A) /\ A \in SUBSET X
  OBVIOUS
<1>7. \A B \in SUBSET A : B # A => SumOf(col(B), U) = SumOf(row, B)
  BY <1>2
<1> HIDE DEF at, col, row, F
<1>8. A # {}
  <2>1. SUFFICES ASSUME A = {} PROVE FALSE
    OBVIOUS
  <2>2. \A u \in U : col(A)[u] = 0
    BY <1>3, <2>1, SumEmpty
  <2>3. QED
    BY <1>6, <2>1, <2>2, SumOfZeros, SumEmpty
<1> DEFINE p == Pick(A)
           B == A \ {p}
<1>9. p \in A /\ B \in SUBSET A /\ B # A /\ p \in X
  BY <1>6, <1>8, PickIsThere
<1>10. SumOf(row, A) = row[p] + SumOf(row, B)
  BY <1>3, <1>6, <1>8, SumPicks
<1>11. ASSUME NEW u \in U
       PROVE  m[p][u] \in Int /\ col(B)[u] \in Int /\ col(A)[u] = m[p][u] + col(B)[u]
  <2>1. SumOf(at(u), A) = at(u)[p] + SumOf(at(u), B)
    BY <1>3, <1>6, <1>8, SumPicks
  <2>2. SumOf(at(u), B) \in Int
    <3>1. IsFiniteSet(B) /\ \A x \in B : at(u)[x] \in Int
      BY <1>3, <1>4, <1>6, <1>9
    <3> HIDE DEF B
    <3>2. QED
      BY <3>1, SumTyped
  <2>3. QED
    BY <1>3, <1>4, <1>6, <1>9, <2>1, <2>2
<1> HIDE DEF p, B
<1>12. SumOf(col(A), U) = SumOf(m[p], U) + SumOf(col(B), U)
  BY <1>11, SumsAdd
<1>13. QED
  BY <1>5, <1>6, <1>7, <1>9, <1>10, <1>12

-----------------------------------------------------------------------------
\* Ranks: a finite set in an order is listed by it.

LEMMA Division ==
    ASSUME NEW a \in Nat, NEW n \in Nat \ {0}
    PROVE  /\ a = (a \div n) * n + (a % n)
           /\ a \div n \in Nat
           /\ a % n \in 0..(n - 1)
  OBVIOUS

\* The strict total orders of S, as sets of pairs.
Orders(S) ==
    {R \in SUBSET (S \X S) :
        /\ \A u \in S : <<u, u>> \notin R
        /\ \A u, v \in S : u # v => <<u, v>> \in R \/ <<v, u>> \in R
        /\ \A u, v, w \in S : <<u, v>> \in R /\ <<v, w>> \in R => <<u, w>> \in R}

\* How many come before u.
Before(R, S, u) == {v \in S : <<v, u>> \in R}
Rank(R, S, u)   == Cardinality(Before(R, S, u))

LEMMA RanksRise ==
    ASSUME NEW S, IsFiniteSet(S), NEW R \in Orders(S)
    PROVE  /\ \A u \in S : Rank(R, S, u) \in 0..(Cardinality(S) - 1)
           /\ \A u, v \in S : <<u, v>> \in R => Rank(R, S, u) < Rank(R, S, v)
<1>1. ASSUME NEW T \in SUBSET S, NEW u \in S, u \notin T
      PROVE  /\ IsFiniteSet(T) /\ Cardinality(T) \in Nat
             /\ Cardinality(T \cup {u}) = Cardinality(T) + 1
  BY <1>1, FS_Subset, FS_CardinalityType, FS_AddElement
<1>2. ASSUME NEW u \in S PROVE Rank(R, S, u) \in 0..(Cardinality(S) - 1)
  <2>1. Before(R, S, u) \in SUBSET S /\ u \notin Before(R, S, u)
    BY DEF Before, Orders
  <2>2. Before(R, S, u) \cup {u} \in SUBSET S
    BY <2>1
  <2>3. Cardinality(Before(R, S, u) \cup {u}) <= Cardinality(S) /\ Cardinality(S) \in Nat
    BY <2>2, FS_Subset, FS_CardinalityType
  <2>4. QED
    BY <1>1, <2>1, <2>3 DEF Rank
<1>3. ASSUME NEW u \in S, NEW v \in S, <<u, v>> \in R
      PROVE  Rank(R, S, u) < Rank(R, S, v)
  <2>1. Before(R, S, u) \in SUBSET S /\ u \notin Before(R, S, u)
    BY DEF Before, Orders
  <2>2. /\ Before(R, S, u) \cup {u} \in SUBSET Before(R, S, v)
        /\ Before(R, S, v) \in SUBSET S
    BY <1>3 DEF Before, Orders
  <2>3. IsFiniteSet(Before(R, S, v)) /\ Rank(R, S, v) \in Nat
    BY <2>2, FS_Subset, FS_CardinalityType DEF Rank
  <2>4. Cardinality(Before(R, S, u) \cup {u}) <= Rank(R, S, v)
    BY <2>2, <2>3, FS_Subset DEF Rank
  <2>5. QED
    BY <1>1, <2>1, <2>3, <2>4 DEF Rank
<1>4. QED
  BY <1>2, <1>3

\* The rank of an element is its place in the list of all.
LEMMA RanksArePlaces ==
    ASSUME NEW S, IsFiniteSet(S), NEW R \in Orders(S)
    PROVE  \E s \in Bijection(1..Cardinality(S), S) :
              \A i \in 1..Cardinality(S) : Rank(R, S, s[i]) = i - 1
<1> DEFINE n == Cardinality(S)
           f == [u \in S |-> Rank(R, S, u) + 1]
<1>1. n \in Nat /\ IsFiniteSet(1..n) /\ Cardinality(1..n) = n
  BY FS_CardinalityType, FS_Interval
<1> HIDE DEF n
<1>2. \A u \in S : f[u] \in 1..n /\ f[u] = Rank(R, S, u) + 1 /\ Rank(R, S, u) \in Nat
  BY <1>1, RanksRise DEF n
<1>3. ASSUME NEW u \in S, NEW v \in S, u # v PROVE f[u] # f[v]
  <2>1. <<u, v>> \in R \/ <<v, u>> \in R
    BY <1>3 DEF Orders
  <2>2. Rank(R, S, u) < Rank(R, S, v) \/ Rank(R, S, v) < Rank(R, S, u)
    BY <2>1, RanksRise
  <2>3. QED
    BY <1>2, <2>2
<1>4. f \in Injection(S, 1..n)
  <2>1. f \in [S -> 1..n]
    BY <1>2
  <2>2. QED
    BY <1>3, <2>1 DEF Injection, IsInjective
<1>5. f \in Surjection(S, 1..n)
  BY <1>1, <1>4, FS_Injection DEF n
<1> HIDE DEF f
<1> DEFINE s == [i \in 1..n |-> CHOOSE u \in S : f[u] = i]
<1>6. ASSUME NEW i \in 1..n PROVE s[i] \in S /\ f[s[i]] = i
  <2>1. \E u \in S : f[u] = i
    BY <1>5 DEF Surjection
  <2>2. QED
    BY <2>1
<1>7. \A u \in S : f[u] \in 1..n /\ s[f[u]] = u
  BY <1>2, <1>3, <1>6
<1>8. s \in [1..n -> S]
  BY <1>6
<1>9. \A i \in 1..n : Rank(R, S, s[i]) = i - 1
  BY <1>2, <1>6
<1> HIDE DEF s
<1>10. s \in Bijection(1..n, S)
  BY <1>6, <1>7, <1>8 DEF Bijection, Injection, IsInjective, Surjection
<1>11. QED
  BY <1>9, <1>10 DEF n

\* As many as k have a rank below k.
LEMMA RanksBelow ==
    ASSUME NEW S, IsFiniteSet(S), NEW R \in Orders(S), NEW k \in 0..Cardinality(S)
    PROVE  Cardinality({u \in S : Rank(R, S, u) < k}) = k
<1> DEFINE n == Cardinality(S)
           T == {u \in S : Rank(R, S, u) < k}
<1>1. n \in Nat
  BY FS_CardinalityType
<1>2. PICK s \in Bijection(1..n, S) : \A i \in 1..n : Rank(R, S, s[i]) = i - 1
  BY RanksArePlaces
<1>3. s \in [1..n -> S] /\ (\A i, j \in 1..n : s[i] = s[j] => i = j)
      /\ \A u \in S : \E i \in 1..n : s[i] = u
  BY <1>2 DEF Bijection, Injection, IsInjective, Surjection
<1> DEFINE t == [i \in 1..k |-> s[i]]
<1>4. t \in [1..k -> T] /\ (\A i, j \in 1..k : t[i] = t[j] => i = j)
  <2>1. 1..k \subseteq 1..n
    BY <1>1
  <2>2. \A i \in 1..k : s[i] \in S /\ Rank(R, S, s[i]) = i - 1
    BY <1>2, <1>3, <2>1
  <2>3. \A i \in 1..k : i - 1 < k
    BY <1>1
  <2>4. \A i \in 1..k : s[i] \in T
    BY <2>2, <2>3
  <2>5. \A i \in 1..k : t[i] = s[i]
    OBVIOUS
  <2> HIDE DEF T
  <2>6. t \in [1..k -> T]
    BY <2>4
  <2>7. QED
    BY <1>3, <2>1, <2>5, <2>6
<1>5. \A u \in T : \E i \in 1..k : t[i] = u
  <2>1. SUFFICES ASSUME NEW u \in T PROVE \E i \in 1..k : t[i] = u
    OBVIOUS
  <2>2. PICK i \in 1..n : s[i] = u
    BY <1>3
  <2>3. i \in 1..k
    BY <1>1, <1>2, <2>2
  <2>4. QED
    BY <2>2, <2>3
<1> HIDE DEF t, T
<1>6. t \in Bijection(1..k, T)
  BY <1>4, <1>5 DEF Bijection, Injection, IsInjective, Surjection
<1>7. IsFiniteSet(1..k) /\ Cardinality(1..k) = k
  BY FS_Interval
<1>8. Cardinality(T) = k
  BY <1>6, <1>7, FS_Bijection DEF ExistsBijection
<1>9. QED
  BY <1>8 DEF T

-----------------------------------------------------------------------------
\* Shares and balances: what an expense adds is what it takes.

\* The shares of an expense add up to its amount, whoever takes part.
LEMMA SharesAddUp ==
    ASSUME NEW e, e.among \in SUBSET Users, e.among # {}, e.amount \in Nat,
           NEW f, \A u \in e.among : f[u] = Share(e, u)
    PROVE  /\ \A u \in e.among : Share(e, u) \in Nat
           /\ SumOf(f, e.among) = e.amount
<1> DEFINE S == e.among
           n == Cardinality(S)
           d == e.amount \div n
           k == e.amount % n
           R == {p \in S \X S : p[1] < p[2]}
           T == {u \in S : Rank(R, S, u) < k}
<1>1. IsFiniteSet(S) /\ S \subseteq Nat
  BY UsersAssumption, FS_Subset DEF UsersAssumption
<1>2. n \in Nat \ {0}
  BY <1>1, FS_CardinalityType, FS_EmptySet
<1>3. e.amount = d * n + k /\ d \in Nat /\ k \in 0..(n - 1)
  <2> HIDE DEF n
  <2>1. QED
    BY <1>2, Division
<1>4. R \in Orders(S)
  BY <1>1 DEF Orders
<1>5. ASSUME NEW u \in S
      PROVE  Share(e, u) = d + (IF u \in T THEN 1 ELSE 0)
  <2>1. Before(R, S, u) = {v \in S : v < u}
    BY DEF Before
  <2>2. Rank(R, S, u) = Cardinality({v \in e.among : v < u})
    BY <2>1 DEF Rank
  <2>3. QED
    BY <2>2 DEF Share
<1>6. T \in SUBSET S /\ Cardinality(T) = k /\ IsFiniteSet(T)
  <2>1. k \in 0..n
    BY <1>2, <1>3
  <2> HIDE DEF k, R
  <2>2. Cardinality(T) = k
    BY <1>1, <1>4, <2>1, RanksBelow
  <2>3. T \in SUBSET S
    OBVIOUS
  <2>4. QED
    BY <1>1, <2>2, <2>3, FS_Subset
<1> HIDE DEF d, k, T
<1> DEFINE even  == [u \in S |-> d]
           cents == [u \in S |-> IF u \in T THEN 1 ELSE 0]
           ones  == [u \in T |-> 1]
<1>7. \A u \in S : /\ even[u] \in Int /\ cents[u] \in Int
                   /\ f[u] = even[u] + cents[u]
                   /\ even[u] = d /\ cents[u] = IF u \in T THEN 1 ELSE 0
  BY <1>3, <1>5
<1>8. \A u \in T : ones[u] = 1
  OBVIOUS
<1> HIDE DEF even, cents, ones, S
<1>9. SumOf(f, S) = SumOf(even, S) + SumOf(cents, S)
  BY <1>1, <1>7, SumsAdd
<1>10. SumOf(even, S) = d * n
  BY <1>1, <1>3, <1>7, SumOfSame
<1>11. SumOf(ones, T) = k
  <2>1. SumOf(ones, T) = 1 * Cardinality(T)
    BY <1>6, <1>8, SumOfSame
  <2>2. QED
    BY <1>3, <1>6, <2>1
<1>12. SumOf(cents, S) = SumOf(ones, T)
  <2>1. \A u \in T : cents[u] = ones[u] /\ ones[u] \in Int
    BY <1>6, <1>7, <1>8
  <2>2. \A u \in S \ T : cents[u] = 0
    BY <1>7
  <2>3. T \in SUBSET S /\ IsFiniteSet(S)
    BY <1>1, <1>6
  <2>4. QED
    BY <2>1, <2>2, <2>3, SumOfSome
<1>13. \A u \in S : Share(e, u) \in Nat
  BY <1>3, <1>5
<1>14. SumOf(f, S) = e.amount
  BY <1>3, <1>9, <1>10, <1>11, <1>12
<1>15. QED
  BY <1>13, <1>14 DEF S

\* What a summary reads: the expenses of the event, and participants left to them.
IsBill(b) ==
    /\ IsFiniteSet(DOMAIN b)
    /\ \A x \in DOMAIN b : /\ b[x].paidBy \in Users
                           /\ b[x].amount \in Nat
                           /\ b[x].among \in SUBSET Users

\* What each expense pays to and takes from each user.
Pays(b, x, u) == IF b[x].paidBy = u THEN b[x].amount ELSE 0
Owes(b, x, u) == IF u \in b[x].among THEN Share(b[x], u) ELSE 0

LEMMA SharesAreNumbers ==
    ASSUME NEW b, IsBill(b), NEW x \in DOMAIN b
    PROVE  \A u \in b[x].among : Share(b[x], u) \in Nat
<1>1. CASE b[x].among = {}
  BY <1>1
<1>2. CASE b[x].among # {}
  <2> DEFINE e == b[x]
             f == [u \in e.among |-> Share(e, u)]
  <2>1. \A u \in e.among : f[u] = Share(e, u)
    OBVIOUS
  <2>2. e.among \in SUBSET Users /\ e.among # {} /\ e.amount \in Nat
    BY <1>2 DEF IsBill
  <2> HIDE DEF e, f
  <2>3. \A u \in e.among : Share(e, u) \in Nat
    BY <2>1, <2>2, SharesAddUp
  <2>4. QED
    BY <2>3 DEF e
<1>3. QED
  BY <1>1, <1>2

LEMMA PaidIsASum ==
    ASSUME NEW b, IsBill(b), NEW u \in Users
    PROVE  /\ Paid(b, u) = SumOf([x \in DOMAIN b |-> Pays(b, x, u)], DOMAIN b)
           /\ Paid(b, u) \in Int
<1> DEFINE X == DOMAIN b
           T == {x \in X : b[x].paidBy = u}
           f == [x \in X |-> Pays(b, x, u)]
           g == [x \in T |-> b[x].amount]
<1>1. IsFiniteSet(X) /\ T \in SUBSET X
  BY DEF IsBill
<1>2. Paid(b, u) = SumOf(g, T)
  BY DEF Paid, SumFunction, SumOf
<1>3. \A x \in T : f[x] = g[x] /\ g[x] \in Int
  BY DEF Pays, IsBill
<1>4. \A x \in X \ T : f[x] = 0
  BY DEF Pays
<1>5. \A x \in X : f[x] \in Int
  BY DEF Pays, IsBill
<1> HIDE DEF X, T, f, g
<1>6. SumOf(f, X) = SumOf(g, T)
  BY <1>1, <1>3, <1>4, SumOfSome
<1>7. SumOf(f, X) \in Int
  BY <1>1, <1>5, SumTyped
<1>8. QED
  BY <1>2, <1>6, <1>7 DEF X, f

LEMMA OwedIsASum ==
    ASSUME NEW b, IsBill(b), NEW u \in Users
    PROVE  /\ Owed(b, u) = SumOf([x \in DOMAIN b |-> Owes(b, x, u)], DOMAIN b)
           /\ Owed(b, u) \in Int
<1> DEFINE X == DOMAIN b
           T == {x \in X : u \in b[x].among}
           f == [x \in X |-> Owes(b, x, u)]
           g == [x \in T |-> Share(b[x], u)]
<1>1. IsFiniteSet(X) /\ T \in SUBSET X
  BY DEF IsBill
<1>2. Owed(b, u) = SumOf(g, T)
  BY DEF Owed, SumFunction, SumOf
<1>3. \A x \in T : f[x] = g[x] /\ g[x] \in Int
  BY SharesAreNumbers DEF Owes
<1>4. \A x \in X \ T : f[x] = 0
  BY DEF Owes
<1>5. \A x \in X : f[x] \in Int
  BY SharesAreNumbers DEF Owes
<1> HIDE DEF X, T, f, g
<1>6. SumOf(f, X) = SumOf(g, T)
  BY <1>1, <1>3, <1>4, SumOfSome
<1>7. SumOf(f, X) \in Int
  BY <1>1, <1>5, SumTyped
<1>8. QED
  BY <1>2, <1>6, <1>7 DEF X, f

LEMMA EachExpenseIsPaid ==
    ASSUME NEW b, IsBill(b), NEW x \in DOMAIN b,
           NEW f, \A u \in Users : f[u] = Pays(b, x, u)
    PROVE  SumOf(f, Users) = b[x].amount
<1> DEFINE T == {b[x].paidBy}
           g == [u \in T |-> b[x].amount]
<1>1. IsFiniteSet(Users) /\ T \in SUBSET Users /\ b[x].amount \in Int
  BY UsersAssumption DEF UsersAssumption, IsBill
<1>2. IsFiniteSet(T) /\ Cardinality(T) = 1
  BY FS_Singleton
<1>3. \A u \in T : f[u] = g[u] /\ g[u] \in Int
  BY <1>1 DEF Pays
<1>4. \A u \in Users \ T : f[u] = 0
  BY DEF Pays
<1>5. \A u \in T : g[u] = b[x].amount
  OBVIOUS
<1> HIDE DEF T, g
<1>6. SumOf(f, Users) = SumOf(g, T)
  BY <1>1, <1>3, <1>4, SumOfSome
<1>7. SumOf(g, T) = b[x].amount * Cardinality(T)
  BY <1>1, <1>2, <1>5, SumOfSame
<1>8. QED
  BY <1>1, <1>2, <1>6, <1>7

LEMMA EachExpenseIsOwed ==
    ASSUME NEW b, IsBill(b), NEW x \in DOMAIN b,
           NEW f, \A u \in Users : f[u] = Owes(b, x, u)
    PROVE  SumOf(f, Users) = IF b[x].among = {} THEN 0 ELSE b[x].amount
<1> DEFINE T == b[x].among
           g == [u \in T |-> Share(b[x], u)]
<1>1. IsFiniteSet(Users) /\ T \in SUBSET Users /\ b[x].amount \in Nat
  BY UsersAssumption DEF UsersAssumption, IsBill
<1>2. \A u \in T : f[u] = g[u] /\ g[u] \in Int
  BY <1>1, SharesAreNumbers DEF Owes
<1>3. \A u \in Users \ T : f[u] = 0
  BY DEF Owes
<1>4. T # {} => SumOf(g, T) = b[x].amount
  <2> DEFINE e == b[x]
  <2>1. \A u \in e.among : g[u] = Share(e, u)
    OBVIOUS
  <2>2. e.among \in SUBSET Users /\ e.amount \in Nat
    BY <1>1
  <2> HIDE DEF e, g
  <2>3. e.among # {} => SumOf(g, e.among) = e.amount
    BY <2>1, <2>2, SharesAddUp
  <2>4. QED
    BY <2>3 DEF e
<1> HIDE DEF T, g
<1>5. SumOf(f, Users) = SumOf(g, T)
  BY <1>1, <1>2, <1>3, SumOfSome
<1>6. QED
  BY <1>4, <1>5, SumEmpty DEF T

\* The balances of all users add up to what was paid for nobody.
LEMMA BalancesAddUp ==
    ASSUME NEW b, IsBill(b)
    PROVE  LET balance  == [u \in Users |-> Balance(b, u)]
               unshared == {x \in DOMAIN b : b[x].among = {}}
           IN  /\ \A u \in Users : Balance(b, u) \in Int
               /\ SumOf(balance, Users) = SumFunction([x \in unshared |-> b[x].amount])
               /\ SumOf(balance, Users) \in Nat
<1> DEFINE X        == DOMAIN b
           unshared == {x \in X : b[x].among = {}}
           balance  == [u \in Users |-> Balance(b, u)]
           paid     == [u \in Users |-> Paid(b, u)]
           owed     == [u \in Users |-> Owed(b, u)]
           pays     == [x \in X |-> [u \in Users |-> Pays(b, x, u)]]
           owes     == [x \in X |-> [u \in Users |-> Owes(b, x, u)]]
           paidFor  == [x \in X |-> b[x].amount]
           owedFor  == [x \in X |-> IF b[x].among = {} THEN 0 ELSE b[x].amount]
           left     == [x \in X |-> IF b[x].among = {} THEN b[x].amount ELSE 0]
           wasted   == [x \in unshared |-> b[x].amount]
<1>1. IsFiniteSet(Users) /\ IsFiniteSet(X) /\ unshared \in SUBSET X
  BY UsersAssumption DEF UsersAssumption, IsBill
<1>2. \A u \in Users : /\ paid[u] \in Int /\ owed[u] \in Int /\ balance[u] \in Int
                       /\ paid[u] = balance[u] + owed[u]
  <2>1. \A u \in Users : Paid(b, u) \in Int /\ Owed(b, u) \in Int
    BY PaidIsASum, OwedIsASum
  <2>2. QED
    BY <2>1 DEF Balance
<1>3. SumOf(paid, Users) = SumOf(paidFor, X)
  <2> DEFINE columns == [u \in Users |-> SumOf([x \in X |-> pays[x][u]], X)]
             rows    == [x \in X |-> SumOf(pays[x], Users)]
  <2>1. \A x \in X, u \in Users : pays[x][u] \in Int
    BY DEF Pays, IsBill
  <2>2. \A u \in Users : paid[u] = columns[u]
    <3>1. ASSUME NEW u \in Users PROVE paid[u] = columns[u]
      <4>1. [x \in X |-> pays[x][u]] = [x \in X |-> Pays(b, x, u)]
        OBVIOUS
      <4>2. QED
        BY <4>1, PaidIsASum
    <3>2. QED
      BY <3>1
  <2>3. \A x \in X : rows[x] = paidFor[x]
    <3>1. ASSUME NEW x \in X PROVE SumOf(pays[x], Users) = b[x].amount
      <4>1. \A u \in Users : pays[x][u] = Pays(b, x, u)
        OBVIOUS
      <4> HIDE DEF pays
      <4>2. QED
        BY <4>1, EachExpenseIsPaid
    <3>2. QED
      BY <3>1
  <2> HIDE DEF pays, paid, paidFor, X
  <2>4. SumOf(columns, Users) = SumOf(rows, X)
    BY <1>1, <2>1, SumsExchange
  <2> HIDE DEF columns, rows
  <2>5. SumOf(paid, Users) = SumOf(columns, Users) /\ SumOf(rows, X) = SumOf(paidFor, X)
    BY <1>1, <2>2, <2>3, SumsAgree
  <2>6. QED
    BY <2>4, <2>5
<1>4. SumOf(owed, Users) = SumOf(owedFor, X)
  <2> DEFINE columns == [u \in Users |-> SumOf([x \in X |-> owes[x][u]], X)]
             rows    == [x \in X |-> SumOf(owes[x], Users)]
  <2>1. \A x \in X, u \in Users : owes[x][u] \in Int
    BY SharesAreNumbers DEF Owes
  <2>2. \A u \in Users : owed[u] = columns[u]
    <3>1. ASSUME NEW u \in Users PROVE owed[u] = columns[u]
      <4>1. [x \in X |-> owes[x][u]] = [x \in X |-> Owes(b, x, u)]
        OBVIOUS
      <4>2. QED
        BY <4>1, OwedIsASum
    <3>2. QED
      BY <3>1
  <2>3. \A x \in X : rows[x] = owedFor[x]
    <3>1. ASSUME NEW x \in X
          PROVE  SumOf(owes[x], Users) = IF b[x].among = {} THEN 0 ELSE b[x].amount
      <4>1. \A u \in Users : owes[x][u] = Owes(b, x, u)
        OBVIOUS
      <4> HIDE DEF owes
      <4>2. QED
        BY <4>1, EachExpenseIsOwed
    <3>2. QED
      BY <3>1
  <2> HIDE DEF owes, owed, owedFor, X
  <2>4. SumOf(columns, Users) = SumOf(rows, X)
    BY <1>1, <2>1, SumsExchange
  <2> HIDE DEF columns, rows
  <2>5. SumOf(owed, Users) = SumOf(columns, Users) /\ SumOf(rows, X) = SumOf(owedFor, X)
    BY <1>1, <2>2, <2>3, SumsAgree
  <2>6. QED
    BY <2>4, <2>5
<1>5. \A x \in X : /\ owedFor[x] \in Int /\ left[x] \in Int /\ left[x] >= 0
                   /\ paidFor[x] = left[x] + owedFor[x]
  BY DEF IsBill
<1>6. (\A x \in unshared : left[x] = wasted[x] /\ wasted[x] \in Int)
      /\ \A x \in X \ unshared : left[x] = 0
  BY DEF IsBill
<1>7. SumFunction(wasted) = SumOf(wasted, unshared)
  BY DEF SumFunction, SumOf
<1> HIDE DEF X, unshared, balance, paid, owed, pays, owes, paidFor, owedFor, left, wasted
<1>8. SumOf(paid, Users) = SumOf(balance, Users) + SumOf(owed, Users)
  BY <1>1, <1>2, SumsAdd
<1>9. SumOf(paidFor, X) = SumOf(left, X) + SumOf(owedFor, X)
  BY <1>1, <1>5, SumsAdd
<1>10. SumOf(left, X) = SumOf(wasted, unshared)
  BY <1>1, <1>6, SumOfSome
<1>11. SumOf(balance, Users) \in Int /\ SumOf(owedFor, X) \in Int
       /\ SumOf(left, X) \in Int /\ SumOf(left, X) >= 0
  BY <1>1, <1>2, <1>5, SumTyped
<1>12. SumOf(balance, Users) = SumOf(left, X)
  <2>1. SumOf(balance, Users) + SumOf(owedFor, X) = SumOf(left, X) + SumOf(owedFor, X)
    BY <1>3, <1>4, <1>8, <1>9
  <2>2. QED
    BY <1>11, <2>1
<1>13. \A u \in Users : Balance(b, u) \in Int
  BY <1>2 DEF balance
<1>14. QED
  BY <1>7, <1>10, <1>11, <1>12, <1>13 DEF balance, unshared, wasted, X

-----------------------------------------------------------------------------
\* The lists of creditors and debtors.

\* What is open of u, and the list of the users s[1..n].
Open(b, u) == Max({Balance(b, u), -Balance(b, u)})

ListOf(b, s, n) == [i \in 1..n |-> [user |-> s[i], open |-> Open(b, s[i])]]

\* The list of the users us holds each of them once.
LEMMA RankingListsAll ==
    ASSUME NEW b, IsBill(b), NEW us \in SUBSET Users, NEW L, L = Ranking(b, us),
           NEW n, n = Cardinality(us)
    PROVE  \E s \in Bijection(1..n, us) : L = ListOf(b, s, n)
<1> DEFINE Above(u, v) == \/ Balance(b, u) > Balance(b, v)
                          \/ Balance(b, u) = Balance(b, v) /\ u < v
           R == {p \in us \X us : Above(p[1], p[2])}
           Sorted(s) == \A i, j \in DOMAIN s : i < j => Above(s[i], s[j])
           ranked == CHOOSE s \in [1..n -> us] : Sorted(s)
<1>1. IsFiniteSet(us) /\ n \in Nat /\ us \subseteq Nat
  BY UsersAssumption, FS_Subset, FS_CardinalityType DEF UsersAssumption
<1>2. \A u \in us : Balance(b, u) \in Int
  BY BalancesAddUp
<1>3. R \in Orders(us)
  <2>1. \A u \in us : ~Above(u, u)
    BY <1>1, <1>2
  <2>2. \A u, v \in us : u # v => Above(u, v) \/ Above(v, u)
    BY <1>1, <1>2
  <2>3. \A u, v, w \in us : Above(u, v) /\ Above(v, w) => Above(u, w)
    BY <1>1, <1>2
  <2> HIDE DEF Above
  <2>4. QED
    BY <2>1, <2>2, <2>3 DEF Orders
<1>4. \A u, v \in us : <<u, v>> \in R <=> Above(u, v)
  OBVIOUS
<1>5. \E s \in [1..n -> us] : Sorted(s)
  <2> HIDE DEF R
  <2>1. PICK s \in Bijection(1..n, us) : \A i \in 1..n : Rank(R, us, s[i]) = i - 1
    BY <1>1, <1>3, RanksArePlaces
  <2>2. s \in [1..n -> us]
    BY <2>1 DEF Bijection, Injection
  <2>3. ASSUME NEW i \in 1..n, NEW j \in 1..n, i < j
        PROVE  <<s[i], s[j]>> \in R
    <3>1. s[i] \in us /\ s[j] \in us
      BY <2>2
    <3>2. Rank(R, us, s[i]) < Rank(R, us, s[j])
      BY <2>1, <2>3
    <3>3. s[i] # s[j] /\ ~(Rank(R, us, s[j]) < Rank(R, us, s[i]))
      BY <1>1, <2>1, <2>3
    <3>4. <<s[j], s[i]>> \notin R
      BY <1>1, <1>3, <3>1, <3>3, RanksRise
    <3>5. QED
      BY <1>3, <3>1, <3>3, <3>4 DEF Orders
  <2>4. Sorted(s)
    BY <1>4, <2>2, <2>3
  <2>5. QED
    BY <2>2, <2>4
<1>6. ranked \in [1..n -> us] /\ Sorted(ranked)
  <2> HIDE DEF Sorted
  <2>1. QED
    BY <1>5
<1>7. L = [i \in DOMAIN ranked |->
              [user |-> ranked[i], open |-> Max({Balance(b, ranked[i]),
                                                -Balance(b, ranked[i])})]]
  BY DEF Ranking
<1> HIDE DEF ranked
<1>8. \A i, j \in 1..n : ranked[i] = ranked[j] => i = j
  <2>1. SUFFICES ASSUME NEW i \in 1..n, NEW j \in 1..n, i < j PROVE ranked[i] # ranked[j]
    BY <1>1
  <2>2. Above(ranked[i], ranked[j])
    BY <1>6, <2>1
  <2>3. \A u \in us : ~Above(u, u)
    BY <1>1, <1>2
  <2> HIDE DEF Above
  <2>4. QED
    BY <1>6, <2>2, <2>3
<1> HIDE DEF Above, R, Sorted
<1>9. ranked \in Bijection(1..n, us)
  <2>1. ranked \in Injection(1..n, us)
    BY <1>6, <1>8 DEF Injection, IsInjective
  <2>2. Cardinality(1..n) = Cardinality(us)
    BY <1>1, FS_Interval
  <2>3. ranked \in Surjection(1..n, us)
    BY <1>1, <2>1, <2>2, FS_Injection
  <2>4. QED
    BY <2>1, <2>3 DEF Bijection
<1>10. L = ListOf(b, ranked, n)
  BY <1>6, <1>7 DEF ListOf, Open
<1>11. QED
  BY <1>9, <1>10

LEMMA MaxOfPair ==
    ASSUME NEW x \in Int
    PROVE  /\ x > 0 => Max({x, -x}) = x
           /\ x < 0 => Max({x, -x}) = -x
<1>1. ASSUME x > 0 PROVE Max({x, -x}) = x
  <2>1. \E m \in {x, -x} : \A y \in {x, -x} : m >= y
    BY <1>1
  <2>2. QED
    BY <1>1, <2>1 DEF Max
<1>2. ASSUME x < 0 PROVE Max({x, -x}) = -x
  <2>1. \E m \in {x, -x} : \A y \in {x, -x} : m >= y
    BY <1>2
  <2>2. QED
    BY <1>2, <2>1 DEF Max
<1>3. QED
  BY <1>1, <1>2

\* A list of users with what is open of each, as the loop works on.
Entry == [user : Users, open : Nat \ {0}]

IsList(L) ==
    /\ L \in Seq(Entry)
    /\ \A i, j \in 1..Len(L) : L[i].user = L[j].user => i = j

\* What is open of u in L.
OpenIn(L, u) ==
    IF \E i \in 1..Len(L) : L[i].user = u
    THEN L[CHOOSE i \in 1..Len(L) : L[i].user = u].open
    ELSE 0

LEMMA OpenOfEntries ==
    ASSUME NEW L, IsList(L)
    PROVE  /\ \A i \in 1..Len(L) : OpenIn(L, L[i].user) = L[i].open
           /\ \A u : OpenIn(L, u) \in Nat
           /\ \A u : (\A i \in 1..Len(L) : L[i].user # u) <=> OpenIn(L, u) = 0
<1>1. \A i \in 1..Len(L) : L[i] \in Entry
  BY ElementOfSeq DEF IsList
<1>2. ASSUME NEW i \in 1..Len(L) PROVE OpenIn(L, L[i].user) = L[i].open
  <2> DEFINE j == CHOOSE j \in 1..Len(L) : L[j].user = L[i].user
  <2>1. j \in 1..Len(L) /\ L[j].user = L[i].user
    OBVIOUS
  <2>2. j = i
    BY <2>1 DEF IsList
  <2>3. QED
    BY <2>2 DEF OpenIn
<1>3. ASSUME NEW u, \A i \in 1..Len(L) : L[i].user # u PROVE OpenIn(L, u) = 0
  BY <1>3 DEF OpenIn
<1>4. \A i \in 1..Len(L) : L[i].open \in Nat \ {0}
  BY <1>1 DEF Entry
<1>5. QED
  BY <1>2, <1>3, <1>4

\* Who has an open balance and is ranked is listed with it.
LEMMA RankingIsAList ==
    ASSUME NEW b, IsBill(b), NEW us \in SUBSET Users, \A u \in us : Balance(b, u) # 0,
           NEW L, L = Ranking(b, us)
    PROVE  /\ IsList(L)
           /\ Len(L) = Cardinality(us)
           /\ \A i \in 1..Len(L) : L[i].user \in us
           /\ \A u \in us : OpenIn(L, u) = Max({Balance(b, u), -Balance(b, u)})
           /\ \A u \in Users \ us : OpenIn(L, u) = 0
<1>1. PICK n : n = Cardinality(us)
  OBVIOUS
<1>2. n \in Nat
  BY <1>1, UsersAssumption, FS_Subset, FS_CardinalityType DEF UsersAssumption
<1>3. PICK s \in Bijection(1..n, us) : L = ListOf(b, s, n)
  BY <1>1, RankingListsAll
<1>4. /\ s \in [1..n -> us]
      /\ \A i, j \in 1..n : s[i] = s[j] => i = j
      /\ \A u \in us : \E i \in 1..n : s[i] = u
  BY <1>3 DEF Bijection, Injection, IsInjective, Surjection
<1>5. \A u \in us : Open(b, u) \in Nat \ {0}
  <2>1. ASSUME NEW u \in us
        PROVE  Open(b, u) \in Nat \ {0}
    <3>1. PICK x : x = Balance(b, u)
      OBVIOUS
    <3>2. x \in Int /\ x # 0
      BY <3>1, BalancesAddUp
    <3>3. Max({x, -x}) \in Nat \ {0}
      BY <3>2, MaxOfPair
    <3>4. QED
      BY <3>1, <3>3 DEF Open
  <2>2. QED
    BY <2>1
<1>6. L \in [1..n -> Entry]
  BY <1>3, <1>4, <1>5 DEF Entry, ListOf
<1>7. L \in Seq(Entry) /\ Len(L) = n
  BY <1>2, <1>6
<1>8. \A i \in 1..n : L[i].user = s[i] /\ L[i].open = Open(b, s[i]) /\ s[i] \in us
  BY <1>3, <1>4 DEF ListOf
<1>9. IsList(L)
  BY <1>4, <1>7, <1>8 DEF IsList
<1>10. ASSUME NEW u \in us PROVE OpenIn(L, u) = Open(b, u)
  <2>1. PICK i \in 1..n : s[i] = u
    BY <1>4
  <2>2. OpenIn(L, L[i].user) = L[i].open
    BY <1>7, <1>9, OpenOfEntries
  <2>3. QED
    BY <1>8, <2>1, <2>2
<1>11. ASSUME NEW u \in Users \ us PROVE OpenIn(L, u) = 0
  <2>1. \A i \in 1..Len(L) : L[i].user # u
    BY <1>7, <1>8
  <2>2. QED
    BY <2>1 DEF OpenIn
<1>12. QED
  BY <1>1, <1>7, <1>8, <1>9, <1>10, <1>11 DEF Open

\* Creditors are owed their balance, debtors owe theirs; all are listed.
LEMMA CreditorsListed ==
    ASSUME NEW b, IsBill(b)
    PROVE  LET us == {u \in Users : Balance(b, u) > 0}
               L  == Creditors(b)
           IN  /\ IsList(L)
               /\ Len(L) = Cardinality(us)
               /\ \A i \in 1..Len(L) : Balance(b, L[i].user) > 0
               /\ \A u \in Users : OpenIn(L, u) = IF Balance(b, u) > 0 THEN Balance(b, u)
                                                                     ELSE 0
<1>1. PICK us \in SUBSET Users : us = {u \in Users : Balance(b, u) > 0}
  OBVIOUS
<1>2. PICK L : L = Creditors(b)
  OBVIOUS
<1>3. L = Ranking(b, us)
  BY <1>1, <1>2 DEF Creditors
<1>4. \A u \in Users : Balance(b, u) \in Int
  BY BalancesAddUp
<1>5. \A u \in us : Balance(b, u) # 0
  BY <1>1, <1>4
<1>6. /\ IsList(L)
      /\ Len(L) = Cardinality(us)
      /\ \A i \in 1..Len(L) : L[i].user \in us
      /\ \A u \in us : OpenIn(L, u) = Max({Balance(b, u), -Balance(b, u)})
      /\ \A u \in Users \ us : OpenIn(L, u) = 0
  BY <1>3, <1>5, RankingIsAList
<1>7. \A u \in us : Max({Balance(b, u), -Balance(b, u)}) = Balance(b, u)
  BY <1>1, <1>4, MaxOfPair
<1>8. \A u \in Users : OpenIn(L, u) = IF Balance(b, u) > 0 THEN Balance(b, u) ELSE 0
  BY <1>1, <1>6, <1>7
<1>9. QED
  BY <1>1, <1>2, <1>6, <1>8

LEMMA DebtorsListed ==
    ASSUME NEW b, IsBill(b)
    PROVE  LET us == {u \in Users : Balance(b, u) < 0}
               L  == Debtors(b)
           IN  /\ IsList(L)
               /\ Len(L) = Cardinality(us)
               /\ \A i \in 1..Len(L) : Balance(b, L[i].user) < 0
               /\ \A u \in Users : OpenIn(L, u) = IF Balance(b, u) < 0 THEN -Balance(b, u)
                                                                     ELSE 0
<1>1. PICK us \in SUBSET Users : us = {u \in Users : Balance(b, u) < 0}
  OBVIOUS
<1>2. PICK L : L = Debtors(b)
  OBVIOUS
<1>3. L = Ranking(b, us)
  BY <1>1, <1>2 DEF Debtors
<1>4. \A u \in Users : Balance(b, u) \in Int
  BY BalancesAddUp
<1>5. \A u \in us : Balance(b, u) # 0
  BY <1>1, <1>4
<1>6. /\ IsList(L)
      /\ Len(L) = Cardinality(us)
      /\ \A i \in 1..Len(L) : L[i].user \in us
      /\ \A u \in us : OpenIn(L, u) = Max({Balance(b, u), -Balance(b, u)})
      /\ \A u \in Users \ us : OpenIn(L, u) = 0
  BY <1>3, <1>5, RankingIsAList
<1>7. \A u \in us : Max({Balance(b, u), -Balance(b, u)}) = -Balance(b, u)
  BY <1>1, <1>4, MaxOfPair
<1>8. \A u \in Users : OpenIn(L, u) = IF Balance(b, u) < 0 THEN -Balance(b, u) ELSE 0
  BY <1>1, <1>6, <1>7
<1>9. QED
  BY <1>1, <1>2, <1>6, <1>8

-----------------------------------------------------------------------------
\* One transfer.

Transfer == [from : Users, to : Users, amount : Nat \ {0}]

\* The head of a list loses what was paid, and leaves when nothing is open.
Shortens(L, a, M) ==
    /\ IsList(L) /\ L # <<>>
    /\ a \in Nat \ {0} /\ a <= L[1].open
    /\ M = Less(L, a)

LEMMA LessTakesOff ==
    ASSUME NEW L, NEW a, NEW M, Shortens(L, a, M)
    PROVE  /\ IsList(M)
           /\ Len(M) = IF L[1].open = a THEN Len(L) - 1 ELSE Len(L)
           /\ \A i \in 1..Len(M) : \E j \in 1..Len(L) : M[i].user = L[j].user
           /\ \A u : OpenIn(M, u) = OpenIn(L, u) - IF u = L[1].user THEN a ELSE 0
<1> USE DEF Shortens
<1>1. /\ L \in Seq(Entry) /\ Len(L) \in Nat /\ Len(L) >= 1 /\ 1 \in 1..Len(L)
      /\ Head(L) = L[1]
  BY EmptySeq, LenProperties DEF IsList
<1>2. \A i \in 1..Len(L) : L[i] \in Entry
  BY ElementOfSeq, <1>1
<1>3. \A i \in 1..Len(L) : OpenIn(L, L[i].user) = L[i].open /\ L[i].open \in Nat \ {0}
  BY <1>2, OpenOfEntries DEF Entry
<1>4. \A u : (\A i \in 1..Len(L) : L[i].user # u) => OpenIn(L, u) = 0
  BY OpenOfEntries
<1>5. \A i, j \in 1..Len(L) : L[i].user = L[j].user => i = j
  BY DEF IsList
<1>6. CASE L[1].open = a
  <2>1. M = Tail(L)
    BY <1>1, <1>6 DEF Less
  <2>2. /\ M \in Seq(Entry) /\ Len(M) = Len(L) - 1
        /\ \A i \in 1..Len(M) : M[i] = L[i + 1]
    BY <1>1, <2>1, HeadTailProperties
  <2>3. \A i \in 1..Len(M) : i + 1 \in 1..Len(L)
    BY <1>1, <2>2
  <2>4. IsList(M)
    <3>1. ASSUME NEW i \in 1..Len(M), NEW j \in 1..Len(M), M[i].user = M[j].user
          PROVE  i = j
      <4>1. L[i + 1].user = L[j + 1].user
        BY <2>2, <3>1
      <4>2. i + 1 = j + 1
        BY <1>5, <2>3, <4>1
      <4>3. QED
        BY <4>2
    <3>2. QED
      BY <2>2, <3>1 DEF IsList
  <2>5. ASSUME NEW u
        PROVE  OpenIn(M, u) = OpenIn(L, u) - IF u = L[1].user THEN a ELSE 0
    <3>1. CASE u = L[1].user
      <4>1. \A i \in 1..Len(M) : M[i].user # u
        <5>1. SUFFICES ASSUME NEW i \in 1..Len(M), M[i].user = u PROVE FALSE
          OBVIOUS
        <5>2. i + 1 = 1
          BY <1>1, <1>5, <2>2, <2>3, <3>1, <5>1
        <5>3. QED
          BY <5>2
      <4>2. OpenIn(M, u) = 0
        BY <2>4, <4>1, OpenOfEntries
      <4>3. OpenIn(L, u) = a
        BY <1>1, <1>3, <1>6, <3>1
      <4>4. QED
        BY <3>1, <4>2, <4>3
    <3>2. CASE u # L[1].user /\ \E i \in 1..Len(L) : L[i].user = u
      <4>1. PICK i \in 1..Len(L) : L[i].user = u
        BY <3>2
      <4>2. i - 1 \in 1..Len(M) /\ M[i - 1] = L[i]
        <5>1. i # 1
          BY <3>2, <4>1
        <5>2. i - 1 \in 1..Len(M)
          BY <1>1, <2>2, <4>1, <5>1
        <5>3. (i - 1) + 1 = i
          OBVIOUS
        <5>4. QED
          BY <2>2, <5>2, <5>3
      <4>3. OpenIn(M, M[i - 1].user) = M[i - 1].open
        BY <2>4, <4>2, OpenOfEntries
      <4>4. OpenIn(L, u) = L[i].open /\ L[i].open \in Nat
        BY <1>3, <4>1
      <4>5. QED
        BY <3>2, <4>1, <4>2, <4>3, <4>4
    <3>3. CASE \A i \in 1..Len(L) : L[i].user # u
      <4>1. \A i \in 1..Len(M) : M[i].user # u
        BY <2>2, <2>3, <3>3
      <4>2. OpenIn(M, u) = 0 /\ OpenIn(L, u) = 0
        BY <2>4, <3>3, <4>1, OpenOfEntries
      <4>3. u # L[1].user
        BY <1>1, <3>3
      <4>4. (IF u = L[1].user THEN a ELSE 0) = 0
        BY <4>3
      <4>5. 0 - 0 = 0
        OBVIOUS
      <4>6. QED
        BY <4>2, <4>4, <4>5, Zenon
    <3>4. QED
      BY <3>1, <3>2, <3>3
  <2>6. QED
    BY <1>6, <2>2, <2>3, <2>4, <2>5
<1>7. CASE L[1].open # a
  <2>1. M = [L EXCEPT ![1].open = @ - a]
    BY <1>1, <1>7 DEF Less
  <2>2. L[1].open - a \in Nat \ {0}
    BY <1>1, <1>3, <1>7
  <2>3. /\ M[1].user = L[1].user /\ M[1].open = L[1].open - a /\ M[1] \in Entry
        /\ \A i \in 1..Len(L) : i # 1 => M[i] = L[i]
    <3>1. DOMAIN L = 1..Len(L)
      BY <1>1
    <3>2. PICK e \in Entry : e = L[1]
      BY <1>1, <1>2
    <3>3. PICK k \in Nat \ {0} : k = e.open - a
      BY <2>2, <3>2
    <3>4. M = [L EXCEPT ![1] = [e EXCEPT !.open = k]]
      BY <2>1, <3>2, <3>3
    <3>5. M[1] = [e EXCEPT !.open = k] /\ \A i \in 1..Len(L) : i # 1 => M[i] = L[i]
      BY <1>1, <3>1, <3>4
    <3>6. PICK m : m = [e EXCEPT !.open = k]
      OBVIOUS
    <3>7. m \in Entry /\ m.user = e.user /\ m.open = k
      BY <3>6 DEF Entry
    <3>8. QED
      BY <3>2, <3>3, <3>5, <3>6, <3>7
  <2>4. M \in Seq(Entry) /\ Len(M) = Len(L)
    <3>1. M \in [1..Len(L) -> Entry]
      BY <1>1, <1>2, <2>1, <2>3
    <3>2. QED
      BY <1>1, <3>1
  <2>5. \A i \in 1..Len(L) : M[i].user = L[i].user
    BY <2>3
  <2>6. IsList(M)
    BY <1>5, <2>4, <2>5 DEF IsList
  <2>7. ASSUME NEW u
        PROVE  OpenIn(M, u) = OpenIn(L, u) - IF u = L[1].user THEN a ELSE 0
    <3>1. CASE u = L[1].user
      <4>1. OpenIn(M, M[1].user) = M[1].open
        BY <1>1, <2>4, <2>6, OpenOfEntries
      <4>2. OpenIn(L, L[1].user) = L[1].open
        BY <1>1, <1>3
      <4>3. QED
        BY <2>3, <3>1, <4>1, <4>2
    <3>2. CASE u # L[1].user /\ \E i \in 1..Len(L) : L[i].user = u
      <4>1. PICK i \in 1..Len(L) : L[i].user = u
        BY <3>2
      <4>2. M[i] = L[i]
        BY <2>3, <3>2, <4>1
      <4>3. OpenIn(M, M[i].user) = M[i].open
        BY <2>4, <2>6, <4>1, OpenOfEntries
      <4>4. OpenIn(L, u) = L[i].open /\ L[i].open \in Nat
        BY <1>3, <4>1
      <4>5. QED
        BY <3>2, <4>1, <4>2, <4>3, <4>4
    <3>3. CASE \A i \in 1..Len(L) : L[i].user # u
      <4>1. \A i \in 1..Len(M) : M[i].user # u
        BY <2>4, <2>5, <3>3
      <4>2. OpenIn(M, u) = 0 /\ OpenIn(L, u) = 0
        BY <2>6, <3>3, <4>1, OpenOfEntries
      <4>3. u # L[1].user
        BY <1>1, <3>3
      <4>4. (IF u = L[1].user THEN a ELSE 0) = 0
        BY <4>3
      <4>5. 0 - 0 = 0
        OBVIOUS
      <4>6. QED
        BY <4>2, <4>4, <4>5, Zenon
    <3>4. QED
      BY <3>1, <3>2, <3>3
  <2>8. QED
    BY <1>7, <2>4, <2>5, <2>6, <2>7
<1>8. QED
  BY <1>6, <1>7

\* One more term, and the sum over some of them.
OneMore(f, g, F, k, a) ==
    /\ IsFiniteSet(F) /\ k \notin F
    /\ \A i \in F : f[i] \in Int /\ g[i] = f[i]
    /\ a \in Int /\ g[k] = a

LEMMA SumOfAppended ==
    ASSUME NEW F, NEW k, NEW a, NEW f, NEW g, OneMore(f, g, F, k, a)
    PROVE  /\ SumOf(f, F) \in Int
           /\ SumOf(g, F) = SumOf(f, F)
           /\ SumOf(g, F \cup {k}) = SumOf(f, F) + a
<1>1. IsFiniteSet(F) /\ a \in Int
  BY DEF OneMore
<1>2. \A i \in F : f[i] \in Int
  BY DEF OneMore
<1>3. \A i \in F : g[i] = f[i]
  BY DEF OneMore
<1>4. SumOf(f, F) \in Int
  BY <1>1, <1>2, SumTyped
<1>5. SumOf(g, F) = SumOf(f, F)
  BY <1>1, <1>3, SumsAgree
<1>6. SumOf(g, F \cup {k}) = SumOf(f, F) + a
  <2> DEFINE S == F \cup {k}
  <2>1. IsFiniteSet(S)
    BY <1>1, FS_AddElement
  <2>2. \A i \in S : g[i] \in Int
    BY <1>1, <1>2, <1>3 DEF OneMore
  <2>3. k \in S /\ S \ {k} = F /\ g[k] = a
    BY DEF OneMore
  <2> HIDE DEF S
  <2>4. SumOf(g, S) = g[k] + SumOf(g, S \ {k})
    BY <2>1, <2>2, <2>3, SumTakesOut
  <2>5. PICK c \in Int : c = SumOf(f, F)
    BY <1>4
  <2>6. SumOf(g, S) = a + c
    BY <1>5, <2>3, <2>4, <2>5
  <2>7. a + c = c + a
    BY <1>1
  <2>8. QED
    BY <2>5, <2>6, <2>7 DEF S
<1>7. QED
  BY <1>4, <1>5, <1>6

\* The sums of Remainder by name.
LEMMA RemainderIs ==
    ASSUME NEW b, NEW t, NEW u
    PROVE  LET f == [i \in DOMAIN t |-> t[i].amount]
           IN  Remainder(b, t, u)
                 = Balance(b, u) + (SumOf(f, {i \in DOMAIN t : t[i].from = u})
                                      - SumOf(f, {i \in DOMAIN t : t[i].to = u}))
  BY DEF Remainder, SumOf

LEMMA RemainderMoves ==
    ASSUME NEW b, IsBill(b), NEW t \in Seq(Transfer), NEW x \in Transfer, NEW u \in Users
    PROVE  /\ Remainder(b, t, u) \in Int
           /\ Remainder(b, Append(t, x), u)
                = (Remainder(b, t, u) + IF x.from = u THEN x.amount ELSE 0)
                    - IF x.to = u THEN x.amount ELSE 0
<1>1. PICK s : s = Append(t, x)
  OBVIOUS
<1>2. PICK n : n = Len(t)
  OBVIOUS
<1>3. PICK k : k = n + 1
  OBVIOUS
<1> DEFINE f == [i \in DOMAIN t |-> t[i].amount]
           g == [i \in DOMAIN s |-> s[i].amount]
           F == {i \in DOMAIN t : t[i].from = u}
           G == {i \in DOMAIN t : t[i].to = u}
           FF == {i \in DOMAIN s : s[i].from = u}
           GG == {i \in DOMAIN s : s[i].to = u}
<1>4. Remainder(b, t, u) = Balance(b, u) + (SumOf(f, F) - SumOf(f, G))
  BY RemainderIs
<1>5. Remainder(b, s, u) = Balance(b, u) + (SumOf(g, FF) - SumOf(g, GG))
  BY RemainderIs
<1>6. /\ n \in Nat /\ DOMAIN t = 1..n /\ DOMAIN s = 1..k
      /\ s[k] = x /\ \A i \in 1..n : s[i] = t[i]
  BY <1>1, <1>2, <1>3
<1>7. F \in SUBSET (1..n)
  BY <1>6
<1>8. G \in SUBSET (1..n)
  BY <1>6
<1>9. FF = IF x.from = u THEN F \cup {k} ELSE F
  BY <1>6, <1>3
<1>10. GG = IF x.to = u THEN G \cup {k} ELSE G
  BY <1>6, <1>3
<1>11. PICK a \in Int : a = x.amount
  BY DEF Transfer
<1>12. Balance(b, u) \in Int
  BY BalancesAddUp
<1>13. \A i \in 1..n : f[i] \in Int /\ g[i] = f[i]
  <2>1. \A i \in 1..n : t[i] \in Transfer
    BY <1>2, ElementOfSeq
  <2>2. \A i \in 1..n : t[i].amount \in Int
    BY <2>1 DEF Transfer
  <2>3. \A i \in 1..n : f[i] = t[i].amount
    BY <1>6
  <2>4. \A i \in 1..n : g[i] = t[i].amount
    BY <1>6, <1>3
  <2>5. QED
    BY <2>2, <2>3, <2>4
<1>14. g[k] = a
  BY <1>6, <1>11, <1>3
<1>15. IsFiniteSet(1..n)
  BY <1>6, FS_Interval
<1>16. IsFiniteSet(F)
  BY <1>7, <1>15, FS_Subset
<1>17. IsFiniteSet(G)
  BY <1>8, <1>15, FS_Subset
<1>18. k \notin F
  BY <1>6, <1>7, <1>3
<1>19. k \notin G
  BY <1>6, <1>8, <1>3
<1>20. OneMore(f, g, F, k, a)
  BY <1>7, <1>13, <1>14, <1>16, <1>18 DEF OneMore
<1>21. OneMore(f, g, G, k, a)
  BY <1>8, <1>13, <1>14, <1>17, <1>19 DEF OneMore
<1> HIDE DEF f, g, F, G, FF, GG
<1>22. /\ SumOf(f, F) \in Int
       /\ SumOf(g, F) = SumOf(f, F)
       /\ SumOf(g, F \cup {k}) = SumOf(f, F) + a
  BY <1>20, SumOfAppended
<1>23. /\ SumOf(f, G) \in Int
       /\ SumOf(g, G) = SumOf(f, G)
       /\ SumOf(g, G \cup {k}) = SumOf(f, G) + a
  BY <1>21, SumOfAppended
<1>24. SumOf(g, FF) = SumOf(f, F) + IF x.from = u THEN x.amount ELSE 0
  <2>1. CASE x.from = u
    BY <1>9, <1>11, <1>22, <2>1
  <2>2. CASE x.from # u
    BY <1>9, <1>11, <1>22, <2>2
  <2>3. QED
    BY <2>1, <2>2
<1>25. SumOf(g, GG) = SumOf(f, G) + IF x.to = u THEN x.amount ELSE 0
  <2>1. CASE x.to = u
    BY <1>10, <1>11, <1>23, <2>1
  <2>2. CASE x.to # u
    BY <1>10, <1>11, <1>23, <2>2
  <2>3. QED
    BY <2>1, <2>2
<1>26. PICK p \in Int : p = SumOf(f, F)
  BY <1>22
<1>27. PICK q \in Int : q = SumOf(f, G)
  BY <1>23
<1>28. PICK d \in Int : d = IF x.from = u THEN x.amount ELSE 0
  BY <1>11
<1>29. PICK e \in Int : e = IF x.to = u THEN x.amount ELSE 0
  BY <1>11
<1>30. Remainder(b, t, u) = Balance(b, u) + (p - q)
  BY <1>4, <1>26, <1>27
<1>31. Remainder(b, s, u) = Balance(b, u) + ((p + d) - (q + e))
  BY <1>5, <1>24, <1>25, <1>26, <1>27, <1>28, <1>29
<1>32. Remainder(b, t, u) \in Int /\ Remainder(b, s, u) = (Remainder(b, t, u) + d) - e
  BY <1>12, <1>30, <1>31
<1>33. QED
  BY <1>1, <1>28, <1>29, <1>32

\* Before the first transfer.
LEMMA RemainderAtFirst ==
    ASSUME NEW b, NEW u \in Users, IsBill(b)
    PROVE  Remainder(b, <<>>, u) = Balance(b, u)
<1>1. PICK t : t = <<>>
  OBVIOUS
<1> DEFINE f == [i \in DOMAIN t |-> t[i].amount]
<1>2. Remainder(b, t, u) = Balance(b, u) + (SumOf(f, {i \in DOMAIN t : t[i].from = u})
                                              - SumOf(f, {i \in DOMAIN t : t[i].to = u}))
  BY RemainderIs
<1>3. {i \in DOMAIN t : t[i].from = u} = {} /\ {i \in DOMAIN t : t[i].to = u} = {}
  BY <1>1
<1> HIDE DEF f
<1>4. Remainder(b, t, u) = Balance(b, u) + (SumOf(f, {}) - SumOf(f, {}))
  BY <1>2, <1>3
<1>5. SumOf(f, {}) = 0
  BY SumEmpty
<1>6. Balance(b, u) \in Int
  BY BalancesAddUp
<1>7. QED
  BY <1>1, <1>4, <1>5, <1>6

\* What one gains the other loses.
Shifts(f, g, S, x, y, c) ==
    /\ IsFiniteSet(S) /\ {x, y} \subseteq S /\ x # y
    /\ c \in Int /\ \A z \in S : f[z] \in Int
    /\ g[x] = f[x] + c /\ g[y] = f[y] - c
    /\ \A z \in S \ {x, y} : g[z] = f[z]

LEMMA SumShifts ==
    ASSUME NEW S, NEW x, NEW y, NEW c, NEW f, NEW g, Shifts(f, g, S, x, y, c)
    PROVE  SumOf(g, S) = SumOf(f, S)
<1> USE DEF Shifts
<1>1. \A z \in S : g[z] \in Int
  OBVIOUS
<1> DEFINE T == S \ {x}
           R == T \ {y}
<1>2. IsFiniteSet(T) /\ y \in T /\ T \subseteq S
  BY FS_RemoveElement
<1>3. IsFiniteSet(R) /\ R \subseteq S \ {x, y}
  BY <1>2, FS_RemoveElement
<1>4. SumOf(f, S) = f[x] + SumOf(f, T) /\ SumOf(g, S) = g[x] + SumOf(g, T)
  BY <1>1, SumTakesOut
<1> HIDE DEF T
<1>5. SumOf(f, T) = f[y] + SumOf(f, R) /\ SumOf(g, T) = g[y] + SumOf(g, R)
  <2>1. \A z \in T : f[z] \in Int /\ g[z] \in Int
    BY <1>1, <1>2
  <2>2. QED
    BY <1>2, <2>1, SumTakesOut
<1> HIDE DEF R
<1>6. SumOf(g, R) = SumOf(f, R)
  <2>1. \A z \in R : g[z] = f[z]
    BY <1>3
  <2>2. QED
    BY <1>3, <2>1, SumsAgree
<1>7. SumOf(f, R) \in Int
  <2>1. \A z \in R : f[z] \in Int
    BY <1>3
  <2>2. QED
    BY <1>3, <2>1, SumTyped
<1>8. f[x] \in Int /\ f[y] \in Int
  OBVIOUS
<1>9. SumOf(g, S) = (f[x] + c) + ((f[y] - c) + SumOf(f, R))
  BY <1>4, <1>5, <1>6
<1>10. SumOf(f, S) = f[x] + (f[y] + SumOf(f, R))
  BY <1>4, <1>5
<1>11. QED
  BY <1>7, <1>8, <1>9, <1>10

LEMMA MinOfPair ==
    ASSUME NEW x \in Nat \ {0}, NEW y \in Nat \ {0}, NEW a, a = Min({x, y})
    PROVE  a \in Nat \ {0} /\ a <= x /\ a <= y /\ (a = x \/ a = y)
<1>1. \E m \in {x, y} : \A z \in {x, y} : m <= z
  OBVIOUS
<1>2. QED
  BY <1>1 DEF Min

Remainders(b, t) == [u \in Users |-> Remainder(b, t, u)]

\* Where the loop stands: what is open in the lists is what the transfers so far
\* have not cleared.
Settling(b, s) ==
    /\ IsList(s.creditors) /\ IsList(s.debtors) /\ s.transfers \in Seq(Transfer)
    /\ \A i \in 1..Len(s.creditors) : Balance(b, s.creditors[i].user) > 0
    /\ \A i \in 1..Len(s.debtors) : Balance(b, s.debtors[i].user) < 0
    /\ \A i \in 1..Len(s.transfers) : /\ Balance(b, s.transfers[i].from) < 0
                                      /\ Balance(b, s.transfers[i].to) > 0
    /\ \A u \in Users : Remainder(b, s.transfers, u)
                          = OpenIn(s.creditors, u) - OpenIn(s.debtors, u)
    /\ SumOf(Remainders(b, s.transfers), Users) = SumOf(Remainders(b, <<>>), Users)

LEMMA PaySettles ==
    ASSUME NEW b, IsBill(b), NEW s, Settling(b, s),
           s.creditors # <<>>, s.debtors # <<>>, NEW p, p = Pay(s)
    PROVE  /\ Settling(b, p)
           /\ Len(p.transfers) = Len(s.transfers) + 1
           /\ Len(p.creditors) \in {Len(s.creditors), Len(s.creditors) - 1}
           /\ Len(p.debtors) \in {Len(s.debtors), Len(s.debtors) - 1}
           /\ \/ Len(p.creditors) = Len(s.creditors) - 1
              \/ Len(p.debtors) = Len(s.debtors) - 1
<1>1. PICK C : C = s.creditors
  OBVIOUS
<1>2. PICK D : D = s.debtors
  OBVIOUS
<1>3. PICK t : t = s.transfers
  OBVIOUS
<1>4. IsList(C) /\ IsList(D) /\ t \in Seq(Transfer) /\ C # <<>> /\ D # <<>>
  BY <1>1, <1>2, <1>3 DEF Settling
<1>5. \A i \in 1..Len(C) : Balance(b, C[i].user) > 0
  BY <1>1 DEF Settling
<1>6. \A i \in 1..Len(D) : Balance(b, D[i].user) < 0
  BY <1>2 DEF Settling
<1>7. \A i \in 1..Len(t) : Balance(b, t[i].from) < 0 /\ Balance(b, t[i].to) > 0
  BY <1>3 DEF Settling
<1>8. \A u \in Users : Remainder(b, t, u) = OpenIn(C, u) - OpenIn(D, u)
  BY <1>1, <1>2, <1>3 DEF Settling
<1>9. SumOf(Remainders(b, t), Users) = SumOf(Remainders(b, <<>>), Users)
  BY <1>3 DEF Settling
<1>10. C \in Seq(Entry) /\ 1 \in 1..Len(C) /\ Head(C) = C[1]
  BY <1>4, EmptySeq, LenProperties DEF IsList
<1>11. D \in Seq(Entry) /\ 1 \in 1..Len(D) /\ Head(D) = D[1]
  BY <1>4, EmptySeq, LenProperties DEF IsList
<1>12. C[1] \in Entry /\ D[1] \in Entry
  BY <1>10, <1>11, ElementOfSeq
<1>13. PICK c \in Users : c = C[1].user
  BY <1>12 DEF Entry
<1>14. PICK d \in Users : d = D[1].user
  BY <1>12 DEF Entry
<1>15. C[1].open \in Nat \ {0} /\ D[1].open \in Nat \ {0}
  BY <1>12 DEF Entry
<1>16. PICK a : a = Min({C[1].open, D[1].open})
  OBVIOUS
<1>17. a \in Nat \ {0} /\ a <= C[1].open /\ a <= D[1].open
       /\ (a = C[1].open \/ a = D[1].open)
  BY <1>15, <1>16, MinOfPair
<1>18. PICK C2 : C2 = Less(C, a)
  OBVIOUS
<1>19. PICK D2 : D2 = Less(D, a)
  OBVIOUS
<1>20. PICK x : x = [from |-> d, to |-> c, amount |-> a]
  OBVIOUS
<1>21. PICK t2 : t2 = Append(t, x)
  OBVIOUS
<1>22. p.creditors = C2 /\ p.debtors = D2 /\ p.transfers = t2
  BY <1>1, <1>2, <1>3, <1>10, <1>11, <1>13, <1>14, <1>16, <1>18, <1>19, <1>20, <1>21
     DEF Pay
<1>23. /\ IsList(C2)
       /\ Len(C2) = IF C[1].open = a THEN Len(C) - 1 ELSE Len(C)
       /\ \A i \in 1..Len(C2) : \E j \in 1..Len(C) : C2[i].user = C[j].user
       /\ \A u : OpenIn(C2, u) = OpenIn(C, u) - IF u = C[1].user THEN a ELSE 0
  <2>1. Shortens(C, a, C2)
    BY <1>4, <1>17, <1>18 DEF Shortens
  <2>2. QED
    BY <2>1, LessTakesOff
<1>24. /\ IsList(D2)
       /\ Len(D2) = IF D[1].open = a THEN Len(D) - 1 ELSE Len(D)
       /\ \A i \in 1..Len(D2) : \E j \in 1..Len(D) : D2[i].user = D[j].user
       /\ \A u : OpenIn(D2, u) = OpenIn(D, u) - IF u = D[1].user THEN a ELSE 0
  <2>1. Shortens(D, a, D2)
    BY <1>4, <1>17, <1>19 DEF Shortens
  <2>2. QED
    BY <2>1, LessTakesOff
<1>25. x \in Transfer /\ x.from = d /\ x.to = c /\ x.amount = a
  BY <1>17, <1>20 DEF Transfer
<1>26. /\ t2 \in Seq(Transfer) /\ Len(t2) = Len(t) + 1 /\ t2[Len(t) + 1] = x
       /\ \A i \in 1..Len(t) : t2[i] = t[i]
  BY <1>4, <1>21, <1>25
<1>27. Balance(b, c) > 0 /\ Balance(b, d) < 0 /\ Balance(b, c) \in Int /\ Balance(b, d) \in Int
  BY <1>5, <1>6, <1>10, <1>11, <1>13, <1>14, BalancesAddUp
<1>28. c # d
  BY <1>27
<1>29. ASSUME NEW u \in Users
       PROVE  /\ Remainder(b, t, u) \in Int
              /\ Remainder(b, t2, u) = (Remainder(b, t, u) + IF u = d THEN a ELSE 0)
                                         - IF u = c THEN a ELSE 0
  <2>1. /\ Remainder(b, t, u) \in Int
        /\ Remainder(b, Append(t, x), u)
             = (Remainder(b, t, u) + IF x.from = u THEN x.amount ELSE 0)
                 - IF x.to = u THEN x.amount ELSE 0
    BY <1>4, <1>25, RemainderMoves
  <2>2. QED
    BY <1>21, <1>25, <2>1
<1>30. ASSUME NEW u \in Users
       PROVE  Remainder(b, t2, u) = OpenIn(C2, u) - OpenIn(D2, u)
  <2>1. PICK r \in Int : r = Remainder(b, t, u)
    BY <1>29
  <2>2. PICK v \in Nat : v = OpenIn(C, u)
    BY <1>4, OpenOfEntries
  <2>3. PICK w \in Nat : w = OpenIn(D, u)
    BY <1>4, OpenOfEntries
  <2>4. PICK k \in Nat : k = IF u = c THEN a ELSE 0
    BY <1>17
  <2>5. PICK l \in Nat : l = IF u = d THEN a ELSE 0
    BY <1>17
  <2>6. r = v - w
    BY <1>8, <2>1, <2>2, <2>3
  <2>7. Remainder(b, t2, u) = (r + l) - k
    BY <1>29, <2>1, <2>4, <2>5
  <2>8. OpenIn(C2, u) = v - k
    BY <1>13, <1>23, <2>2, <2>4
  <2>9. OpenIn(D2, u) = w - l
    BY <1>14, <1>24, <2>3, <2>5
  <2>10. ((v - w) + l) - k = (v - k) - (w - l)
    OBVIOUS
  <2>11. QED
    BY <2>6, <2>7, <2>8, <2>9, <2>10
<1>31. SumOf(Remainders(b, t2), Users) = SumOf(Remainders(b, t), Users)
  <2>1. PICK f : f = Remainders(b, t)
    OBVIOUS
  <2>2. PICK g : g = Remainders(b, t2)
    OBVIOUS
  <2>3. \A u \in Users : f[u] = Remainder(b, t, u) /\ g[u] = Remainder(b, t2, u)
    BY <2>1, <2>2 DEF Remainders
  <2>4. \A u \in Users : f[u] \in Int
    BY <1>29, <2>3
  <2>5. \A u \in Users : g[u] = (f[u] + IF u = d THEN a ELSE 0) - IF u = c THEN a ELSE 0
    BY <1>29, <2>3
  <2>6. g[d] = f[d] + a /\ g[c] = f[c] - a
    BY <1>17, <1>28, <2>4, <2>5
  <2>7. \A u \in Users \ {d, c} : g[u] = f[u]
    BY <2>4, <2>5
  <2>8. Shifts(f, g, Users, d, c, a)
    BY <1>17, <1>28, <2>4, <2>6, <2>7, UsersAssumption DEF Shifts, UsersAssumption
  <2>9. QED
    BY <2>1, <2>2, <2>8, SumShifts
<1>32. \A i \in 1..Len(C2) : Balance(b, C2[i].user) > 0
  <2>1. SUFFICES ASSUME NEW i \in 1..Len(C2) PROVE Balance(b, C2[i].user) > 0
    OBVIOUS
  <2>2. PICK j \in 1..Len(C) : C2[i].user = C[j].user
    BY <1>23
  <2>3. QED
    BY <1>5, <2>2
<1>33. \A i \in 1..Len(D2) : Balance(b, D2[i].user) < 0
  <2>1. SUFFICES ASSUME NEW i \in 1..Len(D2) PROVE Balance(b, D2[i].user) < 0
    OBVIOUS
  <2>2. PICK j \in 1..Len(D) : D2[i].user = D[j].user
    BY <1>24
  <2>3. QED
    BY <1>6, <2>2
<1>34. \A i \in 1..Len(t2) : Balance(b, t2[i].from) < 0 /\ Balance(b, t2[i].to) > 0
  <2>1. SUFFICES ASSUME NEW i \in 1..Len(t2)
                 PROVE  Balance(b, t2[i].from) < 0 /\ Balance(b, t2[i].to) > 0
    OBVIOUS
  <2>2. CASE i \in 1..Len(t)
    BY <1>7, <1>26, <2>2
  <2>3. CASE i = Len(t) + 1
    BY <1>25, <1>26, <1>27, <2>3
  <2>4. QED
    BY <1>4, <1>26, <2>2, <2>3
<1>35. Settling(b, p)
  BY <1>9, <1>22, <1>23, <1>24, <1>26, <1>30, <1>31, <1>32, <1>33, <1>34 DEF Settling
<1>36. QED
  BY <1>1, <1>2, <1>3, <1>17, <1>22, <1>23, <1>24, <1>26, <1>35

-----------------------------------------------------------------------------
\* The loop, and where it ends.

LEMMA LeastNumber ==
    ASSUME NEW T \in SUBSET Nat, T # {}
    PROVE  \E n \in T : \A m \in T : n <= m
<1>1. PICK k \in T : TRUE
  OBVIOUS
<1> DEFINE S == 1..k
           F == {A \in SUBSET S : \E m \in T : m <= k /\ A = 1..m}
<1>2. IsFiniteSet(S) /\ F \in SUBSET (SUBSET S)
  BY FS_Interval
<1>3. S \in F
  OBVIOUS
<1>4. PICK A \in F : \A B \in F : B \subseteq A => B = A
  <2> HIDE DEF S, F
  <2>1. QED
    BY <1>2, <1>3, MinimalSubset
<1>5. PICK n \in T : n <= k /\ A = 1..n
  BY <1>4
<1>6. ASSUME NEW m \in T, m < n PROVE FALSE
  <2>1. 1..m \in F /\ 1..m \subseteq A
    BY <1>5, <1>6
  <2>2. 1..m = 1..n
    BY <1>4, <1>5, <2>1
  <2>3. n \in 1..n /\ n \notin 1..m
    BY <1>6
  <2>4. QED
    BY <2>2, <2>3
<1>7. QED
  BY <1>6

\* One turn of the loop, or none when it has ended.
Turn(s) == IF s.creditors = <<>> \/ s.debtors = <<>> THEN s ELSE Pay(s)

\* The first n turns.
Turns(g, start, n) ==
    /\ g[0] = start
    /\ \A i \in 0..n : i # 0 => g[i] = Turn(g[i - 1])

LEMMA TurnsExist ==
    ASSUME NEW start, NEW k \in Nat
    PROVE  \E g : Turns(g, start, k)
<1> DEFINE T == {n \in Nat : ~ \E g : Turns(g, start, n)}
<1>1. SUFFICES ASSUME T # {} PROVE FALSE
  OBVIOUS
<1>2. PICK n \in T : \A m \in T : n <= m
  <2>1. T \in SUBSET Nat
    OBVIOUS
  <2> HIDE DEF T
  <2>2. QED
    BY <1>1, <2>1, LeastNumber
<1>3. n # 0
  <2>1. ASSUME n = 0 PROVE FALSE
    <3>1. Turns([i \in {0} |-> start], start, n)
      BY <2>1 DEF Turns
    <3>2. QED
      BY <3>1
  <2>2. QED
    BY <2>1
<1>4. PICK m \in Nat : m = n - 1
  BY <1>3
<1>5. m \notin T
  BY <1>2, <1>4
<1>6. PICK g : Turns(g, start, m)
  BY <1>5
<1> DEFINE h == [i \in 0..n |-> IF i = n THEN Turn(g[m]) ELSE g[i]]
<1>7. h[0] = start
  BY <1>3, <1>6 DEF Turns
<1>8. ASSUME NEW i \in 0..n, i # 0 PROVE h[i] = Turn(h[i - 1])
  <2>1. i - 1 \in 0..n /\ i - 1 # n /\ h[i - 1] = g[i - 1]
    BY <1>8
  <2>2. CASE i = n
    BY <1>4, <2>1, <2>2
  <2>3. CASE i # n
    <3>1. i \in 0..m /\ h[i] = g[i]
      BY <1>4, <2>3
    <3>2. QED
      BY <1>6, <1>8, <2>1, <3>1 DEF Turns
  <2>4. QED
    BY <2>2, <2>3
<1> HIDE DEF h
<1>9. Turns(h, start, n)
  BY <1>7, <1>8 DEF Turns
<1>10. QED
  BY <1>9

LEMMA TurnsAgree ==
    ASSUME NEW start, NEW p \in Nat, NEW g, Turns(g, start, p),
           NEW q \in Nat, NEW h, Turns(h, start, q)
    PROVE  \A i \in Nat : i <= p /\ i <= q => g[i] = h[i]
<1> DEFINE T == {i \in Nat : i <= p /\ i <= q /\ g[i] # h[i]}
<1>1. SUFFICES ASSUME T # {} PROVE FALSE
  OBVIOUS
<1>2. PICK n \in T : \A m \in T : n <= m
  <2>1. T \in SUBSET Nat
    OBVIOUS
  <2> HIDE DEF T
  <2>2. QED
    BY <1>1, <2>1, LeastNumber
<1>3. n # 0
  BY DEF Turns
<1>4. PICK m \in Nat : m = n - 1
  BY <1>3
<1>5. m \notin T /\ m <= p /\ m <= q
  BY <1>2, <1>4
<1>6. g[m] = h[m]
  BY <1>5
<1>7. g[n] = Turn(g[m]) /\ h[n] = Turn(h[m])
  BY <1>3, <1>4 DEF Turns
<1>8. QED
  BY <1>6, <1>7

\* The loop, turn by turn.
Runs(f, start) == f = [n \in Nat |-> IF n = 0 THEN start ELSE Turn(f[n - 1])]

LEMMA RunsExist == \A start : \E f : Runs(f, start)
<1>1. SUFFICES ASSUME NEW start PROVE \E f : Runs(f, start)
  OBVIOUS
<1> DEFINE of(n) == CHOOSE g : Turns(g, start, n)
           f == [n \in Nat |-> of(n)[n]]
<1>2. \A n \in Nat : Turns(of(n), start, n)
  BY TurnsExist
<1> HIDE DEF of
<1>3. ASSUME NEW n \in Nat
      PROVE  of(n)[n] = IF n = 0 THEN start ELSE Turn(f[n - 1])
  <2>1. CASE n = 0
    <3>1. Turns(of(0), start, 0)
      BY <1>2
    <3>2. of(0)[0] = start
      BY <3>1 DEF Turns
    <3>3. QED
      BY <2>1, <3>2
  <2>2. CASE n # 0
    <3>1. PICK m \in Nat : m = n - 1
      BY <2>2
    <3>2. PICK g : g = of(n)
      OBVIOUS
    <3>3. PICK h : h = of(m)
      OBVIOUS
    <3>4. Turns(g, start, n)
      BY <1>2, <3>2
    <3>5. Turns(h, start, m)
      BY <1>2, <3>3
    <3>6. g[m] = h[m]
      <4>1. m <= n /\ m <= m
        BY <3>1
      <4>2. QED
        BY <3>4, <3>5, <4>1, TurnsAgree
    <3>7. g[n] = Turn(g[m])
      BY <2>2, <3>1, <3>4 DEF Turns
    <3>8. f[m] = h[m]
      BY <3>3
    <3>9. QED
      BY <2>2, <3>1, <3>2, <3>6, <3>7, <3>8
  <2>3. QED
    BY <2>1, <2>2
<1>4. Runs(f, start)
  <2>1. f = [n \in Nat |-> IF n = 0 THEN start ELSE Turn(f[n - 1])]
    BY <1>3
  <2>2. QED
    BY <2>1 DEF Runs
<1>5. QED
  BY <1>4

LEMMA RunsStep ==
    ASSUME NEW f, NEW start, Runs(f, start)
    PROVE  /\ f[0] = start
           /\ \A n \in Nat : n # 0 => f[n] = Turn(f[n - 1])
<1>1. \A n \in Nat : f[n] = IF n = 0 THEN start ELSE Turn(f[n - 1])
  BY DEF Runs
<1>2. QED
  BY <1>1

LEMMA TransfersRun ==
    ASSUME NEW b, NEW start, start = [creditors |-> Creditors(b),
                                      debtors   |-> Debtors(b),
                                      transfers |-> <<>>]
    PROVE  \E f : /\ Runs(f, start)
                  /\ Transfers(b) = f[Len(Creditors(b)) + Len(Debtors(b))].transfers
<1> DEFINE f == CHOOSE f : Runs(f, start)
<1>1. Runs(f, start)
  BY RunsExist
<1>2. Transfers(b) = f[Len(start.creditors) + Len(start.debtors)].transfers
  BY DEF Transfers, Runs, Turn
<1>3. start.creditors = Creditors(b) /\ start.debtors = Debtors(b)
  OBVIOUS
<1>4. QED
  BY <1>1, <1>2, <1>3

\* How far the loop has come after n turns, of n0 at most.
Going(s, n, n0) ==
    /\ Len(s.transfers) + (Len(s.creditors) + Len(s.debtors)) <= n0
    /\ s.creditors = <<>> /\ s.debtors = <<>> /\ n0 > 0 => Len(s.transfers) < n0
    /\ \/ s.creditors = <<>> \/ s.debtors = <<>>
       \/ (Len(s.creditors) + Len(s.debtors)) + n <= n0

LEMMA PayGoes ==
    ASSUME NEW b, IsBill(b), NEW s, Settling(b, s), NEW n \in Nat, NEW n0 \in Nat,
           Going(s, n, n0)
    PROVE  Settling(b, Turn(s)) /\ Going(Turn(s), n + 1, n0)
<1>1. CASE s.creditors = <<>> \/ s.debtors = <<>>
  BY <1>1 DEF Turn, Going
<1>2. CASE s.creditors # <<>> /\ s.debtors # <<>>
  <2>1. PICK p : p = Pay(s)
    OBVIOUS
  <2>2. /\ Settling(b, p)
        /\ Len(p.transfers) = Len(s.transfers) + 1
        /\ Len(p.creditors) \in {Len(s.creditors), Len(s.creditors) - 1}
        /\ Len(p.debtors) \in {Len(s.debtors), Len(s.debtors) - 1}
        /\ \/ Len(p.creditors) = Len(s.creditors) - 1
           \/ Len(p.debtors) = Len(s.debtors) - 1
    BY <1>2, <2>1, PaySettles
  <2>3. Turn(s) = p
    BY <1>2, <2>1 DEF Turn
  <2>4. \A L : IsList(L) => Len(L) \in Nat /\ (Len(L) = 0 <=> L = <<>>)
    BY EmptySeq, LenProperties DEF IsList
  <2>5. PICK c \in Nat : c = Len(s.creditors)
    BY <2>4 DEF Settling
  <2>6. PICK d \in Nat : d = Len(s.debtors)
    BY <2>4 DEF Settling
  <2>7. PICK t \in Nat : t = Len(s.transfers)
    BY LenProperties DEF Settling
  <2>8. PICK c2 \in Nat : c2 = Len(p.creditors)
    BY <2>2, <2>4 DEF Settling
  <2>9. PICK d2 \in Nat : d2 = Len(p.debtors)
    BY <2>2, <2>4 DEF Settling
  <2>10. c # 0 /\ d # 0
    BY <1>2, <2>4, <2>5, <2>6 DEF Settling
  <2>11. t + (c + d) <= n0 /\ (c + d) + n <= n0
    BY <1>2, <2>5, <2>6, <2>7 DEF Going
  <2>12. /\ c2 \in {c, c - 1} /\ d2 \in {d, d - 1}
         /\ c2 = c - 1 \/ d2 = d - 1
    BY <2>2, <2>5, <2>6, <2>8, <2>9
  <2>13. (t + 1) + (c2 + d2) <= n0 /\ (c2 + d2) + (n + 1) <= n0
    BY <2>10, <2>11, <2>12
  <2>14. c2 = 0 /\ d2 = 0 => t + 1 < n0
    BY <2>10, <2>11, <2>12
  <2>15. p.creditors = <<>> /\ p.debtors = <<>> => c2 = 0 /\ d2 = 0
    BY <2>2, <2>4, <2>8, <2>9 DEF Settling
  <2>16. Going(p, n + 1, n0)
    BY <2>2, <2>7, <2>8, <2>9, <2>13, <2>14, <2>15 DEF Going
  <2>17. QED
    BY <2>2, <2>3, <2>16
<1>3. QED
  BY <1>1, <1>2

\* Where the loop starts.
LEMMA StartSettles ==
    ASSUME NEW b, IsBill(b), NEW s, s = [creditors |-> Creditors(b),
                                         debtors   |-> Debtors(b),
                                         transfers |-> <<>>]
    PROVE  /\ Settling(b, s)
           /\ Len(Creditors(b)) + Len(Debtors(b)) \in Nat
           /\ Going(s, 0, Len(Creditors(b)) + Len(Debtors(b)))
<1>1. PICK C : C = Creditors(b)
  OBVIOUS
<1>2. PICK D : D = Debtors(b)
  OBVIOUS
<1>3. /\ IsList(C)
      /\ \A i \in 1..Len(C) : Balance(b, C[i].user) > 0
      /\ \A u \in Users : OpenIn(C, u) = IF Balance(b, u) > 0 THEN Balance(b, u) ELSE 0
  BY <1>1, CreditorsListed
<1>4. /\ IsList(D)
      /\ \A i \in 1..Len(D) : Balance(b, D[i].user) < 0
      /\ \A u \in Users : OpenIn(D, u) = IF Balance(b, u) < 0 THEN -Balance(b, u) ELSE 0
  BY <1>2, DebtorsListed
<1>5. s.creditors = C /\ s.debtors = D /\ s.transfers = <<>>
  BY <1>1, <1>2
<1>6. <<>> \in Seq(Transfer) /\ Len(<<>>) = 0
  OBVIOUS
<1>7. ASSUME NEW u \in Users PROVE Remainder(b, <<>>, u) = OpenIn(C, u) - OpenIn(D, u)
  <2>1. PICK x \in Int : x = Balance(b, u)
    BY BalancesAddUp
  <2>2. Remainder(b, <<>>, u) = x
    BY <2>1, RemainderAtFirst
  <2>3. OpenIn(C, u) = IF x > 0 THEN x ELSE 0
    BY <1>3, <2>1
  <2>4. OpenIn(D, u) = IF x < 0 THEN -x ELSE 0
    BY <1>4, <2>1
  <2>5. (IF x > 0 THEN x ELSE 0) - (IF x < 0 THEN -x ELSE 0) = x
    OBVIOUS
  <2>6. QED
    BY <2>2, <2>3, <2>4, <2>5
<1>8. Settling(b, s)
  BY <1>3, <1>4, <1>5, <1>6, <1>7 DEF Settling
<1>9. \A L : IsList(L) => Len(L) \in Nat /\ (Len(L) = 0 <=> L = <<>>)
  BY EmptySeq, LenProperties DEF IsList
<1>10. PICK c \in Nat : c = Len(C)
  BY <1>3, <1>9
<1>11. PICK d \in Nat : d = Len(D)
  BY <1>4, <1>9
<1>12. C = <<>> => c = 0
  BY <1>10
<1>13. D = <<>> => d = 0
  BY <1>11
<1>14. Going(s, 0, c + d)
  BY <1>5, <1>6, <1>10, <1>11, <1>12, <1>13 DEF Going
<1>15. QED
  BY <1>1, <1>2, <1>8, <1>10, <1>11, <1>14

\* The loop ends, after as many turns as there are open balances at most.
LEMMA TransfersSettle ==
    ASSUME NEW b, IsBill(b)
    PROVE  \E s : /\ Transfers(b) = s.transfers
                  /\ Settling(b, s)
                  /\ Going(s, Len(Creditors(b)) + Len(Debtors(b)),
                              Len(Creditors(b)) + Len(Debtors(b)))
<1>1. PICK start : start = [creditors |-> Creditors(b),
                            debtors   |-> Debtors(b),
                            transfers |-> <<>>]
  OBVIOUS
<1>2. PICK n0 : n0 = Len(Creditors(b)) + Len(Debtors(b))
  OBVIOUS
<1>3. Settling(b, start) /\ n0 \in Nat /\ Going(start, 0, n0)
  BY <1>1, <1>2, StartSettles
<1>4. PICK f : Runs(f, start) /\ Transfers(b) = f[n0].transfers
  BY <1>1, <1>2, TransfersRun
<1>5. f[0] = start /\ \A n \in Nat : n # 0 => f[n] = Turn(f[n - 1])
  BY <1>4, RunsStep
<1> DEFINE T == {n \in Nat : ~(Settling(b, f[n]) /\ Going(f[n], n, n0))}
<1>6. T = {}
  <2>1. SUFFICES ASSUME T # {} PROVE FALSE
    OBVIOUS
  <2>2. PICK n \in T : \A m \in T : n <= m
    <3>1. T \in SUBSET Nat
      OBVIOUS
    <3> HIDE DEF T
    <3>2. QED
      BY <2>1, <3>1, LeastNumber
  <2>3. n # 0
    BY <1>3, <1>5
  <2>4. PICK m \in Nat : m = n - 1
    BY <2>3
  <2>5. m \notin T
    BY <2>2, <2>4
  <2>6. Settling(b, f[m]) /\ Going(f[m], m, n0)
    BY <2>5
  <2>7. Settling(b, Turn(f[m])) /\ Going(Turn(f[m]), m + 1, n0)
    BY <1>3, <2>6, PayGoes
  <2>8. f[n] = Turn(f[m]) /\ m + 1 = n
    BY <1>5, <2>3, <2>4
  <2>9. QED
    BY <2>7, <2>8
<1>7. Settling(b, f[n0]) /\ Going(f[n0], n0, n0)
  BY <1>3, <1>6
<1>8. QED
  BY <1>2, <1>4, <1>7

LEMMA SumBelowZero ==
    ASSUME NEW S, IsFiniteSet(S), NEW f, \A x \in S : f[x] \in Int, \A x \in S : f[x] <= 0,
           NEW y \in S, f[y] < 0
    PROVE  SumOf(f, S) < 0
<1> DEFINE T == S \ {y}
           g == [x \in S |-> -f[x]]
           h == [x \in S |-> 0]
<1>1. IsFiniteSet(T) /\ T \subseteq S
  BY FS_RemoveElement
<1>2. SumOf(f, S) = f[y] + SumOf(f, T)
  BY SumTakesOut
<1>3. \A x \in T : f[x] \in Int /\ g[x] \in Int /\ h[x] = f[x] + g[x]
  OBVIOUS
<1>4. \A x \in T : h[x] = 0
  OBVIOUS
<1>5. \A x \in T : g[x] >= 0
  OBVIOUS
<1>6. \A x \in T : f[x] \in Int
  OBVIOUS
<1>7. \A x \in T : g[x] \in Int
  OBVIOUS
<1> HIDE DEF T, g, h
<1>8. SumOf(h, T) = SumOf(f, T) + SumOf(g, T)
  BY <1>1, <1>3, SumsAdd
<1>9. SumOf(h, T) = 0
  BY <1>1, <1>4, SumOfZeros
<1>10. SumOf(g, T) \in Int /\ SumOf(g, T) >= 0
  BY <1>1, <1>5, <1>7, SumTyped
<1>11. SumOf(f, T) \in Int
  BY <1>1, <1>6, SumTyped
<1>12. f[y] \in Int
  OBVIOUS
<1>13. PICK p \in Int : p = SumOf(f, T)
  BY <1>11
<1>14. PICK q \in Int : q = SumOf(g, T) /\ q >= 0
  BY <1>10
<1>15. 0 = p + q
  BY <1>8, <1>9, <1>13, <1>14
<1>16. SumOf(f, S) = f[y] + p
  BY <1>2, <1>13
<1>17. QED
  BY <1>12, <1>14, <1>15, <1>16

\* The bill is settled: nobody owes anything any more.
LEMMA LoopClears ==
    ASSUME NEW b, IsBill(b), NEW s, Settling(b, s), NEW n0 \in Nat, Going(s, n0, n0)
    PROVE  /\ s.debtors = <<>>
           /\ \A u \in Users : Remainder(b, s.transfers, u) >= 0
<1>1. PICK C : C = s.creditors
  OBVIOUS
<1>2. PICK D : D = s.debtors
  OBVIOUS
<1>3. PICK t : t = s.transfers
  OBVIOUS
<1>4. PICK f : f = Remainders(b, t)
  OBVIOUS
<1>5. PICK g : g = Remainders(b, <<>>)
  OBVIOUS
<1>6. IsList(C) /\ IsList(D)
  BY <1>1, <1>2 DEF Settling
<1>7. \A L : IsList(L) => Len(L) \in Nat /\ (Len(L) = 0 <=> L = <<>>)
  BY EmptySeq, LenProperties DEF IsList
<1>8. C = <<>> \/ D = <<>>
  <2>1. PICK c \in Nat : c = Len(C)
    BY <1>6, <1>7
  <2>2. PICK d \in Nat : d = Len(D)
    BY <1>6, <1>7
  <2>3. SUFFICES ASSUME (c + d) + n0 <= n0 PROVE c = 0
    BY <1>1, <1>2, <1>6, <1>7, <2>1, <2>2 DEF Going
  <2>4. QED
    BY <2>3
<1>9. \A u \in Users : f[u] = OpenIn(C, u) - OpenIn(D, u)
  BY <1>1, <1>2, <1>3, <1>4 DEF Settling, Remainders
<1>10. \A u : OpenIn(C, u) \in Nat
  BY <1>6, OpenOfEntries
<1>11. \A u : OpenIn(D, u) \in Nat
  BY <1>6, OpenOfEntries
<1>12. \A u \in Users : f[u] \in Int
  BY <1>9, <1>10, <1>11
<1>13. SumOf(f, Users) \in Nat
  <2> DEFINE balance == [u \in Users |-> Balance(b, u)]
  <2>1. SumOf(balance, Users) \in Nat
    BY BalancesAddUp
  <2>2. \A u \in Users : g[u] = balance[u]
    BY <1>5, RemainderAtFirst DEF Remainders
  <2> HIDE DEF balance
  <2>3. SumOf(g, Users) = SumOf(balance, Users)
    BY <2>2, SumsAgree, UsersAssumption DEF UsersAssumption
  <2>4. SumOf(f, Users) = SumOf(g, Users)
    BY <1>3, <1>4, <1>5 DEF Settling
  <2>5. QED
    BY <2>1, <2>3, <2>4
<1>14. ASSUME D # <<>> PROVE FALSE
  <2>1. C = <<>>
    BY <1>8, <1>14
  <2>2. \A u \in Users : OpenIn(C, u) = 0
    BY <2>1 DEF OpenIn
  <2>3. \A u \in Users : f[u] <= 0
    BY <1>9, <1>11, <2>2
  <2>4. 1 \in 1..Len(D)
    BY <1>6, <1>7, <1>14
  <2>5. D[1] \in Entry
    BY <1>6, <2>4, ElementOfSeq DEF IsList
  <2>6. PICK d \in Users : d = D[1].user
    BY <2>5 DEF Entry
  <2>7. OpenIn(D, d) # 0
    BY <1>6, <2>4, <2>6, OpenOfEntries
  <2>8. f[d] < 0
    BY <1>9, <1>11, <2>2, <2>7
  <2>9. SumOf(f, Users) < 0
    BY <1>12, <2>3, <2>8, SumBelowZero, UsersAssumption DEF UsersAssumption
  <2>10. QED
    BY <1>13, <2>9
<1>15. \A u \in Users : OpenIn(D, u) = 0
  BY <1>14 DEF OpenIn
<1>16. \A u \in Users : f[u] >= 0
  BY <1>9, <1>10, <1>15
<1>17. QED
  BY <1>2, <1>3, <1>4, <1>14, <1>16 DEF Remainders

LEMMA BillIsCleared ==
    ASSUME NEW b, IsBill(b)
    PROVE  Clears(b) /\ Frugal(b)
<1>1. PICK n0 : n0 = Len(Creditors(b)) + Len(Debtors(b))
  OBVIOUS
<1>2. n0 \in Nat
  BY <1>1, StartSettles
<1>3. PICK s : Transfers(b) = s.transfers /\ Settling(b, s) /\ Going(s, n0, n0)
  BY <1>1, TransfersSettle
<1>4. PICK t : t = Transfers(b)
  OBVIOUS
<1>5. s.debtors = <<>> /\ \A u \in Users : Remainder(b, t, u) >= 0
  BY <1>2, <1>3, <1>4, LoopClears
<1>6. Clears(b)
  <2> DEFINE unshared == {x \in DOMAIN b : b[x].among = {}}
             balance  == [u \in Users |-> Balance(b, u)]
             amounts  == [x \in unshared |-> b[x].amount]
             left     == [u \in Users |-> Remainder(b, t, u)]
  <2>1. SumOf(balance, Users) = SumFunction(amounts)
    BY BalancesAddUp
  <2>2. Remainders(b, <<>>) = balance
    BY RemainderAtFirst DEF Remainders
  <2>3. SumOf(Remainders(b, t), Users) = SumOf(Remainders(b, <<>>), Users)
    BY <1>3, <1>4 DEF Settling
  <2>4. SumFunction(left) = SumOf(Remainders(b, t), Users)
    BY DEF SumFunction, SumOf, Remainders
  <2>5. SumFunction(left) = SumFunction(amounts)
    BY <2>1, <2>2, <2>3, <2>4
  <2>6. QED
    BY <1>4, <1>5, <2>5 DEF Clears
<1>7. t \in Seq(Transfer) /\ Len(t) \in Nat /\ DOMAIN t = 1..Len(t)
  BY <1>3, <1>4 DEF Settling
<1>8. \A i \in 1..Len(t) : t[i].amount > 0
  <2>1. \A i \in 1..Len(t) : t[i] \in Transfer
    BY <1>7, ElementOfSeq
  <2>2. QED
    BY <2>1 DEF Transfer
<1>9. \A i \in 1..Len(t) : Balance(b, t[i].from) < 0 /\ Balance(b, t[i].to) > 0
  BY <1>3, <1>4 DEF Settling
<1>10. n0 > 0 => Len(t) < n0
  <2>1. PICK C : C = s.creditors
    OBVIOUS
  <2>2. IsList(C)
    BY <1>3, <2>1 DEF Settling
  <2>3. PICK c \in Nat : c = Len(C) /\ (c = 0 <=> C = <<>>)
    BY <2>2, EmptySeq, LenProperties DEF IsList
  <2>4. CASE C = <<>>
    BY <1>3, <1>4, <1>5, <2>1, <2>4 DEF Going
  <2>5. CASE C # <<>>
    <3>1. Len(t) + (c + 0) <= n0
      BY <1>3, <1>4, <1>5, <2>1, <2>3 DEF Going
    <3>2. QED
      BY <1>2, <1>7, <2>3, <2>5, <3>1
  <2>6. QED
    BY <2>4, <2>5
<1>11. n0 = Cardinality({u \in Users : Balance(b, u) # 0})
  <2> DEFINE cs == {u \in Users : Balance(b, u) > 0}
             ds == {u \in Users : Balance(b, u) < 0}
             people == {u \in Users : Balance(b, u) # 0}
  <2>1. \A u \in Users : Balance(b, u) \in Int
    BY BalancesAddUp
  <2>2. IsFiniteSet(cs)
    BY FS_Subset, UsersAssumption DEF UsersAssumption
  <2>3. IsFiniteSet(ds)
    BY FS_Subset, UsersAssumption DEF UsersAssumption
  <2>4. people = cs \cup ds
    BY <2>1
  <2>5. cs \cap ds = {}
    BY <2>1
  <2>6. Len(Creditors(b)) = Cardinality(cs) /\ Len(Debtors(b)) = Cardinality(ds)
    BY CreditorsListed, DebtorsListed
  <2> HIDE DEF cs, ds, people
  <2>7. Cardinality(people) = Cardinality(cs) + Cardinality(ds)
    <3>1. Cardinality(cs \cup ds)
            = Cardinality(cs) + Cardinality(ds) - Cardinality(cs \cap ds)
      BY <2>2, <2>3, FS_Union
    <3>2. Cardinality(cs \cap ds) = 0
      BY <2>5, FS_EmptySet
    <3>3. Cardinality(cs) \in Nat /\ Cardinality(ds) \in Nat
      BY <2>2, <2>3, FS_CardinalityType
    <3>4. QED
      BY <2>4, <3>1, <3>2, <3>3
  <2>8. QED
    BY <1>1, <2>6, <2>7 DEF people
<1>12. Frugal(b)
  <2> DEFINE people == {u \in Users : Balance(b, u) # 0}
  <2>1. people # {} => Cardinality(people) # 0
    <3>1. IsFiniteSet(people)
      BY FS_Subset, UsersAssumption DEF UsersAssumption
    <3> HIDE DEF people
    <3>2. QED
      BY <3>1, FS_EmptySet
  <2>2. people # {} => Len(t) < Cardinality(people)
    BY <1>2, <1>10, <1>11, <2>1
  <2>3. QED
    BY <1>4, <1>7, <1>8, <1>9, <2>2 DEF Frugal
<1>13. QED
  BY <1>6, <1>12

-----------------------------------------------------------------------------
\* What requests know.

\* What q read of the expense x is what x says.
SameRow(q, x) ==
    /\ x \in DOMAIN q.bill
    /\ q.bill[x].paidBy = expense[x].paidBy
    /\ q.bill[x].amount = expense[x].amount

\* The same, with the participants.
SameBill(q, x) ==
    /\ SameRow(q, x)
    /\ expense[x].among = q.bill[x].among \cap accounts

\* What a request knows holds whatever others did since.
Right(q) ==
    /\ q.pc = "checked" => q.row \in Payloads
    /\ q.ids \subseteq 1..lastId
    /\ q.pc = "read" => \A x \in q.ids \cap Stored : SameRow(q, x)
    /\ q.pc = "answered" => \A x \in q.ids \cap Stored : SameBill(q, x)

AllRight == \A r \in Requests : Right(request[r])

ExpensesInv == TypeOK /\ AllRight

-----------------------------------------------------------------------------
LEMMA EmptyBill == <<>> \in Bill /\ DOMAIN <<>> = {}
<1>1. <<>> \in [{} -> Expense]
  OBVIOUS
<1>2. QED
  BY <1>1 DEF Bill

LEMMA BillTypes ==
    /\ \A b \in Bill : /\ DOMAIN b \subseteq Ids
                       /\ \A x \in DOMAIN b : b[x] \in Expense
    /\ \A X \in SUBSET Ids : [X -> Expense] \subseteq Bill
  BY DEF Bill

\* A request that steps on, to q, and writes nothing.
LEMMA RequestStep ==
    ASSUME ExpensesInv, NEW r \in Requests, NEW q \in Request \cup {NoRequest},
           Right(q), request' = [request EXCEPT ![r] = q],
           UNCHANGED <<accounts, accepted, expense, lastId>>
    PROVE  ExpensesInv'
<1>1. /\ DOMAIN request' = Requests
      /\ request'[r] = q
      /\ \A s \in Requests \ {r} : request'[s] = request[s]
  BY DEF ExpensesInv, TypeOK
<1>2. Stored' = Stored
  BY DEF Stored
<1>3. TypeOK'
  BY <1>1, <1>2 DEF ExpensesInv, TypeOK
<1>4. ASSUME NEW s \in Requests PROVE Right(request[s])'
  BY <1>1, <1>2 DEF ExpensesInv, AllRight, Right, SameRow, SameBill
<1>5. QED
  BY <1>3, <1>4 DEF ExpensesInv, AllRight

LEMMA NoRequestIsRight == Right(NoRequest)
  BY DEF Right, NoRequest

\* A request that has not begun.
Blank == [pc   : {"idle"},
          user : Users \cup {None},
          row  : Payloads \cup {None},
          ids  : SUBSET Ids,
          bill : Bill]

LEMMA BlankRequest == NoRequest \in Blank /\ NoRequest.ids = {}
  BY EmptyBill DEF NoRequest, Blank

LEMMA StartAddKeeps ==
    ASSUME ExpensesInv, NEW r \in Requests, NEW u \in Users, StartAdd(r, u)
    PROVE  ExpensesInv'
<1> DEFINE q == [request[r] EXCEPT !.pc = "asking", !.user = u]
<1>1. request' = [request EXCEPT ![r] = q]
  BY DEF StartAdd
<1>2. request[r] \in Blank /\ request[r].ids = {}
  BY BlankRequest DEF StartAdd
<1>3. q \in Request
  BY <1>2 DEF Blank, Request
<1>4. Right(q)
  BY <1>2 DEF Blank, Right
<1>5. QED
  BY <1>1, <1>3, <1>4, RequestStep DEF StartAdd

LEMMA StartSummaryKeeps ==
    ASSUME ExpensesInv, NEW r \in Requests, StartSummary(r)
    PROVE  ExpensesInv'
<1> DEFINE q == [request[r] EXCEPT !.pc = "summing"]
<1>1. request' = [request EXCEPT ![r] = q]
  BY DEF StartSummary
<1>2. request[r] \in Blank /\ request[r].ids = {}
  BY BlankRequest DEF StartSummary
<1>3. q \in Request
  BY <1>2 DEF Blank, Request
<1>4. Right(q)
  BY <1>2 DEF Blank, Right
<1>5. QED
  BY <1>1, <1>3, <1>4, RequestStep DEF StartSummary

LEMMA EndKeeps ==
    ASSUME ExpensesInv, NEW r \in Requests, End(r)
    PROVE  ExpensesInv'
  BY NoRequestIsRight, RequestStep DEF End

LEMMA BusyRequests ==
    ASSUME ExpensesInv, NEW r \in Requests, request[r].pc # "idle"
    PROVE  request[r] \in Request /\ Right(request[r])
  BY DEF ExpensesInv, TypeOK, AllRight, NoRequest

LEMMA CheckAddKeeps ==
    ASSUME ExpensesInv, NEW r \in Requests, NEW row \in Payloads, CheckAdd(r, row)
    PROVE  ExpensesInv'
<1> DEFINE q == [request[r] EXCEPT !.pc = "checked", !.row = row]
<1>1. request' = [request EXCEPT ![r] = q]
  BY DEF CheckAdd
<1>2. request[r] \in Request /\ Right(request[r])
  BY BusyRequests DEF CheckAdd
<1>3. q \in Request
  BY <1>2 DEF Request
<1>4. Right(q)
  BY <1>2 DEF Request, Right
<1>5. QED
  BY <1>1, <1>3, <1>4, RequestStep DEF CheckAdd

LEMMA ListExpensesKeeps ==
    ASSUME ExpensesInv, NEW r \in Requests, ListExpenses(r)
    PROVE  ExpensesInv'
<1> DEFINE q == [request[r] EXCEPT !.pc = "listed", !.ids = Stored]
<1>1. request' = [request EXCEPT ![r] = q]
  BY DEF ListExpenses
<1>2. request[r] \in Request /\ Right(request[r])
  BY BusyRequests DEF ListExpenses
<1>3. q \in Request
  BY <1>2 DEF Request, Stored
<1>4. Stored \subseteq 1..lastId
  BY ExpensesAssumption DEF ExpensesInv, TypeOK, Stored, Ids
<1>5. Right(q)
  BY <1>2, <1>4 DEF Request, Right
<1>6. QED
  BY <1>1, <1>3, <1>5, RequestStep DEF ListExpenses

LEMMA ReadRowsKeeps ==
    ASSUME ExpensesInv, NEW r \in Requests, ReadRows(r)
    PROVE  ExpensesInv'
<1> DEFINE X == request[r].ids \cap Stored
           b == [x \in X |-> [paidBy |-> expense[x].paidBy,
                              amount |-> expense[x].amount,
                              among  |-> {}]]
           q == [request[r] EXCEPT !.pc = "read", !.bill = b]
<1>1. request' = [request EXCEPT ![r] = q]
  BY DEF ReadRows
<1>2. request[r] \in Request /\ Right(request[r])
  BY BusyRequests DEF ReadRows
<1>3. X \in SUBSET Ids
  BY DEF Stored
<1>4. \A x \in X : expense[x].paidBy \in Users /\ expense[x].amount \in Amounts
  BY DEF ExpensesInv, TypeOK, Row
<1>5. b \in [X -> Expense]
  BY <1>4 DEF Expense
<1>6. b \in Bill
  BY <1>3, <1>5, BillTypes
<1>7. q \in Request
  <2> HIDE DEF b
  <2>1. QED
    BY <1>2, <1>6 DEF Request
<1>8. \A x \in X : /\ x \in DOMAIN b
                   /\ b[x].paidBy = expense[x].paidBy
                   /\ b[x].amount = expense[x].amount
  OBVIOUS
<1>9. Right(q)
  <2> HIDE DEF b
  <2>1. q.pc = "read" /\ q.ids = request[r].ids /\ q.bill = b
    BY <1>2 DEF Request
  <2> HIDE DEF q
  <2>2. \A x \in q.ids \cap Stored : SameRow(q, x)
    BY <2>1, <1>8 DEF SameRow
  <2>3. QED
    BY <1>2, <2>1, <2>2 DEF Right
<1>10. QED
  BY <1>1, <1>7, <1>9, RequestStep DEF ReadRows

LEMMA ReadParticipantsKeeps ==
    ASSUME ExpensesInv, NEW r \in Requests, ReadParticipants(r)
    PROVE  ExpensesInv'
<1> DEFINE bill == request[r].bill
           b == [x \in DOMAIN bill |->
                   [bill[x] EXCEPT !.among = IF x \in Stored THEN expense[x].among ELSE {}]]
           q == [request[r] EXCEPT !.pc = "answered", !.bill = b]
<1>1. request' = [request EXCEPT ![r] = q]
  BY DEF ReadParticipants
<1>2. request[r] \in Request /\ Right(request[r])
  BY BusyRequests DEF ReadParticipants
<1>3. /\ DOMAIN bill \in SUBSET Ids
      /\ \A x \in DOMAIN bill : bill[x] \in Expense
  BY <1>2, BillTypes DEF Request
<1>4. \A x \in Stored : expense[x].among \in SUBSET accounts /\ accounts \subseteq Users
  BY DEF ExpensesInv, TypeOK
<1>5. b \in [DOMAIN bill -> Expense]
  <2> HIDE DEF bill
  <2>1. QED
    BY <1>3, <1>4 DEF Expense
<1>6. b \in Bill
  <2> HIDE DEF b, bill
  <2>1. QED
    BY <1>3, <1>5, BillTypes
<1>7. q \in Request
  <2> HIDE DEF b, bill
  <2>1. QED
    BY <1>2, <1>6 DEF Request
<1>8. \A x \in request[r].ids \cap Stored :
        /\ x \in DOMAIN b
        /\ b[x].paidBy = expense[x].paidBy
        /\ b[x].amount = expense[x].amount
        /\ expense[x].among = b[x].among \cap accounts
  <2>1. \A x \in request[r].ids \cap Stored : SameRow(request[r], x)
    BY <1>2 DEF Right, ReadParticipants
  <2>2. QED
    BY <2>1, <1>3, <1>4 DEF SameRow, Expense
<1>9. Right(q)
  <2> HIDE DEF b
  <2>1. q.pc = "answered" /\ q.ids = request[r].ids /\ q.bill = b
    BY <1>2 DEF Request
  <2> HIDE DEF q
  <2>2. \A x \in q.ids \cap Stored : SameBill(q, x)
    BY <2>1, <1>8 DEF SameBill, SameRow
  <2>3. QED
    BY <1>2, <2>1, <2>2 DEF Right
<1>10. QED
  BY <1>1, <1>7, <1>9, RequestStep DEF ReadParticipants

-----------------------------------------------------------------------------
LEMMA AnswerChangesKeeps ==
    ASSUME ExpensesInv, NEW u \in Users, AnswerChanges(u)
    PROVE  ExpensesInv'
<1>1. Stored' = Stored
  BY DEF AnswerChanges, Stored
<1>2. TypeOK'
  BY <1>1 DEF AnswerChanges, ExpensesInv, TypeOK
<1>3. AllRight'
  BY <1>1 DEF AnswerChanges, ExpensesInv, AllRight, Right, SameRow, SameBill
<1>4. QED
  BY <1>2, <1>3 DEF ExpensesInv

\* An expense that is still there after the account u is deleted.
LEMMA BereftRows ==
    ASSUME ExpensesInv, NEW u \in Users, DeleteAccount(u), NEW x \in Stored'
    PROVE  /\ x \in Stored
           /\ expense'[x] \in Row
           /\ expense'[x].paidBy = expense[x].paidBy
           /\ expense'[x].createdBy = expense[x].createdBy
           /\ expense'[x].amount = expense[x].amount
           /\ expense'[x].among = expense[x].among \ {u}
           /\ u \notin {expense[x].paidBy, expense[x].createdBy}
<1>1. x \in Ids /\ expense'[x] # None
  BY DEF Stored
<1>2. x \in Stored /\ expense'[x] = Bereft(expense[x], u)
  BY <1>1 DEF DeleteAccount
<1>3. expense[x] \in Row
  BY <1>2 DEF ExpensesInv, TypeOK
<1>4. /\ u \notin {expense[x].paidBy, expense[x].createdBy}
      /\ expense'[x] = [expense[x] EXCEPT !.among = @ \ {u}]
  BY <1>1, <1>2 DEF Bereft
<1>5. QED
  BY <1>2, <1>3, <1>4 DEF Row

LEMMA DeleteAccountKeeps ==
    ASSUME ExpensesInv, NEW u \in Users, DeleteAccount(u)
    PROVE  ExpensesInv'
<1>1. \A x \in Stored' :
        /\ x \in Stored
        /\ expense'[x] \in Row
        /\ expense'[x].paidBy = expense[x].paidBy
        /\ expense'[x].createdBy = expense[x].createdBy
        /\ expense'[x].amount = expense[x].amount
        /\ expense'[x].among = expense[x].among \ {u}
        /\ u \notin {expense[x].paidBy, expense[x].createdBy}
  BY BereftRows
<1>2. /\ accounts' = accounts \ {u}
      /\ UNCHANGED <<lastId, request>>
  BY DEF DeleteAccount
<1>3. TypeOK'
  <2>1. /\ accounts' \in SUBSET Users /\ Owner \in accounts'
        /\ accepted' \in SUBSET (accounts' \ {Owner})
        /\ DOMAIN expense' = Ids
    BY DEF DeleteAccount, ExpensesInv, TypeOK
  <2>2. \A x \in Stored' : /\ x <= lastId'
                           /\ {expense'[x].paidBy, expense'[x].createdBy} \subseteq accounts'
                           /\ expense'[x].among \subseteq accounts'
    BY <1>1, <1>2 DEF ExpensesInv, TypeOK
  <2>3. QED
    BY <1>1, <1>2, <2>1, <2>2 DEF ExpensesInv, TypeOK
<1>4. ASSUME NEW r \in Requests PROVE Right(request[r])'
  <2> DEFINE q == request[r]
  <2>1. Right(q)
    BY DEF ExpensesInv, AllRight
  <2>2. q' = q
    BY <1>2
  <2> HIDE DEF q
  <2>3. q.pc = "read" => \A x \in q.ids \cap Stored' :
          x \in DOMAIN q.bill /\ q.bill[x].paidBy = expense'[x].paidBy
                              /\ q.bill[x].amount = expense'[x].amount
    BY <1>1, <2>1 DEF Right, SameRow
  <2>4. q.pc = "answered" => \A x \in q.ids \cap Stored' :
          /\ x \in DOMAIN q.bill /\ q.bill[x].paidBy = expense'[x].paidBy
                                 /\ q.bill[x].amount = expense'[x].amount
          /\ expense'[x].among = q.bill[x].among \cap accounts'
    BY <1>1, <1>2, <2>1 DEF Right, SameRow, SameBill
  <2>5. Right(q)'
    BY <1>2, <2>1, <2>2, <2>3, <2>4 DEF Right, SameRow, SameBill
  <2>6. QED
    BY <2>5 DEF q
<1>5. QED
  BY <1>3, <1>4 DEF ExpensesInv, AllRight

LEMMA DeleteExpenseKeeps ==
    ASSUME ExpensesInv, NEW x \in Ids, DeleteExpense(x)
    PROVE  ExpensesInv'
<1>1. \A y \in Stored' : y \in Stored /\ expense'[y] = expense[y]
  BY DEF DeleteExpense, Stored, ExpensesInv, TypeOK
<1>2. UNCHANGED <<accounts, accepted, lastId, request>> /\ DOMAIN expense' = Ids
  BY DEF DeleteExpense, ExpensesInv, TypeOK
<1>3. TypeOK'
  BY <1>1, <1>2 DEF ExpensesInv, TypeOK
<1>4. AllRight'
  BY <1>1, <1>2 DEF ExpensesInv, AllRight, Right, SameRow, SameBill
<1>5. QED
  BY <1>3, <1>4 DEF ExpensesInv

LEMMA CommitAddKeeps ==
    ASSUME ExpensesInv, NEW r \in Requests, CommitAdd(r)
    PROVE  ExpensesInv'
<1> DEFINE q == request[r]
           new == [paidBy    |-> q.row.paidBy,
                   amount    |-> q.row.amount,
                   among     |-> q.row.among,
                   createdBy |-> q.user]
<1>1. /\ q.pc = "checked"
      /\ lastId < MaxExpenses
      /\ {q.user, q.row.paidBy} \cup q.row.among \subseteq accounts
      /\ expense' = [expense EXCEPT ![NextId] = new]
      /\ lastId' = lastId + 1
      /\ request' = [request EXCEPT ![r] = NoRequest]
      /\ UNCHANGED <<accounts, accepted>>
  BY DEF CommitAdd
<1>2. q \in Request /\ Right(q)
  BY <1>1, BusyRequests
<1>3. q.row \in Expense
  BY <1>1, <1>2, ExpensesAssumption DEF Right
<1>4. accounts \subseteq Users
  BY DEF ExpensesInv, TypeOK
<1>5. new \in Row
  <2>1. q.row.amount \in Amounts
    BY <1>3 DEF Expense
  <2>2. q.user \in Users /\ q.row.paidBy \in Users /\ q.row.among \in SUBSET Users
    BY <1>1, <1>4
  <2>3. QED
    BY <2>1, <2>2 DEF Row
<1>6. NextId \in Ids /\ NextId = lastId + 1 /\ lastId \in 0..MaxExpenses
  BY <1>1, ExpensesAssumption DEF NextId, Ids, ExpensesInv, TypeOK
<1> HIDE DEF new
<1>7. /\ DOMAIN expense' = Ids
      /\ expense'[NextId] = new
      /\ \A x \in Ids \ {NextId} : expense'[x] = expense[x]
  BY <1>1, <1>6 DEF ExpensesInv, TypeOK
<1>8. /\ Stored' \subseteq Stored \cup {NextId}
      /\ \A x \in Stored' \ {NextId} : x \in Stored /\ expense'[x] = expense[x]
  BY <1>7 DEF Stored
<1>9. TypeOK'
  <2>1. new.paidBy \in accounts /\ new.createdBy \in accounts /\ new.among \subseteq accounts
    BY <1>1 DEF new
  <2>2. \A x \in Stored' :
          /\ x <= lastId'
          /\ expense'[x] \in Row
          /\ {expense'[x].paidBy, expense'[x].createdBy} \subseteq accounts'
          /\ expense'[x].among \subseteq accounts'
    <3> SUFFICES ASSUME NEW x \in Stored'
                 PROVE  /\ x <= lastId'
                        /\ expense'[x] \in Row
                        /\ {expense'[x].paidBy, expense'[x].createdBy} \subseteq accounts'
                        /\ expense'[x].among \subseteq accounts'
      OBVIOUS
    <3>1. CASE x = NextId
      BY <3>1, <1>1, <1>5, <1>6, <1>7, <2>1
    <3>2. CASE x # NextId
      <4>1. x \in Stored /\ expense'[x] = expense[x]
        BY <3>2, <1>8
      <4>2. x \in Int /\ x <= lastId
        BY <4>1, ExpensesAssumption DEF ExpensesInv, TypeOK, Stored, Ids
      <4>3. QED
        BY <4>1, <4>2, <1>1, <1>6 DEF ExpensesInv, TypeOK
    <3>3. QED
      BY <3>1, <3>2
  <2>3. /\ DOMAIN request' = Requests
        /\ \A s \in Requests : request'[s] \in Request \cup {NoRequest}
    BY <1>1 DEF ExpensesInv, TypeOK
  <2>4. lastId' \in 0..MaxExpenses
    BY <1>1, <1>6, ExpensesAssumption
  <2>5. QED
    BY <1>1, <1>7, <2>2, <2>3, <2>4 DEF ExpensesInv, TypeOK
<1>10. ASSUME NEW s \in Requests PROVE Right(request[s])'
  <2> DEFINE p == request'[s]
  <2>1. p = NoRequest \/ p = request[s]
    BY <1>1 DEF ExpensesInv, TypeOK
  <2>2. Right(p)
    BY <2>1, NoRequestIsRight DEF ExpensesInv, AllRight
  <2> HIDE DEF p
  <2>3. NextId \notin p.ids /\ p.ids \subseteq 1..lastId'
    BY <1>1, <1>6, <2>2, ExpensesAssumption DEF Right
  <2>4. \A x \in p.ids \cap Stored' : x \in Stored /\ expense'[x] = expense[x]
    BY <1>8, <2>3
  <2>5. /\ p.pc = "checked" => p.row \in Payloads
        /\ p.ids \subseteq 1..lastId'
        /\ p.pc = "read" => \A x \in p.ids \cap Stored' :
             /\ x \in DOMAIN p.bill /\ p.bill[x].paidBy = expense'[x].paidBy
             /\ p.bill[x].amount = expense'[x].amount
        /\ p.pc = "answered" => \A x \in p.ids \cap Stored' :
             /\ x \in DOMAIN p.bill /\ p.bill[x].paidBy = expense'[x].paidBy
             /\ p.bill[x].amount = expense'[x].amount
             /\ expense'[x].among = p.bill[x].among \cap accounts'
    BY <1>1, <2>2, <2>3, <2>4 DEF Right, SameRow, SameBill
  <2>6. QED
    BY <2>5 DEF p, Right, SameRow, SameBill
<1>11. QED
  BY <1>9, <1>10 DEF ExpensesInv, AllRight

-----------------------------------------------------------------------------
LEMMA ExpensesInit == Init => ExpensesInv
<1> SUFFICES ASSUME Init PROVE ExpensesInv
  OBVIOUS
<1>1. Stored = {} /\ Owner \in Users /\ MaxExpenses \in Nat
  BY ExpensesAssumption DEF Init, Stored
<1>2. TypeOK
  BY <1>1 DEF Init, TypeOK
<1>3. AllRight
  BY NoRequestIsRight DEF Init, AllRight
<1>4. QED
  BY <1>2, <1>3 DEF ExpensesInv

LEMMA ExpensesStep == ExpensesInv /\ [Next]_vars => ExpensesInv'
<1> SUFFICES ASSUME ExpensesInv, [Next]_vars PROVE ExpensesInv'
  OBVIOUS
<1>1. CASE \E u \in Users : AnswerChanges(u) \/ DeleteAccount(u)
  BY <1>1, AnswerChangesKeeps, DeleteAccountKeeps
<1>2. CASE \E x \in Ids : DeleteExpense(x)
  BY <1>2, DeleteExpenseKeeps
<1>3. CASE \E r \in Requests : (\E u \in Users : StartAdd(r, u)) \/ StartSummary(r) \/ End(r)
  BY <1>3, StartAddKeeps, StartSummaryKeeps, EndKeeps
<1>4. CASE \E r \in Requests : (\E row \in Payloads : CheckAdd(r, row)) \/ CommitAdd(r)
  BY <1>4, CheckAddKeeps, CommitAddKeeps
<1>5. CASE \E r \in Requests : ListExpenses(r) \/ ReadRows(r) \/ ReadParticipants(r)
  BY <1>5, ListExpensesKeeps, ReadRowsKeeps, ReadParticipantsKeeps
<1>6. CASE UNCHANGED vars
  <2>1. Stored' = Stored
    BY <1>6 DEF vars, Stored
  <2>2. QED
    BY <1>6, <2>1 DEF vars, ExpensesInv, TypeOK, AllRight, Right, SameRow, SameBill
<1>7. QED
  BY <1>1, <1>2, <1>3, <1>4, <1>5, <1>6 DEF Next

\* The invariant holds throughout.
THEOREM ExpensesInductive == Spec => []ExpensesInv
  BY ExpensesInit, ExpensesStep, PTL DEF Spec

\* Whoever pays, created or shares a stored expense has an account, and ids
\* come from the sequence.
THEOREM ExpensesTyped == Spec => []TypeOK
<1>1. ExpensesInv => TypeOK
  BY DEF ExpensesInv
<1>2. QED
  BY <1>1, ExpensesInductive, PTL

\* A summary that was read in three statements while others added and deleted
\* expenses and accounts is right about every expense that is still there.
THEOREM SummariesAreRight == Spec => []SummariesAreFaithful
<1>1. ExpensesInv => SummariesAreFaithful
  BY DEF ExpensesInv, AllRight, Right, SameBill, SameRow, SummariesAreFaithful, Answered
<1>2. QED
  BY <1>1, ExpensesInductive, PTL

-----------------------------------------------------------------------------
LEMMA RequestsReadBills == \A q \in Request : IsBill(q.bill)
<1>1. SUFFICES ASSUME NEW q \in Request PROVE IsBill(q.bill)
  OBVIOUS
<1>2. PICK b \in Bill : b = q.bill
  BY DEF Request
<1>3. DOMAIN b \subseteq Ids /\ \A x \in DOMAIN b : b[x] \in Expense
  BY BillTypes
<1>4. IsFiniteSet(DOMAIN b)
  <2>1. IsFiniteSet(Ids)
    BY FS_Interval, ExpensesAssumption DEF Ids
  <2>2. QED
    BY <1>3, <2>1, FS_Subset
<1>5. \A a \in Amounts : a \in Nat
  BY ExpensesAssumption DEF Amounts
<1>6. QED
  BY <1>2, <1>3, <1>4, <1>5 DEF IsBill, Expense

\* Whatever a summary has read, of whatever expenses of whatever users: its
\* transfers settle all that anybody owes, to the cent; each goes from a debtor to
\* a creditor, and they are fewer than the open balances.
THEOREM TransfersSettleBills == Spec => []TransfersClearDebts
<1>1. ExpensesInv => TransfersClearDebts
  <2>1. SUFFICES ASSUME ExpensesInv, NEW r \in Answered
                 PROVE  Clears(request[r].bill) /\ Frugal(request[r].bill)
    BY DEF TransfersClearDebts
  <2>2. request[r] \in Request
    <3>1. request[r] \in Request \cup {NoRequest} /\ request[r].pc = "answered"
      BY <2>1 DEF ExpensesInv, TypeOK, Answered
    <3>2. QED
      BY <3>1 DEF NoRequest
  <2>3. QED
    BY <2>2, RequestsReadBills, BillIsCleared
<1>2. QED
  BY <1>1, ExpensesInductive, PTL
=============================================================================
