----------------------------- MODULE RowsProofs -----------------------------
(***************************************************************************)
(* What the operations on lists preserve, the least and the greatest of    *)
(* their positions, and what loops and the selection of elements compute.  *)
(***************************************************************************)
EXTENDS Rows, Integers, SequenceTheorems, WellFoundedInduction, TLAPS

\* A listed element is found where std::find says.
LEMMA PositionFinds ==
    ASSUME NEW S, NEW row \in Seq(S), NEW x \in Listed(row)
    PROVE  /\ Position(row, x) \in 1..Len(row)
           /\ row[Position(row, x)] = x
  <1>1. \E i \in 1..Len(row) : row[i] = x
    BY DEF Listed, ToSet
  <1> QED
    BY <1>1 DEF Position

\* Appending a workspace that is not listed: it is last, nothing else changes.
LEMMA AppendListed ==
    ASSUME NEW S, NEW row \in Seq(S), NEW x \in S \ Listed(row), NoRepeats(row)
    PROVE  /\ Append(row, x) \in Seq(S)
           /\ Listed(Append(row, x)) = Listed(row) \cup {x}
           /\ NoRepeats(Append(row, x))
  <1> DEFINE new == Append(row, x)
  <1>1. /\ new \in Seq(S) /\ Len(new) = Len(row) + 1
        /\ \A i \in 1..Len(row) : new[i] = row[i]
        /\ new[Len(row) + 1] = x
    OBVIOUS
  <1>2. Listed(new) = Listed(row) \cup {x}
    <2>1. \A y : y \in Listed(new) <=> \E i \in 1..(Len(row) + 1) : y = new[i]
      BY <1>1 DEF Listed, ToSet
    <2>2. \A y : y \in Listed(row) <=> \E i \in 1..Len(row) : y = row[i]
      BY DEF Listed, ToSet
    <2> HIDE DEF new
    <2> QED
      BY <1>1, <2>1, <2>2
  <1>3. NoRepeats(new)
    BY <1>1 DEF NoRepeats, Listed, ToSet
  <1> QED
    BY <1>1, <1>2, <1>3

\* Removing the element at a position: those behind it move up.
LEMMA RemoveAtMoves ==
    ASSUME NEW S, NEW row \in Seq(S), NEW p \in 1..Len(row)
    PROVE  /\ RemoveAt(row, p) \in Seq(S) /\ Len(RemoveAt(row, p)) = Len(row) - 1
           /\ \A i \in 1..(Len(row) - 1) :
                  RemoveAt(row, p)[i] = IF i < p THEN row[i] ELSE row[i + 1]
  <1> DEFINE new   == RemoveAt(row, p)
             front == SubSeq(row, 1, p - 1)
             back  == SubSeq(row, p + 1, Len(row))
  <1>1. new = front \o back
    BY DEF RemoveAt
  <1>2. /\ front \in Seq(S) /\ Len(front) = p - 1
        /\ \A i \in 1..(p - 1) : front[i] = row[i]
    OBVIOUS
  <1>3. /\ back \in Seq(S) /\ Len(back) = Len(row) - p
        /\ \A i \in 1..(Len(row) - p) : back[i] = row[p + i]
    OBVIOUS
  <1> HIDE DEF front, back, new
  <1>4. /\ front \o back \in Seq(S) /\ Len(front \o back) = Len(front) + Len(back)
        /\ \A i \in 1..(Len(front) + Len(back)) :
              (front \o back)[i] = IF i <= Len(front) THEN front[i]
                                                      ELSE back[i - Len(front)]
    BY <1>2, <1>3, ConcatProperties
  <1>5. Len(row) \in Nat /\ p \in Nat /\ p >= 1 /\ p <= Len(row)
    OBVIOUS
  <1>6. Len(new) = Len(row) - 1
    BY <1>1, <1>2, <1>3, <1>4, <1>5
  <1>7. ASSUME NEW i \in 1..(Len(row) - 1)
        PROVE  new[i] = IF i < p THEN row[i] ELSE row[i + 1]
    <2>1. i \in 1..(Len(front) + Len(back))
      BY <1>2, <1>3, <1>5
    <2>2. CASE i < p
      BY <1>1, <1>2, <1>4, <1>5, <2>1, <2>2
    <2>3. CASE ~(i < p)
      <3>1. i - (p - 1) \in 1..(Len(row) - p) /\ p + (i - (p - 1)) = i + 1
        BY <1>5, <2>3
      <3>2. back[i - (p - 1)] = row[i + 1]
        BY <1>3, <3>1
      <3>3. ~(i <= Len(front)) /\ i - Len(front) = i - (p - 1)
        BY <1>2, <1>5, <2>3
      <3>4. new[i] = back[i - (p - 1)]
        BY <1>1, <1>4, <2>1, <3>3
      <3> QED BY <2>3, <3>2, <3>4
    <2> QED BY <2>2, <2>3
  <1> QED BY <1>1, <1>4, <1>6, <1>7 DEF new

\* Erasing a listed workspace: it is gone, the others stay, in their order.
LEMMA EraseListed ==
    ASSUME NEW S, NEW row \in Seq(S), NEW x \in Listed(row), NoRepeats(row)
    PROVE  /\ Erase(row, x) \in Seq(S)
           /\ Listed(Erase(row, x)) = Listed(row) \ {x}
           /\ NoRepeats(Erase(row, x))
  <1> DEFINE p == Position(row, x)
             new == Erase(row, x)
  <1>1. p \in 1..Len(row) /\ row[p] = x
    BY PositionFinds
  <1>2. /\ new \in Seq(S) /\ Len(new) = Len(row) - 1
        /\ \A i \in 1..(Len(row) - 1) : new[i] = IF i < p THEN row[i] ELSE row[i + 1]
    BY <1>1, RemoveAtMoves DEF Erase
  <1>3. \A i \in 1..Len(row) : row[i] = x => i = p
    BY <1>1 DEF NoRepeats
  <1> HIDE DEF new, p
  <1>4. NoRepeats(new)
    BY <1>1, <1>2 DEF NoRepeats
  <1>5. Listed(new) = Listed(row) \ {x}
    <2>1. ASSUME NEW y \in Listed(new) PROVE y \in Listed(row) \ {x}
      <3>1. PICK i \in 1..(Len(row) - 1) : y = new[i]
        BY <1>2, <2>1 DEF Listed, ToSet
      <3> QED BY <1>1, <1>2, <1>3, <3>1 DEF Listed, ToSet
    <2>2. ASSUME NEW y \in Listed(row) \ {x} PROVE y \in Listed(new)
      <3>1. PICK i \in 1..Len(row) : y = row[i]
        BY <2>2 DEF Listed, ToSet
      <3>2. CASE i < p
        <4>1. i \in 1..(Len(row) - 1) /\ new[i] = y
          BY <1>1, <1>2, <3>1, <3>2
        <4> QED BY <1>2, <4>1 DEF Listed, ToSet
      <3>3. CASE i > p
        <4>1. i - 1 \in 1..(Len(row) - 1) /\ new[i - 1] = y
          BY <1>1, <1>2, <3>1, <3>3
        <4> QED BY <1>2, <4>1 DEF Listed, ToSet
      <3> QED BY <1>1, <2>2, <3>1, <3>2, <3>3
    <2> QED BY <2>1, <2>2
  <1> QED
    BY <1>2, <1>4, <1>5 DEF new
-----------------------------------------------------------------------------
\* A nonempty set of natural numbers has a least element.
LEMMA Least ==
    ASSUME NEW T, T \subseteq Nat, T # {}
    PROVE  \E m \in T : \A n \in T : m <= n
  <1> DEFINE R == {ss \in Nat \X Nat : ss[1] < ss[2]}
  <1>1. IsWellFoundedOn(R, Nat)
    BY NatLessThanWellFounded DEF OpToRel
  <1>2. \A a, b \in Nat : a < b => <<a, b>> \in R
    OBVIOUS
  <1> HIDE DEF R
  <1>3. PICK m \in T : \A n \in T : ~(<<n, m>> \in R)
    BY <1>1, WFMin
  <1>4. ASSUME NEW n \in T PROVE m <= n
    <2>1. m \in Nat /\ n \in Nat /\ ~(n < m)
      BY <1>2, <1>3
    <2> QED BY <2>1
  <1> QED BY <1>4

\* A nonempty set of positions has a last one.
LEMMA Greatest ==
    ASSUME NEW n \in Nat, NEW T, T \subseteq 1..n, T # {}
    PROVE  \E m \in T : \A j \in T : j <= m
  <1> DEFINE D == {n - i : i \in T}
  <1>1. D \subseteq Nat
    OBVIOUS
  <1>2. D # {}
    <2>1. PICK i \in T : TRUE
      OBVIOUS
    <2>2. n - i \in D
      OBVIOUS
    <2> QED BY <2>2
  <1>3. PICK d \in D : \A e \in D : d <= e
    BY <1>1, <1>2, Least
  <1>4. PICK m \in T : d = n - m
    OBVIOUS
  <1>5. ASSUME NEW j \in T PROVE j <= m
    <2>1. n - m <= n - j
      BY <1>3, <1>4
    <2> QED BY <2>1
  <1> QED BY <1>5

\* The pass of Selected over the first m elements.
IsPass(f, row, keep, m) ==
    f = [n \in 0..m |-> IF n = 0 THEN <<>>
                        ELSE IF n \in keep THEN Append(f[n - 1], row[n])
                        ELSE f[n - 1]]

\* The recursion of Selected has a solution, however long the list.
LEMMA PassExists ==
    ASSUME NEW row, NEW keep, NEW m \in Nat
    PROVE  \E f : IsPass(f, row, keep, m)
  <1> DEFINE Bad == {n \in Nat : ~ \E f : IsPass(f, row, keep, n)}
  <1> SUFFICES ASSUME Bad # {} PROVE FALSE
    OBVIOUS
  <1>1. PICK n \in Bad : \A k \in Bad : n <= k
    <2>1. Bad \subseteq Nat
      OBVIOUS
    <2> HIDE DEF Bad
    <2> QED BY <2>1, Least
  <1>2. CASE n = 0
    <2> DEFINE f == [k \in 0..0 |-> <<>>]
    <2>1. f = [k \in 0..0 |-> IF k = 0 THEN <<>>
                              ELSE IF k \in keep THEN Append(f[k - 1], row[k])
                              ELSE f[k - 1]]
      OBVIOUS
    <2>2. IsPass(f, row, keep, 0)
      BY <2>1 DEF IsPass
    <2> QED BY <1>2, <2>2
  <1>3. CASE n # 0
    <2>1. n \in Nat /\ n - 1 \in Nat /\ ~(n <= n - 1)
      BY <1>3
    <2>2. n - 1 \notin Bad
      BY <1>1, <2>1
    <2>3. PICK g : IsPass(g, row, keep, n - 1)
      BY <2>1, <2>2
    <2> DEFINE new == IF n \in keep THEN Append(g[n - 1], row[n]) ELSE g[n - 1]
               f   == [k \in 0..n |-> IF k = n THEN new ELSE g[k]]
               rhs == [k \in 0..n |-> IF k = 0 THEN <<>>
                                      ELSE IF k \in keep THEN Append(f[k - 1], row[k])
                                      ELSE f[k - 1]]
    <2>4. \A k \in 0..(n - 1) : g[k] = IF k = 0 THEN <<>>
                                       ELSE IF k \in keep THEN Append(g[k - 1], row[k])
                                       ELSE g[k - 1]
      BY <2>3 DEF IsPass
    <2>5. ASSUME NEW k \in 0..n PROVE f[k] = rhs[k]
      <3>1. CASE k = n
        <4>1. f[k - 1] = g[k - 1] /\ k # 0
          BY <2>1, <3>1
        <4> QED BY <3>1, <4>1
      <3>2. CASE k # n
        <4>1. k \in 0..(n - 1) /\ f[k] = g[k]
          BY <2>1, <3>2
        <4>2. k # 0 => f[k - 1] = g[k - 1]
          BY <2>1, <3>2
        <4> QED BY <2>4, <4>1, <4>2
      <3> QED BY <3>1, <3>2
    <2>6. f = rhs
      BY <2>5
    <2>7. IsPass(f, row, keep, n)
      BY <2>6 DEF IsPass
    <2> QED BY <2>7
  <1> QED BY <1>2, <1>3

\* Selected is the end of such a pass.
LEMMA SelectedIsPass ==
    ASSUME NEW row, NEW keep, Len(row) \in Nat
    PROVE  \E f : /\ IsPass(f, row, keep, Len(row))
                 /\ Selected(row, keep) = f[Len(row)]
  <1> DEFINE g == CHOOSE f : IsPass(f, row, keep, Len(row))
  <1>1. IsPass(g, row, keep, Len(row))
    BY PassExists
  <1>2. Selected(row, keep) = g[Len(row)]
    BY DEF Selected, IsPass
  <1> QED BY <1>1, <1>2

\* e takes the positions in new, in order, to those of row that are kept.
Keeps(e, new, row, kept) ==
    /\ e \in [1..Len(new) -> kept]
    /\ \A i, j \in 1..Len(new) : i < j => e[i] < e[j]
    /\ \A k \in kept : \E i \in 1..Len(new) : e[i] = k
    /\ \A i \in 1..Len(new) : new[i] = row[e[i]]

\* What remove_if leaves: the elements kept, each once and in order.
LEMMA SelectedKeeps ==
    ASSUME NEW S, NEW row \in Seq(S), NEW keep
    PROVE  /\ Selected(row, keep) \in Seq(S)
           /\ \E e : Keeps(e, Selected(row, keep), row, keep \cap (1..Len(row)))
  <1>1. Len(row) \in Nat
    OBVIOUS
  <1>2. PICK f : /\ IsPass(f, row, keep, Len(row))
                 /\ Selected(row, keep) = f[Len(row)]
    BY <1>1, SelectedIsPass
  <1> DEFINE P(n) == /\ f[n] \in Seq(S)
                     /\ \E e : Keeps(e, f[n], row, keep \cap (1..n))
             Bad  == {n \in 0..Len(row) : ~P(n)}
  <1>3. /\ f[0] = <<>>
        /\ \A n \in 1..Len(row) : f[n] = IF n \in keep THEN Append(f[n - 1], row[n])
                                         ELSE f[n - 1]
    <2>1. \A n \in 0..Len(row) : f[n] = IF n = 0 THEN <<>>
                                        ELSE IF n \in keep THEN Append(f[n - 1], row[n])
                                        ELSE f[n - 1]
      BY <1>2, Zenon DEF IsPass
    <2>2. \A n \in 1..Len(row) : n \in 0..Len(row) /\ n # 0
      BY <1>1
    <2>3. 0 \in 0..Len(row)
      BY <1>1
    <2> QED BY <2>1, <2>2, <2>3
  <1>4. P(0)
    <2> DEFINE e == [i \in 1..0 |-> i]
    <2>1. Keeps(e, <<>>, row, keep \cap (1..0))
      BY DEF Keeps
    <2> QED BY <1>3, <2>1
  <1>5. ASSUME NEW n \in 1..Len(row), P(n - 1)
        PROVE  P(n)
    <2> DEFINE old == f[n - 1]
    <2>1. PICK e : Keeps(e, old, row, keep \cap (1..(n - 1)))
      BY <1>5
    <2>2. old \in Seq(S) /\ row[n] \in S /\ Len(old) \in Nat
      BY <1>5
    <2>3. CASE n \notin keep
      <3>1. keep \cap (1..n) = keep \cap (1..(n - 1))
        BY <2>3
      <3>2. f[n] = old
        BY <1>3, <2>3
      <3> QED BY <2>1, <2>2, <3>1, <3>2
    <2>4. CASE n \in keep
      <3> DEFINE new == Append(old, row[n])
                 d   == [i \in 1..(Len(old) + 1) |-> IF i = Len(old) + 1 THEN n ELSE e[i]]
      <3> HIDE DEF old
      <3>1. /\ new \in Seq(S) /\ Len(new) = Len(old) + 1
            /\ \A i \in 1..Len(old) : new[i] = old[i]
            /\ new[Len(old) + 1] = row[n]
        BY <2>2
      <3> HIDE DEF new
      <3>2. /\ \A i \in 1..Len(old) : d[i] = e[i] /\ e[i] \in keep \cap (1..(n - 1))
            /\ d[Len(old) + 1] = n
        BY <2>1, <2>2 DEF Keeps
      <3>3. d \in [1..Len(new) -> keep \cap (1..n)]
        <4>1. ASSUME NEW i \in 1..(Len(old) + 1) PROVE d[i] \in keep \cap (1..n)
          <5> HIDE DEF d, P, Bad
          <5>1. CASE i = Len(old) + 1
            BY <2>4, <3>2, <5>1
          <5>2. CASE i # Len(old) + 1
            <6>1. i \in 1..Len(old)
              BY <2>2, <5>2
            <6>2. d[i] \in keep /\ d[i] \in 1..(n - 1)
              BY <3>2, <6>1
            <6> QED BY <6>2
          <5> QED BY <5>1, <5>2
        <4>2. 1..Len(new) = 1..(Len(old) + 1)
          BY <3>1
        <4>3. d \in [1..(Len(old) + 1) -> keep \cap (1..n)]
          BY <4>1
        <4> HIDE DEF d
        <4> QED BY <4>2, <4>3
      <3> HIDE DEF d
      <3>4. ASSUME NEW i \in 1..Len(new), NEW j \in 1..Len(new), i < j
            PROVE  d[i] < d[j]
        <4>1. i \in 1..Len(old)
          BY <2>2, <3>1, <3>4
        <4>2. CASE j = Len(old) + 1
          BY <3>2, <4>1, <4>2
        <4>3. CASE j # Len(old) + 1
          <5>1. j \in 1..Len(old)
            BY <2>2, <3>1, <4>3
          <5> QED BY <2>1, <3>2, <3>4, <4>1, <5>1 DEF Keeps
        <4> QED BY <4>2, <4>3
      <3>5. ASSUME NEW k \in keep \cap (1..n)
            PROVE  \E i \in 1..Len(new) : d[i] = k
        <4>1. CASE k = n
          <5>1. Len(old) + 1 \in 1..Len(new)
            BY <2>2, <3>1
          <5> QED BY <3>2, <4>1, <5>1
        <4>2. CASE k # n
          <5>1. k \in keep \cap (1..(n - 1))
            BY <4>2
          <5>2. PICK i \in 1..Len(old) : e[i] = k
            BY <2>1, <5>1 DEF Keeps
          <5>3. i \in 1..Len(new)
            BY <2>2, <3>1
          <5> QED BY <3>2, <5>2, <5>3
        <4> QED BY <4>1, <4>2
      <3>6. ASSUME NEW i \in 1..Len(new) PROVE new[i] = row[d[i]]
        <4>1. CASE i = Len(old) + 1
          BY <3>1, <3>2, <4>1
        <4>2. CASE i # Len(old) + 1
          <5>1. i \in 1..Len(old)
            BY <2>2, <3>1, <4>2
          <5> QED BY <2>1, <3>1, <3>2, <5>1 DEF Keeps
        <4> QED BY <4>1, <4>2
      <3>7. Keeps(d, new, row, keep \cap (1..n))
        BY <3>3, <3>4, <3>5, <3>6 DEF Keeps
      <3>8. f[n] = new
        BY <1>3, <2>4 DEF old, new
      <3> QED BY <3>1, <3>7, <3>8
    <2> QED BY <2>3, <2>4
  <1>6. Bad = {}
    <2> SUFFICES ASSUME Bad # {} PROVE FALSE
      OBVIOUS
    <2>1. Bad \subseteq Nat
      OBVIOUS
    <2>2. PICK n \in Bad : \A k \in Bad : n <= k
      <3> HIDE DEF Bad
      <3> QED BY <2>1, Least
    <2> HIDE DEF P
    <2>3. n \in 0..Len(row) /\ ~P(n)
      OBVIOUS
    <2>4. n # 0
      BY <1>4, <2>3
    <2>5. n \in 1..Len(row) /\ n - 1 \in 0..Len(row) /\ ~(n <= n - 1)
      BY <1>1, <2>3, <2>4
    <2>6. n - 1 \notin Bad
      BY <2>2, <2>5
    <2>7. P(n - 1)
      BY <2>5, <2>6
    <2> QED BY <1>5, <2>3, <2>5, <2>7
  <1>7. P(Len(row))
    <2> HIDE DEF P
    <2>1. Len(row) \in 0..Len(row)
      BY <1>1
    <2> QED BY <1>6, <2>1
  <1>8. keep \cap (1..Len(row)) = keep \cap (1..Len(row))
    OBVIOUS
  <1> QED BY <1>2, <1>7

\* Elements in front of the first one removed keep their positions.
LEMMA KeepsFront ==
    ASSUME NEW e, NEW new, NEW row, Len(new) \in Nat, NEW kept, kept \subseteq Nat \ {0},
           Keeps(e, new, row, kept),
           NEW m \in Nat, 1..m \subseteq kept,
           NEW p \in 1..Len(new), p <= m
    PROVE  e[p] = p
  <1> DEFINE Bad == {i \in 1..Len(new) : i <= m /\ e[i] # i}
  <1> SUFFICES ASSUME Bad # {} PROVE FALSE
    OBVIOUS
  <1>1. PICK i \in Bad : \A k \in Bad : i <= k
    <2>1. Bad \subseteq Nat
      OBVIOUS
    <2> HIDE DEF Bad
    <2> QED BY <2>1, Least
  <1>2. /\ i \in 1..Len(new) /\ i <= m /\ e[i] # i
        /\ i \in kept /\ e[i] \in kept
    BY DEF Keeps
  <1>3. \A k \in 1..(i - 1) : e[k] = k
    <2> TAKE k \in 1..(i - 1)
    <2>1. k \in 1..Len(new) /\ k <= m /\ ~(i <= k)
      BY <1>2
    <2> QED BY <1>1, <2>1
  <1>4. PICK j \in 1..Len(new) : e[j] = i
    BY <1>2 DEF Keeps
  <1>5. ~(j < i)
    <2> SUFFICES ASSUME j < i PROVE FALSE
      OBVIOUS
    <2>1. j \in 1..(i - 1)
      BY <1>2
    <2> QED BY <1>3, <1>4, <2>1
  <1>6. i < j
    BY <1>2, <1>4, <1>5
  <1> HIDE DEF Bad
  <1>7. e[i] < i
    <2>1. \A a, b \in 1..Len(new) : a < b => e[a] < e[b]
      BY DEF Keeps
    <2> QED BY <1>2, <1>4, <1>6, <2>1
  <1>8. e[i] \in 1..(i - 1)
    <2>1. e[i] \in Nat /\ e[i] # 0
      BY <1>2
    <2>2. i \in Nat
      BY <1>2
    <2> QED BY <1>7, <2>1, <2>2
  <1>9. e[i] \in 1..Len(new) /\ e[e[i]] = e[i]
    BY <1>2, <1>3, <1>8
  <1>10. \A a, b \in 1..Len(new) : a < b => e[a] < e[b]
    BY DEF Keeps
  <1>11. e[e[i]] < e[i]
    BY <1>2, <1>7, <1>9, <1>10
  <1> QED BY <1>8, <1>9, <1>11

\* No element moves towards the end.
LEMMA KeepsClimb ==
    ASSUME NEW e, NEW new, NEW row, Len(new) \in Nat, NEW kept, kept \subseteq Nat \ {0},
           Keeps(e, new, row, kept),
           NEW p \in 1..Len(new)
    PROVE  p <= e[p]
  <1> DEFINE Bad == {i \in 1..Len(new) : ~(i <= e[i])}
  <1> SUFFICES ASSUME Bad # {} PROVE FALSE
    OBVIOUS
  <1>1. PICK i \in Bad : \A k \in Bad : i <= k
    <2>1. Bad \subseteq Nat
      OBVIOUS
    <2> HIDE DEF Bad
    <2> QED BY <2>1, Least
  <1>2. i \in 1..Len(new) /\ ~(i <= e[i])
    OBVIOUS
  <1>3. \A a \in 1..Len(new) : e[a] \in Nat /\ e[a] >= 1
    <2> TAKE a \in 1..Len(new)
    <2>1. e[a] \in Nat \ {0}
      BY DEF Keeps
    <2> QED BY <2>1
  <1>4. i - 1 \in 1..Len(new) /\ i - 1 < i
    BY <1>2, <1>3
  <1>5. i - 1 <= e[i - 1]
    <2>1. ~(i <= i - 1)
      BY <1>2
    <2> QED BY <1>1, <1>4, <2>1
  <1>6. e[i - 1] < e[i]
    BY <1>2, <1>4 DEF Keeps
  <1>7. i \in Nat /\ e[i] \in Nat /\ e[i - 1] \in Nat
    BY <1>2, <1>3, <1>4
  <1> QED BY <1>2, <1>5, <1>6, <1>7
-----------------------------------------------------------------------------
\* Those: what is selected by what it is, and not by its position.

\* Two passes are the same as far as the lists and what is kept are.
LEMMA PassesAgree ==
    ASSUME NEW f, NEW row, NEW keep, NEW g, NEW other, NEW kept,
           NEW m \in Nat, NEW n \in Nat, m <= n,
           IsPass(f, row, keep, m), IsPass(g, other, kept, n),
           \A i \in 1..m : row[i] = other[i] /\ (i \in keep <=> i \in kept)
    PROVE  f[m] = g[m]
  <1> DEFINE Bad == {i \in 0..m : f[i] # g[i]}
  <1>1. \A i \in 0..m : f[i] = IF i = 0 THEN <<>>
                               ELSE IF i \in keep THEN Append(f[i - 1], row[i])
                               ELSE f[i - 1]
    BY Zenon DEF IsPass
  <1>2. \A i \in 0..n : g[i] = IF i = 0 THEN <<>>
                               ELSE IF i \in kept THEN Append(g[i - 1], other[i])
                               ELSE g[i - 1]
    BY Zenon DEF IsPass
  <1>3. Bad = {}
    <2> SUFFICES ASSUME Bad # {} PROVE FALSE
      OBVIOUS
    <2>1. PICK i \in Bad : \A k \in Bad : i <= k
      <3>1. Bad \subseteq Nat
        OBVIOUS
      <3> HIDE DEF Bad
      <3> QED BY <3>1, Least
    <2>2. i \in 0..m /\ i \in 0..n /\ f[i] # g[i]
      OBVIOUS
    <2>3. i # 0
      <3>1. 0 \in 0..m /\ 0 \in 0..n
        OBVIOUS
      <3>2. f[0] = <<>> /\ g[0] = <<>>
        BY <1>1, <1>2, <3>1
      <3> QED BY <2>2, <3>2
    <2>4. i \in 1..m /\ i - 1 \in 0..m /\ ~(i <= i - 1)
      BY <2>2, <2>3
    <2>5. f[i - 1] = g[i - 1]
      BY <2>1, <2>4
    <2> HIDE DEF Bad
    <2>6. row[i] = other[i] /\ (i \in keep <=> i \in kept)
      BY <2>4
    <2> QED BY <1>1, <1>2, <2>2, <2>3, <2>5, <2>6
  <1> QED BY <1>3

\* One more element: it is added if it is one of those.
LEMMA ThoseAppend ==
    ASSUME NEW T, NEW row \in Seq(T), NEW x \in T, NEW S
    PROVE  Those(Append(row, x), S) =
               IF x \in S THEN Append(Those(row, S), x) ELSE Those(row, S)
  <1> DEFINE new  == Append(row, x)
             n    == Len(row)
             keep == {i \in DOMAIN row : row[i] \in S}
             kept == {i \in DOMAIN new : new[i] \in S}
  <1>1. /\ n \in Nat /\ DOMAIN row = 1..n
        /\ Len(new) = n + 1 /\ DOMAIN new = 1..(n + 1)
        /\ \A i \in 1..n : new[i] = row[i]
        /\ new[n + 1] = x
    OBVIOUS
  <1>2. PICK f : IsPass(f, row, keep, n) /\ Selected(row, keep) = f[n]
    BY <1>1, SelectedIsPass
  <1>3. PICK g : IsPass(g, new, kept, n + 1) /\ Selected(new, kept) = g[n + 1]
    <2>1. Len(new) \in Nat
      BY <1>1
    <2> HIDE DEF new, kept
    <2>2. \E g : IsPass(g, new, kept, Len(new)) /\ Selected(new, kept) = g[Len(new)]
      BY <2>1, SelectedIsPass
    <2> QED BY <1>1, <2>2
  <1>4. Those(row, S) = f[n] /\ Those(new, S) = g[n + 1]
    BY <1>2, <1>3 DEF Those
  <1>5. \A i \in 1..n : row[i] = new[i] /\ (i \in keep <=> i \in kept)
    BY <1>1
  <1>6. n + 1 \in kept <=> x \in S
    BY <1>1
  <1> HIDE DEF new, n, keep, kept
  <1>7. f[n] = g[n]
    <2>1. n + 1 \in Nat /\ n <= n + 1
      BY <1>1
    <2> QED BY <1>1, <1>2, <1>3, <1>5, <2>1, PassesAgree
  <1>8. g[n + 1] = IF n + 1 \in kept THEN Append(g[n], new[n + 1]) ELSE g[n]
    <2>1. \A i \in 0..(n + 1) : g[i] = IF i = 0 THEN <<>>
                                       ELSE IF i \in kept THEN Append(g[i - 1], new[i])
                                       ELSE g[i - 1]
      BY <1>3, Zenon DEF IsPass
    <2>2. n + 1 \in 0..(n + 1) /\ n + 1 # 0 /\ (n + 1) - 1 = n
      BY <1>1
    <2> QED BY <2>1, <2>2
  <1>9. new[n + 1] = x
    BY <1>1
  <1>10. Those(new, S) = IF x \in S THEN Append(Those(row, S), x) ELSE Those(row, S)
    BY <1>4, <1>6, <1>7, <1>8, <1>9
  <1> QED BY <1>10 DEF new

\* Nothing is selected of nothing, and one element is selected or not.
LEMMA ThoseFew ==
    ASSUME NEW S
    PROVE  /\ Those(<<>>, S) = <<>>
           /\ \A x : Those(<<x>>, S) = IF x \in S THEN <<x>> ELSE <<>>
  <1>1. Those(<<>>, S) = <<>>
    <2> DEFINE keep == {i \in DOMAIN <<>> : <<>>[i] \in S}
    <2>1. Len(<<>>) = 0 /\ 0 \in Nat
      OBVIOUS
    <2>2. PICK f : IsPass(f, <<>>, keep, 0) /\ Selected(<<>>, keep) = f[0]
      BY <2>1, SelectedIsPass
    <2> HIDE DEF keep
    <2>3. f[0] = <<>>
      BY <2>2 DEF IsPass
    <2> QED BY <2>2, <2>3 DEF Those, keep
  <1>2. ASSUME NEW x
        PROVE  Those(<<x>>, S) = IF x \in S THEN <<x>> ELSE <<>>
    <2> DEFINE T == {x}
    <2>1. <<>> \in Seq(T) /\ x \in T /\ Append(<<>>, x) = <<x>>
      OBVIOUS
    <2> HIDE DEF T
    <2>2. Those(Append(<<>>, x), S) =
              IF x \in S THEN Append(Those(<<>>, S), x) ELSE Those(<<>>, S)
      BY <2>1, ThoseAppend
    <2> QED BY <1>1, <2>1, <2>2
  <1> QED BY <1>1, <1>2

\* What is selected is of the kind asked for; it is everything if all is of that
\* kind, and nothing only if nothing is.
LEMMA ThoseAre ==
    ASSUME NEW T, NEW row \in Seq(T), NEW S
    PROVE  /\ Those(row, S) \in Seq(T) /\ Those(row, S) \in Seq(S)
           /\ Those(row, S) = <<>> <=> \A i \in 1..Len(row) : row[i] \notin S
           /\ (\A i \in 1..Len(row) : row[i] \in S) => Those(row, S) = row
  <1> DEFINE new  == Those(row, S)
             keep == {i \in DOMAIN row : row[i] \in S}
             kept == keep \cap (1..Len(row))
  <1>1. new \in Seq(T) /\ \E e : Keeps(e, new, row, kept)
    BY SelectedKeeps DEF Those
  <1>2. PICK e : Keeps(e, new, row, kept)
    BY <1>1
  <1>3. kept = {i \in 1..Len(row) : row[i] \in S} /\ Len(row) \in Nat
    OBVIOUS
  <1> HIDE DEF new, keep, kept
  <1>4. Len(new) \in Nat /\ new = [i \in 1..Len(new) |-> new[i]]
    BY <1>1
  <1>5. \A i \in 1..Len(new) : e[i] \in kept /\ new[i] = row[e[i]]
    BY <1>2 DEF Keeps
  <1>6. new \in Seq(S)
    <2>1. \A i \in 1..Len(new) : new[i] \in S
      BY <1>3, <1>5
    <2> QED BY <1>4, <2>1
  <1>7. new = <<>> <=> \A i \in 1..Len(row) : row[i] \notin S
    <2>1. ASSUME new = <<>>, NEW i \in 1..Len(row), row[i] \in S PROVE FALSE
      <3>1. i \in kept
        BY <1>3, <2>1
      <3>2. PICK j \in 1..Len(new) : e[j] = i
        BY <1>2, <3>1 DEF Keeps
      <3> QED BY <2>1, <3>2
    <2>2. ASSUME \A i \in 1..Len(row) : row[i] \notin S PROVE new = <<>>
      <3>1. kept = {}
        BY <1>3, <2>2
      <3>2. ~(1 \in 1..Len(new))
        BY <1>5, <3>1
      <3>3. Len(new) = 0
        BY <1>4, <3>2
      <3> QED BY <1>1, <3>3
    <2> QED BY <2>1, <2>2
  <1>8. ASSUME \A i \in 1..Len(row) : row[i] \in S PROVE new = row
    <2>1. kept = 1..Len(row) /\ kept \subseteq Nat \ {0}
      BY <1>3, <1>8
    <2>2. \A p \in 1..Len(new) : e[p] = p
      <3> TAKE p \in 1..Len(new)
      <3>1. e[p] \in 1..Len(row) /\ p <= e[p]
        BY <1>2, <1>4, <1>5, <2>1, KeepsClimb
      <3>2. p <= Len(row)
        BY <1>3, <1>4, <3>1
      <3> QED BY <1>2, <1>3, <1>4, <2>1, <3>2, KeepsFront
    <2>3. 1..Len(new) = 1..Len(row)
      <3>1. \A p \in 1..Len(new) : p \in 1..Len(row)
        BY <1>5, <2>1, <2>2
      <3>2. \A p \in 1..Len(row) : p \in 1..Len(new)
        <4> TAKE p \in 1..Len(row)
        <4>1. PICK j \in 1..Len(new) : e[j] = p
          BY <1>2, <2>1 DEF Keeps
        <4> QED BY <2>2, <4>1
      <3> QED BY <3>1, <3>2
    <2>4. Len(new) = Len(row)
      BY <1>3, <1>4, <2>3
    <2>5. \A p \in 1..Len(new) : new[p] = row[p]
      BY <1>5, <2>2
    <2> QED BY <1>1, <2>4, <2>5, SeqEqual
  <1> QED BY <1>1, <1>6, <1>7, <1>8 DEF new

\* A list up to its n-th element.
LEMMA UpToLast ==
    ASSUME NEW T, NEW row \in Seq(T), NEW n \in 1..Len(row)
    PROVE  /\ SubSeq(row, 1, n - 1) \in Seq(T) /\ row[n] \in T
           /\ SubSeq(row, 1, n) = Append(SubSeq(row, 1, n - 1), row[n])
  <1>1. Len(row) \in Nat /\ n \in Nat /\ 1 \in 1..Len(row) /\ n \in 1..Len(row)
    OBVIOUS
  <1>2. row[n] \in T /\ \A i \in 1..Len(row) : row[i] \in T
    OBVIOUS
  <1>3. \A i \in 1..(n - 1) : row[i] \in T
    BY <1>1, <1>2
  <1>4. SubSeq(row, 1, n - 1) \in Seq(T)
    BY <1>1, <1>3, SubSeqProperties
  <1>5. SubSeq(row, 1, n) = SubSeq(row, 1, n - 1) \o <<row[n]>>
    BY <1>1, SubSeqRecursiveSecond
  <1> QED BY <1>2, <1>4, <1>5, AppendIsConcat

\* The selection from two lists is that from the first, then from the second.
LEMMA ThoseConcat ==
    ASSUME NEW T, NEW a \in Seq(T), NEW b \in Seq(T), NEW S
    PROVE  Those(a \o b, S) = Those(a, S) \o Those(b, S)
  <1> DEFINE first(n) == SubSeq(b, 1, n)
             P(n) == Those(a \o first(n), S) = Those(a, S) \o Those(first(n), S)
             Bad == {n \in 0..Len(b) : ~P(n)}
  <1>1. Those(a, S) \in Seq(T)
    BY ThoseAre
  <1>2. P(0)
    <2>1. first(0) = <<>>
      OBVIOUS
    <2>2. a \o <<>> = a /\ Those(a, S) \o <<>> = Those(a, S)
      BY <1>1, ConcatEmptySeq
    <2> QED BY <2>1, <2>2, ThoseFew
  <1>3. ASSUME NEW n \in 1..Len(b), P(n - 1)
        PROVE  P(n)
    <2> DEFINE c == first(n - 1)
               x == b[n]
    <2>1. c \in Seq(T) /\ x \in T /\ first(n) = Append(c, x)
      BY UpToLast
    <2>2. Those(a \o c, S) = Those(a, S) \o Those(c, S)
      BY <1>3
    <2>3. Those(c, S) \in Seq(T)
      BY <2>1, ThoseAre
    <2> HIDE DEF c, x, first
    <2>4. a \o Append(c, x) = Append(a \o c, x) /\ a \o c \in Seq(T)
      BY <2>1
    <2>5. Those(a \o Append(c, x), S) =
              IF x \in S THEN Append(Those(a \o c, S), x) ELSE Those(a \o c, S)
      BY <2>1, <2>4, ThoseAppend
    <2>6. Those(Append(c, x), S) = IF x \in S THEN Append(Those(c, S), x) ELSE Those(c, S)
      BY <2>1, ThoseAppend
    <2>7. Those(a, S) \o Append(Those(c, S), x) = Append(Those(a, S) \o Those(c, S), x)
      BY <1>1, <2>1, <2>3
    <2>8. Those(a \o Append(c, x), S) = Those(a, S) \o Those(Append(c, x), S)
      BY <2>2, <2>5, <2>6, <2>7
    <2> QED BY <2>1, <2>8
  <1>4. Bad = {}
    <2> SUFFICES ASSUME Bad # {} PROVE FALSE
      OBVIOUS
    <2>1. Bad \subseteq Nat
      OBVIOUS
    <2>2. PICK n \in Bad : \A k \in Bad : n <= k
      <3> HIDE DEF Bad
      <3> QED BY <2>1, Least
    <2> HIDE DEF P
    <2>3. n \in 0..Len(b) /\ ~P(n) /\ Len(b) \in Nat
      OBVIOUS
    <2>4. n # 0
      BY <1>2, <2>3
    <2>5. n \in 1..Len(b) /\ n - 1 \in 0..Len(b) /\ ~(n <= n - 1)
      BY <2>3, <2>4
    <2>6. P(n - 1)
      BY <2>2, <2>5
    <2> QED BY <1>3, <2>3, <2>5, <2>6
  <1>5. P(Len(b))
    <2> HIDE DEF P
    <2>1. Len(b) \in 0..Len(b)
      OBVIOUS
    <2> QED BY <1>4, <2>1
  <1>6. first(Len(b)) = b
    BY SubSeqFull
  <1> QED BY <1>5, <1>6
-----------------------------------------------------------------------------
\* Loop does what its steps say, one after the other.
LEMMA LoopRuns ==
    ASSUME NEW step, NEW first, NEW n \in Nat
    PROVE  \E after : /\ after[0] = first
                      /\ \A i \in 1..n : after[i] = step[i][after[i - 1]]
                      /\ Loop(step, first, n) = after[n]
  <1> DEFINE IsRun(f, m) ==
                 f = [i \in 0..m |-> IF i = 0 THEN first ELSE step[i][f[i - 1]]]
             Bad == {m \in Nat : ~ \E f : IsRun(f, m)}
  <1>1. ASSUME NEW m \in Nat, NEW g, IsRun(g, m)
        PROVE  \E f : IsRun(f, m + 1)
    <2> DEFINE f   == [i \in 0..(m + 1) |-> IF i = m + 1 THEN step[i][g[m]] ELSE g[i]]
               rhs == [i \in 0..(m + 1) |-> IF i = 0 THEN first ELSE step[i][f[i - 1]]]
    <2>1. \A i \in 0..m : g[i] = IF i = 0 THEN first ELSE step[i][g[i - 1]]
      BY <1>1, Zenon
    <2>2. ASSUME NEW i \in 0..(m + 1) PROVE f[i] = rhs[i]
      <3>1. CASE i = m + 1
        <4>1. f[i - 1] = g[m] /\ i # 0
          BY <3>1
        <4> QED BY <3>1, <4>1
      <3>2. CASE i # m + 1
        <4>1. i \in 0..m /\ f[i] = g[i]
          BY <3>2
        <4>2. i # 0 => f[i - 1] = g[i - 1]
          BY <3>2
        <4> QED BY <2>1, <4>1, <4>2
      <3> QED BY <3>1, <3>2
    <2>3. f = rhs
      BY <2>2
    <2>4. IsRun(f, m + 1)
      BY <2>3
    <2> QED BY <2>4
  <1>2. \E f : IsRun(f, 0)
    <2> DEFINE f == [i \in 0..0 |-> first]
    <2>1. f = [i \in 0..0 |-> IF i = 0 THEN first ELSE step[i][f[i - 1]]]
      OBVIOUS
    <2> QED BY <2>1
  <1>3. Bad = {}
    <2> SUFFICES ASSUME Bad # {} PROVE FALSE
      OBVIOUS
    <2>1. PICK m \in Bad : \A k \in Bad : m <= k
      <3>1. Bad \subseteq Nat
        OBVIOUS
      <3> HIDE DEF Bad
      <3> QED BY <3>1, Least
    <2> HIDE DEF IsRun
    <2>2. m \in Nat /\ ~ \E f : IsRun(f, m)
      OBVIOUS
    <2>3. m # 0
      BY <1>2, <2>2
    <2>4. m - 1 \in Nat /\ ~(m <= m - 1) /\ (m - 1) + 1 = m
      BY <2>2, <2>3
    <2>5. PICK g : IsRun(g, m - 1)
      BY <2>1, <2>4
    <2>6. \E f : IsRun(f, (m - 1) + 1)
      BY <1>1, <2>4, <2>5
    <2> QED BY <2>2, <2>4, <2>6
  <1> DEFINE after == CHOOSE f : IsRun(f, n)
  <1>4. IsRun(after, n)
    <2> HIDE DEF IsRun
    <2> QED BY <1>3
  <1>5. Loop(step, first, n) = after[n]
    BY DEF Loop
  <1> HIDE DEF after
  <1>6. \A i \in 0..n : after[i] = IF i = 0 THEN first ELSE step[i][after[i - 1]]
    BY <1>4, Zenon
  <1>7. \A i \in 1..n : i \in 0..n /\ i # 0
    OBVIOUS
  <1>8. 0 \in 0..n
    OBVIOUS
  <1> QED BY <1>5, <1>6, <1>7, <1>8
=============================================================================
