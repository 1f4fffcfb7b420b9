---------------------------- MODULE PhaseProofs ----------------------------
(***************************************************************************)
(* Lemmas about the operators of Phase, for all handler names, phases and  *)
(* rules.  They are about one relation: a call leaves the chain of         *)
(* handlers alone, or inserts one handler into it, or takes one out, which *)
(* is an insertion read backwards.                                         *)
(*                                                                         *)
(* Induction over lists is done by the least counterexample: a non-empty   *)
(* set of numbers has a least element (WFMin).                             *)
(***************************************************************************)
EXTENDS Phase, WellFoundedInduction, TLAPS

\* List m is list l with n at position k.
Inserted(l, m, k, n) ==
    /\ l \in Seq(Names) /\ m \in Seq(Names) /\ n \in Names
    /\ Len(m) = Len(l) + 1 /\ k \in 1..Len(m) /\ m[k] = n
    /\ \A j \in 1..(k - 1) : m[j] = l[j]
    /\ \A j \in k..Len(l) : m[j + 1] = l[j]

\* In list l, every x is before every y.
ListOrder(l, x, y) == \A j, k \in 1..Len(l) : l[j] = x /\ l[k] = y => j < k
-----------------------------------------------------------------------------
\* A non-empty set of numbers has a least element, and Min is one.
LEMMA MinIsLeast ==
    ASSUME NEW S, S \subseteq Nat, S # {}
    PROVE  Min(S) \in S /\ \A y \in S : Min(S) <= y
<1>1. PICK x \in S : \A y \in S : ~(<<y, x>> \in OpToRel(<, Nat))
  BY NatLessThanWellFounded, WFMin
<1>2. ASSUME NEW y \in S PROVE ~(y < x)
  <2>1. <<y, x>> \in Nat \X Nat
    OBVIOUS
  <2>2. y < x => <<y, x>> \in OpToRel(<, Nat)
    BY <2>1, Zenon DEF OpToRel
  <2> QED BY <1>1, <2>2
<1>3. \A y \in S : x <= y
  BY <1>2
<1> QED BY <1>3 DEF Min

\* Induction along a list, for a set of numbers.
LEMMA UpTo ==
    ASSUME NEW N \in Nat, NEW S, 0 \in S, \A k \in 1..N : k - 1 \in S => k \in S
    PROVE  \A k \in 0..N : k \in S
<1> DEFINE T == {k \in 0..N : k \notin S}
<1> SUFFICES ASSUME T # {} PROVE FALSE
  OBVIOUS
<1>1. T \subseteq Nat
  OBVIOUS
<1>2. PICK x \in T : \A y \in T : x <= y
  BY <1>1, MinIsLeast
<1>3. x \in 1..N /\ x - 1 \in 0..N
  BY <1>2
<1>4. x - 1 \notin T
  BY <1>2, <1>3
<1> QED BY <1>2, <1>3, <1>4

\* A non-empty set of numbers with an upper bound has a greatest element, and
\* Max is one.
LEMMA MaxIsGreatest ==
    ASSUME NEW b \in Nat, NEW S, S \subseteq 0..b, S # {}
    PROVE  Max(S) \in S /\ \A y \in S : Max(S) >= y
<1> DEFINE T == {b - y : y \in S}
<1>1. T \subseteq Nat
  OBVIOUS
<1>2. T # {}
  <2>1. PICK y \in S : TRUE
    OBVIOUS
  <2>2. b - y \in T
    OBVIOUS
  <2> QED BY <2>2
<1>3. Min(T) \in T /\ \A y \in T : Min(T) <= y
  BY <1>1, <1>2, MinIsLeast
<1>4. PICK x \in S : Min(T) = b - x
  BY <1>3
<1>5. ASSUME NEW y \in S PROVE x >= y
  <2>1. b - x <= b - y
    BY <1>3, <1>4
  <2>2. x \in Int /\ y \in Int
    OBVIOUS
  <2> QED BY <2>1, <2>2
<1> QED BY <1>5 DEF Max

\* FirstIndex is the first place a handler is found at, and 0 when it is not
\* in the list.
LEMMA FirstIndexFound ==
    ASSUME NEW l \in Seq(Names), NEW n
    PROVE  /\ Contains(l, n) => /\ FirstIndex(l, n) \in 1..Len(l)
                                /\ l[FirstIndex(l, n)] = n
                                /\ \A j \in 1..Len(l) : l[j] = n => FirstIndex(l, n) <= j
           /\ ~Contains(l, n) => FirstIndex(l, n) = 0
<1> DEFINE I == {i \in 1..Len(l) : l[i] = n}
<1>1. FirstIndex(l, n) = IF I # {} THEN Min(I) ELSE 0
  BY DEF FirstIndex, SelectInSeq
<1>2. Contains(l, n) <=> I # {}
  BY DEF Contains
<1>3. I \subseteq Nat
  OBVIOUS
<1>4. I # {} => Min(I) \in I /\ \A y \in I : Min(I) <= y
  BY <1>3, MinIsLeast
<1> QED BY <1>1, <1>2, <1>4

\* LastIndexUpTo is an index of the part of the list it looks at, or 0.
LEMMA LastIndexRange ==
    ASSUME NEW l \in Seq(Names), NEW n, NEW k \in 0..Len(l)
    PROVE  LastIndexUpTo(l, n, k) \in 0..k
<1> DEFINE s == SubSeq(l, 1, k)
           I == {i \in 1..Len(s) : s[i] = n}
<1>1. Len(s) = k
  OBVIOUS
<1> HIDE DEF s
<1>2. LastIndexUpTo(l, n, k) = IF I # {} THEN Max(I) ELSE 0
  BY DEF LastIndexUpTo, SelectLastInSeq, s
<1>3. k \in Nat /\ I \subseteq 0..k
  BY <1>1
<1>4. I # {} => Max(I) \in I
  BY <1>3, MaxIsGreatest
<1> QED BY <1>2, <1>3, <1>4
-----------------------------------------------------------------------------
\* axutil_array_list_add_at shifts the tail and nothing else.
LEMMA AddAtInserted ==
    ASSUME NEW l \in Seq(Names), NEW k \in 1..(Len(l) + 1), NEW n \in Names
    PROVE  Inserted(l, AddAt(l, k, n), k, n)
<1> DEFINE A == SubSeq(l, 1, k - 1)
           B == SubSeq(l, k, Len(l))
<1>1. Len(l) \in Nat /\ k \in Nat
  OBVIOUS
<1>2. A \in Seq(Names) /\ Len(A) = k - 1 /\ \A j \in 1..(k - 1) : A[j] = l[j]
  BY <1>1
<1>3. /\ B \in Seq(Names) /\ Len(B) = Len(l) - k + 1
      /\ \A j \in 1..(Len(l) - k + 1) : B[j] = l[k + j - 1]
  BY <1>1
<1> HIDE DEF A, B
<1>4. AddAt(l, k, n) = A \o <<n>> \o B
  BY DEF AddAt, InsertAt, A, B
<1>5. A \o <<n>> \in Seq(Names) /\ Len(A \o <<n>>) = k /\ (A \o <<n>>)[k] = n
      /\ \A j \in 1..(k - 1) : (A \o <<n>>)[j] = l[j]
  BY <1>1, <1>2
<1> DEFINE C == A \o <<n>>
<1> HIDE DEF C
<1>6. C \in Seq(Names) /\ Len(C) = k /\ C[k] = n /\ \A j \in 1..(k - 1) : C[j] = l[j]
  BY <1>5 DEF C
<1>7. AddAt(l, k, n) = C \o B
  BY <1>4 DEF C
<1>8. C \o B \in Seq(Names)
  BY <1>3, <1>6
<1>9. Len(C \o B) = Len(l) + 1
  <2>1. C \in Seq(Names) /\ B \in Seq(Names)
    BY <1>3, <1>6
  <2>2. Len(C \o B) = Len(C) + Len(B)
    BY <2>1
  <2> QED BY <1>1, <1>3, <1>6, <2>2
<1>10. ASSUME NEW j \in 1..k PROVE (C \o B)[j] = C[j]
  BY <1>1, <1>3, <1>6
<1>11. ASSUME NEW j \in k..Len(l) PROVE (C \o B)[j + 1] = l[j]
  <2>1. (C \o B)[j + 1] = B[j + 1 - k]
    BY <1>1, <1>3, <1>6
  <2>2. j + 1 - k \in 1..(Len(l) - k + 1)
    BY <1>1
  <2>3. B[j + 1 - k] = l[k + (j + 1 - k) - 1]
    BY <1>3, <2>2
  <2> QED BY <1>1, <2>1, <2>3
<1>12. k \in 1..Len(C \o B)
  BY <1>1, <1>9
<1>13. (C \o B)[k] = n
  BY <1>1, <1>6, <1>10
<1>14. \A j \in 1..(k - 1) : (C \o B)[j] = l[j]
  BY <1>1, <1>6, <1>10
<1> HIDE DEF C
<1> QED BY <1>7, <1>8, <1>9, <1>11, <1>12, <1>13, <1>14 DEF Inserted

\* Appending is inserting behind the last entry.
LEMMA AppendInserted ==
    ASSUME NEW l \in Seq(Names), NEW n \in Names
    PROVE  Inserted(l, Append(l, n), Len(l) + 1, n)
  BY DEF Inserted

\* axis2_phase_remove_unique takes one entry out: an insertion read backwards.
LEMMA RemoveInserted ==
    ASSUME NEW l \in Seq(Names), NEW n \in Names, Contains(l, n)
    PROVE  Inserted(RemoveFirst(l, n), l, FirstIndex(l, n), n)
<1> DEFINE k == FirstIndex(l, n)
           A == SubSeq(l, 1, k - 1)
           B == SubSeq(l, k + 1, Len(l))
<1>1. k \in 1..Len(l) /\ l[k] = n
  BY FirstIndexFound
<1>2. RemoveFirst(l, n) = A \o B
  BY DEF RemoveFirst, RemoveAt, FirstIndex, Contains
<1> HIDE DEF k
<1>3. Len(l) \in Nat /\ k \in Nat
  BY <1>1
<1>4. A \in Seq(Names) /\ Len(A) = k - 1 /\ \A j \in 1..(k - 1) : A[j] = l[j]
  BY <1>1, <1>3
<1>5. /\ B \in Seq(Names) /\ Len(B) = Len(l) - k
      /\ \A j \in 1..(Len(l) - k) : B[j] = l[k + 1 + j - 1]
  BY <1>1, <1>3
<1> HIDE DEF A, B
<1>6. A \o B \in Seq(Names)
  BY <1>4, <1>5
<1>7. Len(A \o B) = Len(l) - 1
  <2>1. Len(A \o B) = Len(A) + Len(B)
    BY <1>4, <1>5
  <2> QED BY <1>3, <1>4, <1>5, <2>1
<1>8. ASSUME NEW j \in 1..(k - 1) PROVE l[j] = (A \o B)[j]
  BY <1>3, <1>4, <1>5
<1>9. ASSUME NEW j \in k..Len(A \o B) PROVE l[j + 1] = (A \o B)[j]
  <2>1. j \in Int /\ k <= j /\ j <= Len(l) - 1
    BY <1>3, <1>7
  <2>2. (A \o B)[j] = B[j - (k - 1)]
    BY <1>3, <1>4, <1>5, <2>1
  <2>3. j - (k - 1) \in 1..(Len(l) - k)
    BY <1>3, <2>1
  <2>4. B[j - (k - 1)] = l[k + 1 + (j - (k - 1)) - 1]
    BY <1>5, <2>3
  <2>5. k + 1 + (j - (k - 1)) - 1 = j + 1
    BY <1>3, <2>1
  <2> QED BY <2>2, <2>4, <2>5
<1>10. Len(l) = Len(A \o B) + 1
  BY <1>3, <1>7
<1> QED BY <1>1, <1>2, <1>6, <1>8, <1>9, <1>10 DEF Inserted, k

\* Where the entries of either list are found in the other.
LEMMA InsertedEntries ==
    ASSUME NEW l, NEW m, NEW k, NEW n, Inserted(l, m, k, n)
    PROVE  /\ k \in Int /\ k \in 1..Len(m) /\ m[k] = n
           /\ Len(l) \in Nat /\ Len(m) = Len(l) + 1
           /\ \A j \in 1..Len(m) : j < k => j \in 1..Len(l) /\ m[j] = l[j]
           /\ \A j \in 1..Len(m) : j > k => j - 1 \in 1..Len(l) /\ m[j] = l[j - 1]
           /\ \A j \in 1..Len(l) : j < k => j \in 1..Len(m) /\ m[j] = l[j]
           /\ \A j \in 1..Len(l) : j >= k => j + 1 \in 1..Len(m) /\ m[j + 1] = l[j]
<1>1. Len(l) \in Nat /\ k \in 1..(Len(l) + 1) /\ Len(m) = Len(l) + 1
  BY DEF Inserted
<1>2. ASSUME NEW j \in 1..Len(m), j > k PROVE j - 1 \in k..Len(l) /\ m[j] = l[j - 1]
  <2>1. j - 1 \in k..Len(l)
    BY <1>1, <1>2
  <2>2. m[(j - 1) + 1] = l[j - 1]
    BY <2>1 DEF Inserted
  <2> QED BY <1>1, <2>1, <2>2
<1>3. m[k] = n /\ k \in 1..Len(m) /\ k \in Int
  BY <1>1 DEF Inserted
<1>4. ASSUME NEW j \in 1..Len(m), j < k PROVE j \in 1..Len(l) /\ m[j] = l[j]
  <2>1. j \in 1..(k - 1) /\ j \in 1..Len(l)
    BY <1>1, <1>4
  <2> QED BY <2>1 DEF Inserted
<1>5. ASSUME NEW j \in 1..Len(l), j < k PROVE j \in 1..Len(m) /\ m[j] = l[j]
  <2>1. j \in 1..(k - 1) /\ j \in 1..Len(m)
    BY <1>1, <1>5
  <2> QED BY <2>1 DEF Inserted
<1>6. ASSUME NEW j \in 1..Len(l), j >= k PROVE j + 1 \in 1..Len(m) /\ m[j + 1] = l[j]
  <2>1. j \in k..Len(l) /\ j + 1 \in 1..Len(m)
    BY <1>1, <1>6
  <2> QED BY <2>1 DEF Inserted
<1>7. ASSUME NEW j \in 1..Len(m), j > k PROVE j - 1 \in 1..Len(l)
  BY <1>1, <1>2, <1>7
<1> QED BY <1>1, <1>2, <1>3, <1>4, <1>5, <1>6, <1>7

\* The entries of a list are still there after an insertion.
LEMMA InsertedContains ==
    ASSUME NEW l, NEW m, NEW k, NEW n, Inserted(l, m, k, n), NEW z
    PROVE  Contains(m, z) <=> Contains(l, z) \/ z = n
<1>1. /\ k \in Int /\ k \in 1..Len(m) /\ m[k] = n
      /\ \A j \in 1..Len(m) : j < k => j \in 1..Len(l) /\ m[j] = l[j]
      /\ \A j \in 1..Len(m) : j > k => j - 1 \in 1..Len(l) /\ m[j] = l[j - 1]
      /\ \A j \in 1..Len(l) : j < k => j \in 1..Len(m) /\ m[j] = l[j]
      /\ \A j \in 1..Len(l) : j >= k => j + 1 \in 1..Len(m) /\ m[j + 1] = l[j]
  BY InsertedEntries
<1>2. ASSUME Contains(m, z), z # n PROVE Contains(l, z)
  <2>1. PICK j \in 1..Len(m) : m[j] = z
    BY <1>2 DEF Contains
  <2>2. j < k \/ j > k
    BY <1>1, <1>2, <2>1
  <2> QED BY <1>1, <2>1, <2>2 DEF Contains
<1>3. ASSUME Contains(l, z) PROVE Contains(m, z)
  <2>1. PICK j \in 1..Len(l) : l[j] = z
    BY <1>3 DEF Contains
  <2>2. j < k \/ j >= k
    BY <1>1
  <2> QED BY <1>1, <2>1, <2>2 DEF Contains
<1>4. Contains(m, n)
  BY <1>1 DEF Contains
<1> QED BY <1>2, <1>3, <1>4

\* Inserting what is not there doubles nothing.
LEMMA InsertedInjective ==
    ASSUME NEW l, NEW m, NEW k, NEW n, Inserted(l, m, k, n),
           IsInjective(l), ~Contains(l, n)
    PROVE  IsInjective(m)
<1>1. /\ k \in Int /\ k \in 1..Len(m) /\ m[k] = n
      /\ \A j \in 1..Len(m) : j < k => j \in 1..Len(l) /\ m[j] = l[j]
      /\ \A j \in 1..Len(m) : j > k => j - 1 \in 1..Len(l) /\ m[j] = l[j - 1]
  BY InsertedEntries
<1>2. \A j \in 1..Len(l) : l[j] # n
  BY DEF Contains
<1>3. \A c, d \in 1..Len(l) : l[c] = l[d] => c = d
  BY DEF IsInjective, Inserted
<1> SUFFICES ASSUME NEW a \in 1..Len(m), NEW b \in 1..Len(m), m[a] = m[b]
             PROVE  a = b
  BY DEF IsInjective, Inserted
<1>4. CASE a = k
  BY <1>1, <1>2, <1>4
<1>5. CASE b = k
  BY <1>1, <1>2, <1>5
<1>6. CASE a < k /\ b < k
  BY <1>1, <1>3, <1>6
<1>7. CASE a < k /\ b > k
  <2>1. a = b - 1
    BY <1>1, <1>3, <1>7
  <2> QED BY <1>1, <1>7, <2>1
<1>8. CASE a > k /\ b < k
  <2>1. b = a - 1
    BY <1>1, <1>3, <1>8
  <2> QED BY <1>1, <1>8, <2>1
<1>9. CASE a > k /\ b > k
  <2>1. a - 1 = b - 1
    BY <1>1, <1>3, <1>9
  <2> QED BY <2>1
<1> QED BY <1>1, <1>4, <1>5, <1>6, <1>7, <1>8, <1>9

\* Taking an entry out doubles nothing.
LEMMA InsertedInjectiveBack ==
    ASSUME NEW l, NEW m, NEW k, NEW n, Inserted(l, m, k, n), IsInjective(m)
    PROVE  IsInjective(l)
<1>1. /\ k \in Int
      /\ \A j \in 1..Len(l) : j < k => j \in 1..Len(m) /\ m[j] = l[j]
      /\ \A j \in 1..Len(l) : j >= k => j + 1 \in 1..Len(m) /\ m[j + 1] = l[j]
  BY InsertedEntries
<1>2. \A c, d \in 1..Len(m) : m[c] = m[d] => c = d
  BY DEF IsInjective, Inserted
<1> SUFFICES ASSUME NEW a \in 1..Len(l), NEW b \in 1..Len(l), l[a] = l[b]
             PROVE  a = b
  BY DEF IsInjective, Inserted
<1>3. CASE a < k /\ b < k
  BY <1>1, <1>2, <1>3
<1>4. CASE a < k /\ b >= k
  <2>1. a = b + 1
    BY <1>1, <1>2, <1>4
  <2> QED BY <1>1, <1>4, <2>1
<1>5. CASE a >= k /\ b < k
  <2>1. b = a + 1
    BY <1>1, <1>2, <1>5
  <2> QED BY <1>1, <1>5, <2>1
<1>6. CASE a >= k /\ b >= k
  <2>1. a + 1 = b + 1
    BY <1>1, <1>2, <1>6
  <2> QED BY <2>1
<1> QED BY <1>1, <1>3, <1>4, <1>5, <1>6

\* Inserting one entry does not change the order of the others.
LEMMA InsertedOrder ==
    ASSUME NEW l, NEW m, NEW k, NEW n, Inserted(l, m, k, n),
           NEW x, NEW y, x # n, y # n, ListOrder(l, x, y)
    PROVE  ListOrder(m, x, y)
<1>1. /\ k \in Int /\ k \in 1..Len(m) /\ m[k] = n
      /\ \A j \in 1..Len(m) : j < k => j \in 1..Len(l) /\ m[j] = l[j]
      /\ \A j \in 1..Len(m) : j > k => j - 1 \in 1..Len(l) /\ m[j] = l[j - 1]
  BY InsertedEntries
<1>2. \A c, d \in 1..Len(l) : l[c] = x /\ l[d] = y => c < d
  BY DEF ListOrder
<1> SUFFICES ASSUME NEW a \in 1..Len(m), NEW b \in 1..Len(m), m[a] = x, m[b] = y
             PROVE  a < b
  BY DEF ListOrder
<1>3. a # k /\ b # k
  BY <1>1
<1>4. CASE a < k /\ b < k
  BY <1>1, <1>2, <1>4
<1>5. CASE a < k /\ b > k
  BY <1>1, <1>5
<1>6. CASE a > k /\ b < k
  <2>1. a - 1 < b
    BY <1>1, <1>2, <1>6
  <2> QED BY <1>1, <1>6, <2>1
<1>7. CASE a > k /\ b > k
  <2>1. a - 1 < b - 1
    BY <1>1, <1>2, <1>7
  <2> QED BY <2>1
<1> QED BY <1>1, <1>3, <1>4, <1>5, <1>6, <1>7

\* Taking one entry out does not change the order of the others.
LEMMA InsertedOrderBack ==
    ASSUME NEW l, NEW m, NEW k, NEW n, Inserted(l, m, k, n),
           NEW x, NEW y, ListOrder(m, x, y)
    PROVE  ListOrder(l, x, y)
<1>1. /\ k \in Int
      /\ \A j \in 1..Len(l) : j < k => j \in 1..Len(m) /\ m[j] = l[j]
      /\ \A j \in 1..Len(l) : j >= k => j + 1 \in 1..Len(m) /\ m[j + 1] = l[j]
  BY InsertedEntries
<1>2. \A c, d \in 1..Len(m) : m[c] = x /\ m[d] = y => c < d
  BY DEF ListOrder
<1> SUFFICES ASSUME NEW a \in 1..Len(l), NEW b \in 1..Len(l), l[a] = x, l[b] = y
             PROVE  a < b
  BY DEF ListOrder
<1>3. CASE a < k /\ b < k
  BY <1>1, <1>2, <1>3
<1>4. CASE a < k /\ b >= k
  BY <1>1, <1>4
<1>5. CASE a >= k /\ b < k
  <2>1. a + 1 < b
    BY <1>1, <1>2, <1>5
  <2> QED BY <2>1
<1>6. CASE a >= k /\ b >= k
  <2>1. a + 1 < b + 1
    BY <1>1, <1>2, <1>6
  <2> QED BY <2>1
<1> QED BY <1>1, <1>3, <1>4, <1>5, <1>6

\* Taking out what was inserted leaves the list of before.
LEMMA InsertedRemoved ==
    ASSUME NEW l, NEW m, NEW k, NEW n, Inserted(l, m, k, n), ~Contains(l, n)
    PROVE  RemoveFirst(m, n) = l
<1>1. /\ k \in Int /\ k \in 1..Len(m) /\ m[k] = n
      /\ \A j \in 1..Len(m) : j < k => j \in 1..Len(l) /\ m[j] = l[j]
  BY InsertedEntries
<1>2. \A j \in 1..Len(l) : l[j] # n
  BY DEF Contains
<1>3. m \in Seq(Names) /\ l \in Seq(Names) /\ n \in Names
  BY DEF Inserted
<1>4. Contains(m, n)
  BY <1>1 DEF Contains
<1>5. /\ FirstIndex(m, n) \in 1..Len(m) /\ m[FirstIndex(m, n)] = n
      /\ FirstIndex(m, n) <= k
  BY <1>1, <1>3, <1>4, FirstIndexFound
<1>6. FirstIndex(m, n) = k
  BY <1>1, <1>2, <1>5
<1>7. Inserted(RemoveFirst(m, n), m, k, n)
  BY <1>3, <1>4, <1>6, RemoveInserted
<1> DEFINE r == RemoveFirst(m, n)
<1> HIDE DEF r
<1>8. r \in Seq(Names) /\ Len(r) = Len(l) /\ Len(l) \in Nat
  BY <1>7 DEF Inserted, r
<1>9. ASSUME NEW j \in 1..Len(l) PROVE r[j] = l[j]
  <2>1. CASE j < k
    BY <1>1, <1>7, <1>8, <2>1 DEF Inserted, r
  <2>2. CASE j >= k
    BY <1>1, <1>7, <1>8, <2>2 DEF Inserted, r
  <2> QED BY <1>1, <2>1, <2>2
<1>10. r = l
  BY <1>3, <1>8, <1>9
<1> QED BY <1>10 DEF r
-----------------------------------------------------------------------------
\* The entries of two lists put together.
LEMMA ConcatEntries ==
    ASSUME NEW A \in Seq(Names), NEW B \in Seq(Names)
    PROVE  /\ A \o B \in Seq(Names) /\ Len(A) \in Nat /\ Len(B) \in Nat
           /\ Len(A \o B) = Len(A) + Len(B)
           /\ \A j \in 1..Len(A) : (A \o B)[j] = A[j]
           /\ \A j \in 1..Len(A \o B) : j > Len(A) => (A \o B)[j] = B[j - Len(A)]
<1>1. A \o B \in Seq(Names) /\ Len(A) \in Nat /\ Len(B) \in Nat
  OBVIOUS
<1>2. Len(A \o B) = Len(A) + Len(B)
  OBVIOUS
<1>3. \A j \in 1..Len(A) : (A \o B)[j] = A[j]
  OBVIOUS
<1>4. ASSUME NEW j \in 1..Len(A \o B), j > Len(A) PROVE (A \o B)[j] = B[j - Len(A)]
  BY <1>1, <1>2, <1>4
<1> QED BY <1>1, <1>2, <1>3, <1>4

\* An insertion behind a prefix is an insertion.
LEMMA InsertedBehind ==
    ASSUME NEW l, NEW m, NEW k, NEW n, Inserted(l, m, k, n), NEW F \in Seq(Names)
    PROVE  Inserted(F \o l, F \o m, Len(F) + k, n)
<1>1. l \in Seq(Names) /\ m \in Seq(Names) /\ n \in Names
  BY DEF Inserted
<1>2. /\ k \in Int /\ k \in 1..Len(m) /\ m[k] = n
      /\ Len(l) \in Nat /\ Len(m) = Len(l) + 1
      /\ \A j \in 1..Len(l) : j < k => m[j] = l[j]
      /\ \A j \in 1..Len(l) : j >= k => m[j + 1] = l[j]
  BY InsertedEntries
<1> DEFINE fl == F \o l
           fm == F \o m
<1>3. /\ fl \in Seq(Names) /\ Len(F) \in Nat /\ Len(fl) = Len(F) + Len(l)
      /\ \A j \in 1..Len(F) : fl[j] = F[j]
      /\ \A j \in 1..Len(fl) : j > Len(F) => fl[j] = l[j - Len(F)]
  BY <1>1, ConcatEntries
<1>4. /\ fm \in Seq(Names) /\ Len(fm) = Len(F) + Len(m)
      /\ \A j \in 1..Len(F) : fm[j] = F[j]
      /\ \A j \in 1..Len(fm) : j > Len(F) => fm[j] = m[j - Len(F)]
  BY <1>1, ConcatEntries
<1> HIDE DEF fl, fm
<1>5. Len(fm) = Len(fl) + 1
  BY <1>2, <1>3, <1>4
<1>6. Len(F) + k \in 1..Len(fm)
  BY <1>2, <1>3, <1>4
<1>7. fm[Len(F) + k] = n
  <2>1. Len(F) + k > Len(F) /\ (Len(F) + k) - Len(F) = k
    BY <1>2, <1>3
  <2> QED BY <1>2, <1>4, <1>6, <2>1
<1>8. ASSUME NEW j \in 1..((Len(F) + k) - 1) PROVE fm[j] = fl[j]
  <2>1. CASE j <= Len(F)
    BY <1>3, <1>4, <2>1
  <2>2. CASE j > Len(F)
    <3>1. j - Len(F) \in 1..Len(l) /\ j - Len(F) < k /\ j \in 1..Len(fl) /\ j \in 1..Len(fm)
      BY <1>2, <1>3, <1>4, <2>2
    <3>2. m[j - Len(F)] = l[j - Len(F)]
      BY <1>2, <3>1
    <3> QED BY <1>3, <1>4, <2>2, <3>1, <3>2
  <2> QED BY <1>3, <2>1, <2>2
<1>9. ASSUME NEW j \in (Len(F) + k)..Len(fl) PROVE fm[j + 1] = fl[j]
  <2>1. /\ j - Len(F) \in 1..Len(l) /\ j - Len(F) >= k /\ j \in 1..Len(fl)
        /\ j + 1 \in 1..Len(fm) /\ j > Len(F) /\ j + 1 > Len(F)
        /\ (j + 1) - Len(F) = (j - Len(F)) + 1
    BY <1>2, <1>3, <1>4
  <2>2. m[(j - Len(F)) + 1] = l[j - Len(F)]
    BY <1>2, <2>1
  <2>3. fm[j + 1] = m[(j - Len(F)) + 1]
    BY <1>4, <2>1
  <2>4. fl[j] = l[j - Len(F)]
    BY <1>3, <2>1
  <2> QED BY <2>2, <2>3, <2>4
<1> QED BY <1>1, <1>3, <1>4, <1>5, <1>6, <1>7, <1>8, <1>9 DEF Inserted, fl, fm

\* An insertion in front of a suffix is an insertion.
LEMMA InsertedInFront ==
    ASSUME NEW l, NEW m, NEW k, NEW n, Inserted(l, m, k, n), NEW L \in Seq(Names)
    PROVE  Inserted(l \o L, m \o L, k, n)
<1>1. l \in Seq(Names) /\ m \in Seq(Names) /\ n \in Names
  BY DEF Inserted
<1>2. /\ k \in Int /\ k \in 1..Len(m) /\ m[k] = n
      /\ Len(l) \in Nat /\ Len(m) = Len(l) + 1
      /\ \A j \in 1..Len(l) : j < k => m[j] = l[j]
      /\ \A j \in 1..Len(l) : j >= k => m[j + 1] = l[j]
  BY InsertedEntries
<1> DEFINE lx == l \o L
           mx == m \o L
<1>3. /\ lx \in Seq(Names) /\ Len(L) \in Nat /\ Len(lx) = Len(l) + Len(L)
      /\ \A j \in 1..Len(l) : lx[j] = l[j]
      /\ \A j \in 1..Len(lx) : j > Len(l) => lx[j] = L[j - Len(l)]
  BY <1>1, ConcatEntries
<1>4. /\ mx \in Seq(Names) /\ Len(mx) = Len(m) + Len(L)
      /\ \A j \in 1..Len(m) : mx[j] = m[j]
      /\ \A j \in 1..Len(mx) : j > Len(m) => mx[j] = L[j - Len(m)]
  BY <1>1, ConcatEntries
<1> HIDE DEF lx, mx
<1>5. Len(mx) = Len(lx) + 1
  BY <1>2, <1>3, <1>4
<1>6. k \in 1..Len(mx) /\ mx[k] = n
  BY <1>2, <1>3, <1>4
<1>7. ASSUME NEW j \in 1..(k - 1) PROVE mx[j] = lx[j]
  <2>1. j \in 1..Len(l) /\ j < k /\ j \in 1..Len(m)
    BY <1>2
  <2> QED BY <1>2, <1>3, <1>4, <2>1
<1>8. ASSUME NEW j \in k..Len(lx) PROVE mx[j + 1] = lx[j]
  <2>1. CASE j <= Len(l)
    <3>1. j \in 1..Len(l) /\ j >= k /\ j + 1 \in 1..Len(m)
      BY <1>2, <2>1
    <3> QED BY <1>2, <1>3, <1>4, <3>1
  <2>2. CASE j > Len(l)
    <3>1. /\ j \in 1..Len(lx) /\ j + 1 \in 1..Len(mx) /\ j + 1 > Len(m)
          /\ (j + 1) - Len(m) = j - Len(l)
      BY <1>2, <1>3, <1>4, <1>5, <2>2
    <3> QED BY <1>3, <1>4, <2>2, <3>1
  <2> QED BY <1>2, <1>3, <2>1, <2>2
<1> QED BY <1>1, <1>3, <1>4, <1>5, <1>6, <1>7, <1>8 DEF Inserted, lx, mx
-----------------------------------------------------------------------------
\* A handler of its own, as a list.
Single(h) == IF h = NULL THEN <<>> ELSE <<h>>

\* The chain is the first handler, the list and the last handler.
LEMMA ChainParts ==
    ASSUME NEW P \in PhaseState
    PROVE  /\ P.handlers \in Seq(Names)
           /\ Single(P.first_handler) \in Seq(Names)
           /\ Single(P.last_handler) \in Seq(Names)
           /\ Chain(P) = (Single(P.first_handler) \o P.handlers) \o Single(P.last_handler)
           /\ Chain(P) \in Seq(Names)
<1>1. /\ P.handlers \in Seq(Names) /\ P.first_handler \in Names \cup {NULL}
      /\ P.last_handler \in Names \cup {NULL}
  BY DEF PhaseState
<1>2. Single(P.first_handler) \in Seq(Names) /\ Single(P.last_handler) \in Seq(Names)
  BY <1>1 DEF Single
<1>3. Chain(P) = (Single(P.first_handler) \o P.handlers) \o Single(P.last_handler)
  BY DEF Chain, Single
<1>4. Single(P.first_handler) \o P.handlers \in Seq(Names)
  BY <1>1, <1>2
<1> QED BY <1>1, <1>2, <1>3, <1>4

\* Where the entries of a phase are in its chain.
LEMMA ChainEntries ==
    ASSUME NEW P \in PhaseState
    PROVE  LET f == Len(Single(P.first_handler))
               c == Chain(P)
           IN  /\ f \in Nat /\ Len(P.handlers) \in Nat
               /\ \A j \in 1..Len(P.handlers) :
                     f + j \in 1..Len(c) /\ c[f + j] = P.handlers[j]
               /\ P.first_handler # NULL =>
                     f = 1 /\ 1 \in 1..Len(c) /\ c[1] = P.first_handler
               /\ P.last_handler # NULL =>
                     /\ Len(c) = f + Len(P.handlers) + 1
                     /\ c[Len(c)] = P.last_handler
               /\ \A j \in 1..Len(c) : \/ P.first_handler # NULL /\ c[j] = P.first_handler
                                       \/ P.last_handler # NULL /\ c[j] = P.last_handler
                                       \/ Contains(P.handlers, c[j])
<1> DEFINE F == Single(P.first_handler)
           l == P.handlers
           L == Single(P.last_handler)
           G == F \o l
           c == Chain(P)
<1>1. F \in Seq(Names) /\ l \in Seq(Names) /\ L \in Seq(Names) /\ c = G \o L
  BY ChainParts
<1>2. /\ P.first_handler = NULL => Len(F) = 0
      /\ P.first_handler # NULL => Len(F) = 1 /\ F[1] = P.first_handler
  BY DEF Single
<1>3. /\ P.last_handler = NULL => Len(L) = 0
      /\ P.last_handler # NULL => Len(L) = 1 /\ L[1] = P.last_handler
  BY DEF Single
<1> HIDE DEF F, l, L, G, c
<1>4. /\ G \in Seq(Names) /\ Len(F) \in Nat /\ Len(l) \in Nat /\ Len(G) = Len(F) + Len(l)
      /\ \A j \in 1..Len(F) : G[j] = F[j]
      /\ \A j \in 1..Len(G) : j > Len(F) => G[j] = l[j - Len(F)]
  BY <1>1, ConcatEntries DEF G
<1>5. /\ Len(L) \in Nat /\ Len(c) = Len(G) + Len(L)
      /\ \A j \in 1..Len(G) : c[j] = G[j]
      /\ \A j \in 1..Len(c) : j > Len(G) => c[j] = L[j - Len(G)]
  BY <1>1, <1>4, ConcatEntries
<1>6. ASSUME NEW j \in 1..Len(l) PROVE Len(F) + j \in 1..Len(c) /\ c[Len(F) + j] = l[j]
  <2>1. /\ Len(F) + j \in 1..Len(c) /\ Len(F) + j \in 1..Len(G) /\ Len(F) + j > Len(F)
        /\ (Len(F) + j) - Len(F) = j
    BY <1>4, <1>5
  <2>2. G[Len(F) + j] = l[j]
    BY <1>4, <2>1
  <2> QED BY <1>5, <2>1, <2>2
<1>7. ASSUME P.first_handler # NULL
      PROVE  Len(F) = 1 /\ 1 \in 1..Len(c) /\ c[1] = P.first_handler
  <2>1. Len(F) = 1 /\ F[1] = P.first_handler
    BY <1>2, <1>7
  <2>2. 1 \in 1..Len(F) /\ 1 \in 1..Len(G) /\ 1 \in 1..Len(c)
    BY <1>4, <1>5, <2>1
  <2> QED BY <1>4, <1>5, <2>1, <2>2
<1>8. ASSUME P.last_handler # NULL
      PROVE  Len(c) = Len(F) + Len(l) + 1 /\ c[Len(c)] = P.last_handler
  <2>1. Len(L) = 1 /\ L[1] = P.last_handler
    BY <1>3, <1>8
  <2>2. Len(c) \in 1..Len(c) /\ Len(c) > Len(G) /\ Len(c) - Len(G) = 1
    BY <1>4, <1>5, <2>1
  <2> QED BY <1>4, <1>5, <2>1, <2>2
<1>9. ASSUME NEW j \in 1..Len(c)
      PROVE  \/ P.first_handler # NULL /\ c[j] = P.first_handler
             \/ P.last_handler # NULL /\ c[j] = P.last_handler
             \/ Contains(l, c[j])
  <2>1. CASE j <= Len(F)
    <3>1. P.first_handler # NULL
      BY <1>2, <1>4, <1>5, <2>1
    <3>2. j = 1
      BY <1>4, <1>5, <1>7, <2>1, <3>1
    <3> QED BY <1>7, <3>1, <3>2
  <2>2. CASE j > Len(F) /\ j <= Len(G)
    <3>1. j \in 1..Len(G) /\ j - Len(F) \in 1..Len(l)
      BY <1>4, <2>2
    <3>2. c[j] = l[j - Len(F)]
      BY <1>4, <1>5, <2>2, <3>1
    <3> QED BY <3>1, <3>2 DEF Contains
  <2>3. CASE j > Len(G)
    <3>1. Len(L) = 1 /\ j = Len(c)
      BY <1>3, <1>4, <1>5, <2>3
    <3> QED BY <1>3, <1>8, <3>1
  <2> QED BY <1>4, <2>1, <2>2, <2>3
<1> QED BY <1>4, <1>6, <1>7, <1>8, <1>9 DEF F, l, c

\* A handler is in the phase exactly when it is in the chain.
LEMMA ChainContains ==
    ASSUME NEW P \in PhaseState, NEW z \in Names
    PROVE  InPhase(P, z) <=> Contains(Chain(P), z)
<1> DEFINE f == Len(Single(P.first_handler))
           c == Chain(P)
<1>1. /\ f \in Nat /\ Len(P.handlers) \in Nat /\ Len(c) \in Nat
      /\ \A j \in 1..Len(P.handlers) :
            f + j \in 1..Len(c) /\ c[f + j] = P.handlers[j]
      /\ P.first_handler # NULL => 1 \in 1..Len(c) /\ c[1] = P.first_handler
      /\ P.last_handler # NULL => /\ Len(c) = f + Len(P.handlers) + 1
                                  /\ c[Len(c)] = P.last_handler
      /\ \A j \in 1..Len(c) : \/ P.first_handler # NULL /\ c[j] = P.first_handler
                              \/ P.last_handler # NULL /\ c[j] = P.last_handler
                              \/ Contains(P.handlers, c[j])
  <2>1. Len(c) \in Nat
    BY ChainParts
  <2> HIDE DEF c
  <2> QED BY <2>1, ChainEntries DEF c
<1> HIDE DEF f, c
<1>2. z # NULL
  BY NamesAssumption
<1>3. P.last_handler # NULL => Len(c) \in 1..Len(c)
  BY <1>1
<1>4. ASSUME Contains(P.handlers, z) PROVE Contains(c, z)
  <2>1. PICK j \in 1..Len(P.handlers) : P.handlers[j] = z
    BY <1>4 DEF Contains
  <2> QED BY <1>1, <2>1 DEF Contains
<1>5. ASSUME z \in {P.first_handler, P.last_handler} PROVE Contains(c, z)
  BY <1>1, <1>2, <1>3, <1>5 DEF Contains
<1>6. ASSUME Contains(c, z) PROVE InPhase(P, z)
  <2>1. PICK j \in 1..Len(c) : c[j] = z
    BY <1>6 DEF Contains
  <2> QED BY <1>1, <1>2, <2>1 DEF InPhase
<1> QED BY <1>4, <1>5, <1>6 DEF InPhase, c

\* A list of one handler is the empty list with the handler inserted.
LEMMA SingleInserted ==
    ASSUME NEW n \in Names
    PROVE  Inserted(<<>>, <<n>>, 1, n)
  BY DEF Inserted

\* Inserting into the list inserts into the chain.
LEMMA ListInsert ==
    ASSUME NEW P \in PhaseState, NEW Q \in PhaseState, NEW n, NEW k,
           Q.first_handler = P.first_handler, Q.last_handler = P.last_handler,
           Inserted(P.handlers, Q.handlers, k, n)
    PROVE  Inserted(Chain(P), Chain(Q), Len(Single(P.first_handler)) + k, n)
<1> DEFINE F == Single(P.first_handler)
           L == Single(P.last_handler)
<1>1. /\ F \in Seq(Names) /\ L \in Seq(Names)
      /\ Chain(P) = (F \o P.handlers) \o L /\ Chain(Q) = (F \o Q.handlers) \o L
  BY ChainParts
<1> HIDE DEF F, L
<1>2. Inserted(F \o P.handlers, F \o Q.handlers, Len(F) + k, n)
  BY <1>1, InsertedBehind
<1>3. Inserted((F \o P.handlers) \o L, (F \o Q.handlers) \o L, Len(F) + k, n)
  BY <1>1, <1>2, InsertedInFront
<1> QED BY <1>1, <1>3 DEF F

\* Setting the first handler inserts it into the chain.
LEMMA FirstInsert ==
    ASSUME NEW P \in PhaseState, NEW Q \in PhaseState, NEW n \in Names,
           P.first_handler = NULL, Q.first_handler = n,
           Q.last_handler = P.last_handler, Q.handlers = P.handlers
    PROVE  Inserted(Chain(P), Chain(Q), 1, n)
<1> DEFINE l == P.handlers
           L == Single(P.last_handler)
<1>1. n # NULL
  BY NamesAssumption
<1>2. /\ l \in Seq(Names) /\ L \in Seq(Names)
      /\ Chain(P) = (Single(NULL) \o l) \o L /\ Chain(Q) = (Single(n) \o l) \o L
  BY ChainParts
<1>3. Single(NULL) = <<>> /\ Single(n) = <<n>>
  BY <1>1 DEF Single
<1> HIDE DEF l, L
<1>4. Inserted(<<>> \o l, <<n>> \o l, 1, n)
  BY <1>2, SingleInserted, InsertedInFront
<1>5. Inserted((<<>> \o l) \o L, (<<n>> \o l) \o L, 1, n)
  BY <1>2, <1>4, InsertedInFront
<1> QED BY <1>2, <1>3, <1>5

\* Setting the last handler inserts it into the chain.
LEMMA LastInsert ==
    ASSUME NEW P \in PhaseState, NEW Q \in PhaseState, NEW n \in Names,
           P.last_handler = NULL, Q.last_handler = n,
           Q.first_handler = P.first_handler, Q.handlers = P.handlers
    PROVE  \E k : Inserted(Chain(P), Chain(Q), k, n)
<1> DEFINE G == Single(P.first_handler) \o P.handlers
<1>1. n # NULL
  BY NamesAssumption
<1>2. Single(NULL) = <<>> /\ Single(n) = <<n>>
  BY <1>1 DEF Single
<1>3. G \in Seq(Names)
  <2>1. Single(P.first_handler) \in Seq(Names) /\ P.handlers \in Seq(Names)
    BY ChainParts
  <2> QED BY <2>1, ConcatEntries
<1>4. Chain(P) = G \o Single(NULL) /\ Chain(Q) = G \o Single(n)
  BY ChainParts
<1> HIDE DEF G
<1>5. Inserted(G \o <<>>, G \o <<n>>, Len(G) + 1, n)
  BY <1>3, SingleInserted, InsertedBehind
<1> QED BY <1>2, <1>4, <1>5
-----------------------------------------------------------------------------
\* What the operations on the list do to it when they succeed: the handler is
\* there already, or it is inserted.
Extended(l, m, n) ==
    \/ m = l /\ Contains(l, n)
    \/ \E k : Inserted(l, m, k, n)

\* axis2_phase_add_unique adds at most one entry.
LEMMA AddUniqueExtends ==
    ASSUME NEW l \in Seq(Names), NEW n \in Names
    PROVE  Extended(l, AddUnique(l, n), n)
  BY AppendInserted DEF AddUnique, Extended

\* axis2_phase_insert_before adds at most one entry.
LEMMA InsertBeforeExtends ==
    ASSUME NEW P \in PhaseState, NEW n \in Names, NEW r \in PhaseRule
    PROVE  Extended(P.handlers, InsertBefore(P, n, r), n)
<1> DEFINE l == P.handlers
           k == FirstIndex(l, r.before)
<1>1. l \in Seq(Names)
  BY DEF PhaseState
<1>2. Contains(l, r.before) => k \in 1..(Len(l) + 1)
  BY <1>1, FirstIndexFound
<1> HIDE DEF l, k
<1>3. Contains(l, r.before) => Inserted(l, AddAt(l, k, n), k, n)
  BY <1>1, <1>2, AddAtInserted
<1>4. Extended(l, AddUnique(l, n), n)
  BY <1>1, AddUniqueExtends
<1>5. InsertBefore(P, n, r) = IF r.before # P.last_handler /\ Contains(l, r.before)
                              THEN AddAt(l, k, n)
                              ELSE AddUnique(l, n)
  BY DEF InsertBefore, l, k
<1> QED BY <1>3, <1>4, <1>5 DEF Extended, l

\* axis2_phase_insert_after adds at most one entry.
LEMMA InsertAfterExtends ==
    ASSUME NEW P \in PhaseState, NEW n \in Names, NEW r \in PhaseRule
    PROVE  Extended(P.handlers, InsertAfter(P, n, r), n)
<1> DEFINE l == P.handlers
           k == FirstIndex(l, r.after)
<1>1. l \in Seq(Names)
  BY DEF PhaseState
<1>2. k \in 0..Len(l)
  BY <1>1, FirstIndexFound
<1> HIDE DEF l, k
<1>3. 1 \in 1..(Len(l) + 1) /\ k + 1 \in 1..(Len(l) + 1)
  BY <1>1, <1>2
<1>4. Inserted(l, AddAt(l, 1, n), 1, n)
  BY <1>1, <1>3, AddAtInserted
<1>5. Inserted(l, AddAt(l, k + 1, n), k + 1, n)
  BY <1>1, <1>3, AddAtInserted
<1>6. Extended(l, AddUnique(l, n), n)
  BY <1>1, AddUniqueExtends
<1>7. InsertAfter(P, n, r) \in {AddAt(l, 1, n), AddAt(l, k + 1, n), AddUnique(l, n)}
  BY DEF InsertAfter, l, k
<1> QED BY <1>4, <1>5, <1>6, <1>7 DEF Extended, l

\* axis2_phase_insert_before_and_after adds at most one entry or refuses.
LEMMA InsertBeforeAndAfterExtends ==
    ASSUME NEW P \in PhaseState, NEW n \in Names, NEW r \in PhaseRule
    PROVE  \/ InsertBeforeAndAfter(P, n, r) = Refused(P)
           \/ \E m : /\ Extended(P.handlers, m, n)
                     /\ InsertBeforeAndAfter(P, n, r) = WithList(P, m)
<1> DEFINE l == P.handlers
           i == FirstIndex(l, r.before)
           j == FirstIndex(l, r.after)
           stop == Max({i, j})
           before == LastIndexUpTo(l, r.before, stop)
           after == LastIndexUpTo(l, r.after, stop)
<1>1. l \in Seq(Names)
  BY DEF PhaseState
<1>2. i \in 0..Len(l) /\ j \in 0..Len(l)
  BY <1>1, FirstIndexFound
<1> HIDE DEF i, j
<1>3. stop \in 0..Len(l)
  <2>1. Len(l) \in Nat /\ {i, j} \subseteq 0..Len(l) /\ {i, j} # {}
    BY <1>1, <1>2
  <2>2. Max({i, j}) \in {i, j}
    BY <2>1, MaxIsGreatest
  <2> QED BY <1>2, <2>2
<1> HIDE DEF stop
<1>4. after \in 0..stop
  BY <1>1, <1>3, LastIndexRange
<1> HIDE DEF l, before, after
<1>5. after + 1 \in 1..(Len(l) + 1)
  BY <1>1, <1>3, <1>4
<1>6. Extended(l, AddAt(l, after + 1, n), n)
  BY <1>1, <1>5, AddAtInserted DEF Extended
<1>7. Extended(l, AddUnique(l, n), n)
  BY <1>1, AddUniqueExtends
<1>8. InsertBeforeAndAfter(P, n, r) \in {Refused(P), WithList(P, AddUnique(l, n)),
                                        WithList(P, AddAt(l, after + 1, n))}
  BY DEF InsertBeforeAndAfter, l, i, j, stop, before, after
<1> QED BY <1>6, <1>7, <1>8 DEF l

\* A phase whose list gained at most one entry: its type, and its chain.
LEMMA ExtendedChain ==
    ASSUME NEW P \in PhaseState, NEW m, NEW n \in Names, NEW b \in BOOLEAN,
           Extended(P.handlers, m, n)
    PROVE  LET Q == [P EXCEPT !.handlers = m, !.is_one_handler = b]
           IN  /\ Q \in PhaseState
               /\ Extended(Chain(P), Chain(Q), n)
<1> DEFINE Q == [P EXCEPT !.handlers = m, !.is_one_handler = b]
<1>1. P.handlers \in Seq(Names)
  BY DEF PhaseState
<1>2. m \in Seq(Names)
  BY <1>1 DEF Extended, Inserted
<1>3. /\ Q.handlers = m /\ Q.first_handler = P.first_handler
      /\ Q.last_handler = P.last_handler
  BY DEF PhaseState
<1>4. Q \in PhaseState
  BY <1>2, Zenon DEF PhaseState
<1> HIDE DEF Q
<1>5. Extended(Chain(P), Chain(Q), n)
  <2>1. CASE m = P.handlers /\ Contains(P.handlers, n)
    <3>1. Chain(Q) = Chain(P)
      BY <1>3, <2>1 DEF Chain
    <3>2. Contains(Chain(P), n)
      BY <2>1, ChainContains DEF InPhase
    <3> QED BY <3>1, <3>2 DEF Extended
  <2>2. CASE \E k : Inserted(P.handlers, m, k, n)
    <3>1. PICK k : Inserted(P.handlers, m, k, n)
      BY <2>2
    <3>2. Inserted(Chain(P), Chain(Q), Len(Single(P.first_handler)) + k, n)
      BY <1>3, <1>4, <3>1, ListInsert
    <3> QED BY <3>2 DEF Extended
  <2> QED BY <2>1, <2>2 DEF Extended
<1> QED BY <1>4, <1>5 DEF Q

\* The same for an operation that changes the list alone.
LEMMA WithListChain ==
    ASSUME NEW P \in PhaseState, NEW m, NEW n \in Names,
           Extended(P.handlers, m, n)
    PROVE  LET R == WithList(P, m)
           IN  /\ R.phase \in PhaseState /\ R.status = "SUCCESS"
               /\ R.phase.handlers = m
               /\ R.phase.first_handler = P.first_handler
               /\ R.phase.last_handler = P.last_handler
               /\ Extended(Chain(P), Chain(R.phase), n)
<1> DEFINE Q == [P EXCEPT !.handlers = m, !.is_one_handler = P.is_one_handler]
<1>1. P.is_one_handler \in BOOLEAN
  BY DEF PhaseState
<1>2. Q \in PhaseState /\ Extended(Chain(P), Chain(Q), n)
  BY <1>1, ExtendedChain
<1>3. Q = [P EXCEPT !.handlers = m]
  BY DEF PhaseState
<1>4. WithList(P, m).phase = Q /\ WithList(P, m).status = "SUCCESS"
  BY <1>3 DEF WithList, Done
<1>5. /\ Q.handlers = m /\ Q.first_handler = P.first_handler
      /\ Q.last_handler = P.last_handler
  BY DEF PhaseState
<1> QED BY <1>2, <1>4, <1>5

\* What a call of axis2_phase_add_handler_desc may do: it refuses, or it
\* leaves a phase whose chain has the handler, inserted unless it was there.
Grown(P, R, n) ==
    \/ R = Refused(P)
    \/ /\ R.phase \in PhaseState /\ R.status = "SUCCESS"
       /\ Extended(Chain(P), Chain(R.phase), n)

\* axis2_phase_insert_handler_desc adds the handler once or not at all.
LEMMA InsertGrows ==
    ASSUME NEW P \in PhaseState, NEW n \in Names, NEW r \in PhaseRule
    PROVE  Grown(P, InsertHandlerDesc(P, n, r), n)
<1>1. Grown(P, Refused(P), n)
  BY DEF Grown
<1>2. ASSUME NEW m, Extended(P.handlers, m, n) PROVE Grown(P, WithList(P, m), n)
  BY <1>2, WithListChain DEF Grown
<1>3. P.handlers \in Seq(Names)
  BY DEF PhaseState
<1>4. Grown(P, WithList(P, InsertBefore(P, n, r)), n)
  BY <1>2, InsertBeforeExtends
<1>5. Grown(P, WithList(P, InsertAfter(P, n, r)), n)
  BY <1>2, InsertAfterExtends
<1>6. Grown(P, WithList(P, AddUnique(P.handlers, n)), n)
  BY <1>2, <1>3, AddUniqueExtends
<1>7. Grown(P, InsertBeforeAndAfter(P, n, r), n)
  BY <1>1, <1>2, InsertBeforeAndAfterExtends
<1>8. BeforeAfter(r) \in {"BOTH", "BEFORE", "AFTER", "ANYWHERE"}
  BY DEF BeforeAfter
<1>9. InsertHandlerDesc(P, n, r) \in
         {Refused(P), InsertBeforeAndAfter(P, n, r), WithList(P, InsertBefore(P, n, r)),
          WithList(P, InsertAfter(P, n, r)), WithList(P, AddUnique(P.handlers, n))}
  BY <1>8 DEF InsertHandlerDesc
<1> QED BY <1>1, <1>4, <1>5, <1>6, <1>7, <1>9

\* axis2_phase_add_handler_desc adds the handler once or not at all.
LEMMA AddGrows ==
    ASSUME NEW P \in PhaseState, NEW n \in Names, NEW r \in PhaseRule
    PROVE  Grown(P, AddHandlerDesc(P, n, r), n)
<1>1. Grown(P, Refused(P), n)
  BY DEF Grown
<1>2. P.handlers \in Seq(Names)
  BY DEF PhaseState
<1>3. Grown(P, Done([P EXCEPT !.handlers = AddUnique(P.handlers, n),
                              !.is_one_handler = TRUE]), n)
  <2> DEFINE Q == [P EXCEPT !.handlers = AddUnique(P.handlers, n), !.is_one_handler = TRUE]
  <2>1. Extended(P.handlers, AddUnique(P.handlers, n), n)
    BY <1>2, AddUniqueExtends
  <2>2. Q \in PhaseState /\ Extended(Chain(P), Chain(Q), n)
    BY <2>1, ExtendedChain
  <2> HIDE DEF Q
  <2>3. Grown(P, Done(Q), n)
    BY <2>2 DEF Grown, Done
  <2> QED BY <2>3 DEF Q
<1>4. Grown(P, SetFirstHandler(P, n, r), n)
  <2> DEFINE Q == [P EXCEPT !.first_handler = n]
  <2>1. CASE P.first_handler = NULL
    <3>1. Q \in PhaseState
      BY Zenon DEF PhaseState
    <3>2. /\ Q.first_handler = n /\ Q.handlers = P.handlers
          /\ Q.last_handler = P.last_handler
      BY DEF PhaseState
    <3> HIDE DEF Q
    <3>3. Inserted(Chain(P), Chain(Q), 1, n)
      BY <2>1, <3>1, <3>2, FirstInsert
    <3>4. Grown(P, Done(Q), n)
      BY <3>1, <3>3 DEF Grown, Done, Extended
    <3> QED BY <1>1, <3>4 DEF SetFirstHandler, Q
  <2>2. CASE P.first_handler # NULL
    BY <1>1, <2>2 DEF SetFirstHandler
  <2> QED BY <2>1, <2>2
<1>5. Grown(P, SetLastHandler(P, n, r), n)
  <2> DEFINE Q == [P EXCEPT !.last_handler = n]
  <2>1. CASE P.last_handler = NULL
    <3>1. Q \in PhaseState
      BY Zenon DEF PhaseState
    <3>2. /\ Q.last_handler = n /\ Q.handlers = P.handlers
          /\ Q.first_handler = P.first_handler
      BY DEF PhaseState
    <3> HIDE DEF Q
    <3>3. \E k : Inserted(Chain(P), Chain(Q), k, n)
      BY <2>1, <3>1, <3>2, LastInsert
    <3>4. Grown(P, Done(Q), n)
      BY <3>1, <3>3 DEF Grown, Done, Extended
    <3> QED BY <1>1, <3>4 DEF SetLastHandler, Q
  <2>2. CASE P.last_handler # NULL
    BY <1>1, <2>2 DEF SetLastHandler
  <2> QED BY <2>1, <2>2
<1>6. Grown(P, InsertHandlerDesc(P, n, r), n)
  BY InsertGrows
<1>7. AddHandlerDesc(P, n, r) \in
         {Refused(P), SetFirstHandler(P, n, r), SetLastHandler(P, n, r),
          InsertHandlerDesc(P, n, r),
          Done([P EXCEPT !.handlers = AddUnique(P.handlers, n), !.is_one_handler = TRUE])}
  BY Zenon DEF AddHandlerDesc
<1> QED BY <1>1, <1>3, <1>4, <1>5, <1>6, <1>7
-----------------------------------------------------------------------------
\* In a list without doubles one pair of positions decides the order.
LEMMA PairOrder ==
    ASSUME NEW c \in Seq(Names), IsInjective(c),
           NEW p \in 1..Len(c), NEW q \in 1..Len(c), p < q
    PROVE  ListOrder(c, c[p], c[q])
  BY DEF IsInjective, ListOrder

\* A handler put at place k of the list comes after the first handler and the
\* entries in front of place k, and before the others and the last handler.
LEMMA ListPlace ==
    ASSUME NEW P \in PhaseState, NEW Q \in PhaseState, NEW k, NEW n,
           Q.first_handler = P.first_handler, Q.last_handler = P.last_handler,
           Inserted(P.handlers, Q.handlers, k, n), IsInjective(Chain(Q))
    PROVE  /\ \A j \in 1..Len(P.handlers) :
                 /\ j >= k => ListOrder(Chain(Q), n, P.handlers[j])
                 /\ j < k => ListOrder(Chain(Q), P.handlers[j], n)
           /\ P.first_handler # NULL => ListOrder(Chain(Q), P.first_handler, n)
           /\ P.last_handler # NULL => ListOrder(Chain(Q), n, P.last_handler)
<1> DEFINE c == Chain(Q)
           f == Len(Single(Q.first_handler))
           l == P.handlers
           m == Q.handlers
<1>1. /\ f \in Nat /\ Len(m) \in Nat
      /\ \A j \in 1..Len(m) : f + j \in 1..Len(c) /\ c[f + j] = m[j]
      /\ Q.first_handler # NULL => f = 1 /\ 1 \in 1..Len(c) /\ c[1] = Q.first_handler
      /\ Q.last_handler # NULL => Len(c) = f + Len(m) + 1 /\ c[Len(c)] = Q.last_handler
  BY ChainEntries
<1>2. c \in Seq(Names) /\ IsInjective(c)
  BY ChainParts
<1> HIDE DEF c, f, l, m
<1>3. /\ k \in Int /\ k \in 1..Len(m) /\ m[k] = n
      /\ Len(l) \in Nat /\ Len(m) = Len(l) + 1
      /\ \A j \in 1..Len(l) : j < k => j \in 1..Len(m) /\ m[j] = l[j]
      /\ \A j \in 1..Len(l) : j >= k => j + 1 \in 1..Len(m) /\ m[j + 1] = l[j]
  <2>1. Inserted(l, m, k, n)
    BY DEF l, m
  <2> QED BY <2>1, InsertedEntries
<1>4. f + k \in 1..Len(c) /\ c[f + k] = n
  BY <1>1, <1>3
<1>5. ASSUME NEW j \in 1..Len(l), j >= k PROVE ListOrder(c, n, l[j])
  <2>1. j + 1 \in 1..Len(m) /\ m[j + 1] = l[j]
    BY <1>3, <1>5
  <2>2. f + (j + 1) \in 1..Len(c) /\ c[f + (j + 1)] = l[j]
    BY <1>1, <2>1
  <2>3. f + k < f + (j + 1)
    BY <1>1, <1>3, <1>5
  <2>4. ListOrder(c, c[f + k], c[f + (j + 1)])
    BY <1>2, <1>4, <2>2, <2>3, PairOrder
  <2> QED BY <1>4, <2>2, <2>4
<1>6. ASSUME NEW j \in 1..Len(l), j < k PROVE ListOrder(c, l[j], n)
  <2>1. j \in 1..Len(m) /\ m[j] = l[j]
    BY <1>3, <1>6
  <2>2. f + j \in 1..Len(c) /\ c[f + j] = l[j]
    BY <1>1, <2>1
  <2>3. f + j < f + k
    BY <1>1, <1>3, <1>6
  <2>4. ListOrder(c, c[f + j], c[f + k])
    BY <1>2, <1>4, <2>2, <2>3, PairOrder
  <2> QED BY <1>4, <2>2, <2>4
<1>7. ASSUME Q.first_handler # NULL PROVE ListOrder(c, Q.first_handler, n)
  <2>1. 1 < f + k
    BY <1>1, <1>3, <1>7
  <2>2. ListOrder(c, c[1], c[f + k])
    BY <1>1, <1>2, <1>4, <1>7, <2>1, PairOrder
  <2> QED BY <1>1, <1>4, <1>7, <2>2
<1>8. ASSUME Q.last_handler # NULL PROVE ListOrder(c, n, Q.last_handler)
  <2>1. Len(c) \in 1..Len(c) /\ f + k < Len(c)
    BY <1>1, <1>3, <1>8
  <2>2. ListOrder(c, c[f + k], c[Len(c)])
    BY <1>2, <1>4, <2>1, PairOrder
  <2> QED BY <1>1, <1>4, <1>8, <2>2
<1> QED BY <1>5, <1>6, <1>7, <1>8 DEF c, l

\* Adding a handler that is not in the phase doubles nothing and keeps the
\* order of the others.
LEMMA AddKeeps ==
    ASSUME NEW P \in PhaseState, NEW n \in Names, NEW r \in PhaseRule,
           ~InPhase(P, n)
    PROVE  LET c == Chain(AddHandlerDesc(P, n, r).phase)
           IN  /\ IsInjective(Chain(P)) => IsInjective(c)
               /\ \A x, y : x # n /\ y # n /\ ListOrder(Chain(P), x, y) => ListOrder(c, x, y)
               /\ \A x : Contains(Chain(P), x) => Contains(c, x)
               /\ RemoveFirst(c, n) = Chain(P)
<1> DEFINE c == Chain(AddHandlerDesc(P, n, r).phase)
<1>1. ~Contains(Chain(P), n) /\ Chain(P) \in Seq(Names)
  BY ChainContains, ChainParts
<1>2. c = Chain(P) \/ \E k : Inserted(Chain(P), c, k, n)
  BY AddGrows DEF Grown, Extended, Refused
<1> HIDE DEF c
<1>3. CASE c = Chain(P)
  <2>1. RemoveFirst(c, n) = c
    BY <1>1, <1>3 DEF RemoveFirst, Contains
  <2> QED BY <1>3, <2>1 DEF c
<1>4. CASE \E k : Inserted(Chain(P), c, k, n)
  <2>1. PICK k : Inserted(Chain(P), c, k, n)
    BY <1>4
  <2>2. IsInjective(Chain(P)) => IsInjective(c)
    BY <1>1, <2>1, InsertedInjective
  <2>3. \A x, y : x # n /\ y # n /\ ListOrder(Chain(P), x, y) => ListOrder(c, x, y)
    BY <2>1, InsertedOrder
  <2>4. \A x : Contains(Chain(P), x) => Contains(c, x)
    BY <2>1, InsertedContains
  <2>5. RemoveFirst(c, n) = Chain(P)
    BY <1>1, <2>1, InsertedRemoved
  <2> QED BY <2>2, <2>3, <2>4, <2>5 DEF c
<1> QED BY <1>2, <1>3, <1>4

\* A handler with a before goes in front of the handler it names.
LEMMA BeforeMet ==
    ASSUME NEW P \in PhaseState, NEW n \in Names, NEW r \in PhaseRule,
           ~InPhase(P, n), IsInjective(Chain(P)),
           r.before # P.first_handler, r.before \in Names, InPhase(P, r.before)
    PROVE  ListOrder(Chain(WithList(P, InsertBefore(P, n, r)).phase), n, r.before)
<1> DEFINE l == P.handlers
           m == InsertBefore(P, n, r)
           Q == WithList(P, m).phase
           b == r.before
           k == FirstIndex(l, b)
<1>1. /\ Q \in PhaseState /\ Q.handlers = m
      /\ Q.first_handler = P.first_handler /\ Q.last_handler = P.last_handler
      /\ Extended(Chain(P), Chain(Q), n)
  BY InsertBeforeExtends, WithListChain
<1>2. l \in Seq(Names) /\ ~Contains(l, n)
  BY DEF PhaseState, InPhase
<1>3. ~Contains(Chain(P), n)
  BY ChainContains
<1> HIDE DEF Q
<1>4. IsInjective(Chain(Q))
  BY <1>1, <1>3, InsertedInjective DEF Extended
<1>5. b # NULL
  BY NamesAssumption
<1>6. CASE b # P.last_handler /\ Contains(l, b)
  <2>1. k \in 1..Len(l) /\ l[k] = b
    BY <1>2, <1>6, FirstIndexFound
  <2>2. m = AddAt(l, k, n)
    BY <1>6 DEF InsertBefore
  <2> HIDE DEF k
  <2>3. k \in 1..(Len(l) + 1)
    BY <1>2, <2>1
  <2>4. Inserted(l, m, k, n)
    BY <1>2, <2>2, <2>3, AddAtInserted
  <2>5. ListOrder(Chain(Q), n, l[k])
    <3>1. k >= k
      BY <2>1
    <3> QED BY <1>1, <1>4, <2>1, <2>4, <3>1, ListPlace
  <2> QED BY <2>1, <2>5 DEF Q
<1>7. CASE b = P.last_handler
  <2>1. m = Append(l, n)
    BY <1>2, <1>7 DEF InsertBefore, AddUnique
  <2>2. Inserted(l, m, Len(l) + 1, n)
    BY <1>2, <2>1, AppendInserted
  <2>3. ListOrder(Chain(Q), n, P.last_handler)
    BY <1>1, <1>4, <1>5, <1>7, <2>2, ListPlace
  <2> QED BY <1>7, <2>3 DEF Q
<1> QED BY <1>6, <1>7 DEF InPhase

\* A handler with an after goes behind the handler it names.
LEMMA AfterMet ==
    ASSUME NEW P \in PhaseState, NEW n \in Names, NEW r \in PhaseRule,
           ~InPhase(P, n), IsInjective(Chain(P)),
           r.after # P.last_handler, r.after \in Names, InPhase(P, r.after)
    PROVE  ListOrder(Chain(WithList(P, InsertAfter(P, n, r)).phase), r.after, n)
<1> DEFINE l == P.handlers
           m == InsertAfter(P, n, r)
           Q == WithList(P, m).phase
           a == r.after
           k == FirstIndex(l, a)
<1>1. /\ Q \in PhaseState /\ Q.handlers = m
      /\ Q.first_handler = P.first_handler /\ Q.last_handler = P.last_handler
      /\ Extended(Chain(P), Chain(Q), n)
  BY InsertAfterExtends, WithListChain
<1>2. l \in Seq(Names) /\ ~Contains(l, n) /\ Len(l) \in Nat
  BY DEF PhaseState, InPhase
<1>3. ~Contains(Chain(P), n)
  BY ChainContains
<1> HIDE DEF Q
<1>4. IsInjective(Chain(Q))
  BY <1>1, <1>3, InsertedInjective DEF Extended
<1>5. a # NULL
  BY NamesAssumption
<1>6. CASE a = P.first_handler
  <2>1. m = AddAt(l, 1, n)
    BY <1>6 DEF InsertAfter
  <2>2. 1 \in 1..(Len(l) + 1)
    BY <1>2
  <2>3. Inserted(l, m, 1, n)
    BY <1>2, <2>1, <2>2, AddAtInserted
  <2>4. ListOrder(Chain(Q), P.first_handler, n)
    BY <1>1, <1>4, <1>5, <1>6, <2>3, ListPlace
  <2> QED BY <1>6, <2>4 DEF Q
<1>7. CASE a # P.first_handler
  <2>1. Contains(l, a)
    BY <1>7 DEF InPhase
  <2>2. k \in 1..Len(l) /\ l[k] = a
    BY <1>2, <2>1, FirstIndexFound
  <2>3. k < Len(l) => m = AddAt(l, k + 1, n)
    BY <1>2, <1>7, <2>2 DEF InsertAfter
  <2>4. ~(k < Len(l)) => m = Append(l, n)
    BY <1>2, <1>7, <2>2 DEF InsertAfter, AddUnique
  <2> HIDE DEF k, m
  <2>5. k + 1 \in 1..(Len(l) + 1) /\ k < k + 1
    BY <1>2, <2>2
  <2>6. ~(k < Len(l)) => k + 1 = Len(l) + 1
    BY <1>2, <2>2
  <2>7. Inserted(l, m, k + 1, n)
    BY <1>2, <2>3, <2>4, <2>5, <2>6, AddAtInserted, AppendInserted
  <2>8. ListOrder(Chain(Q), l[k], n)
    BY <1>1, <1>4, <2>2, <2>5, <2>7, ListPlace
  <2> QED BY <2>2, <2>8 DEF Q, m
<1> QED BY <1>6, <1>7

\* A handler added with one rule is on the side it asked for.
LEMMA DemandMet ==
    ASSUME NEW P \in PhaseState, NEW n \in Names, NEW r \in PhaseRule,
           ~InPhase(P, n), IsInjective(Chain(P)), ~(r.first /\ r.last),
           AddHandlerDesc(P, n, r).status = "SUCCESS"
    PROVE  LET c == Chain(AddHandlerDesc(P, n, r).phase)
           IN  /\ r.after = NULL /\ r.before \in Names /\ InPhase(P, r.before) =>
                     ListOrder(c, n, r.before)
               /\ r.before = NULL /\ r.after \in Names /\ InPhase(P, r.after) =>
                     ListOrder(c, r.after, n)
<1> DEFINE R == AddHandlerDesc(P, n, r)
<1>1. NULL \notin Names
  BY NamesAssumption
<1>2. Refused(P).status # "SUCCESS"
  BY DEF Refused
<1>3. BeforeAfter(r) = "ANYWHERE" => r.before = NULL /\ r.after = NULL
  BY DEF BeforeAfter
<1>4. \/ BeforeAfter(r) = "ANYWHERE"
      \/ R = InsertHandlerDesc(P, n, r)
  BY <1>2, Zenon DEF AddHandlerDesc, SetFirstHandler, SetLastHandler
<1> HIDE DEF R
<1>5. CASE BeforeAfter(r) = "ANYWHERE"
  BY <1>1, <1>3, <1>5
<1>6. CASE R = InsertHandlerDesc(P, n, r)
  <2>1. /\ R.status = "SUCCESS"
    BY DEF R
  <2>2. IsValidAfter(P, r) /\ IsValidBefore(P, r)
    BY <1>2, <1>6, <2>1 DEF InsertHandlerDesc
  <2>3. ASSUME r.after = NULL, r.before \in Names, InPhase(P, r.before)
        PROVE  ListOrder(Chain(R.phase), n, r.before)
    <3>1. BeforeAfter(r) = "BEFORE"
      BY <1>1, <2>3 DEF BeforeAfter
    <3>2. R = WithList(P, InsertBefore(P, n, r))
      BY <1>6, <2>2, <3>1 DEF InsertHandlerDesc
    <3>3. r.before # P.first_handler
      BY <1>1, <2>2, <2>3 DEF IsValidBefore
    <3> QED BY <2>3, <3>2, <3>3, BeforeMet
  <2>4. ASSUME r.before = NULL, r.after \in Names, InPhase(P, r.after)
        PROVE  ListOrder(Chain(R.phase), r.after, n)
    <3>1. BeforeAfter(r) = "AFTER"
      BY <1>1, <2>4 DEF BeforeAfter
    <3>2. R = WithList(P, InsertAfter(P, n, r))
      BY <1>6, <2>2, <3>1 DEF InsertHandlerDesc
    <3>3. r.after # P.last_handler
      BY <1>1, <2>2, <2>4 DEF IsValidAfter
    <3> QED BY <2>4, <3>2, <3>3, AfterMet
  <2> QED BY <2>3, <2>4 DEF R
<1> QED BY <1>4, <1>5, <1>6
-----------------------------------------------------------------------------
\* What a caller of axis2_phase_add_handler_desc may count on.
LEMMA PhaseAdd ==
    ASSUME NEW P \in PhaseState, NEW n \in Names, NEW r \in PhaseRule
    PROVE  LET R == AddHandlerDesc(P, n, r)
           IN  /\ R.phase \in PhaseState /\ R.status \in {"SUCCESS", "FAILURE"}
               /\ R.status = "SUCCESS" => InPhase(R.phase, n)
               /\ \A z \in Names : InPhase(P, z) => InPhase(R.phase, z)
               /\ \/ Chain(R.phase) = Chain(P)
                  \/ \E k : Inserted(Chain(P), Chain(R.phase), k, n)
<1> DEFINE R == AddHandlerDesc(P, n, r)
<1>1. Grown(P, R, n)
  BY AddGrows
<1> HIDE DEF R
<1>2. CASE R = Refused(P)
  BY <1>2 DEF Refused, R
<1>3. CASE /\ R.phase \in PhaseState /\ R.status = "SUCCESS"
           /\ Extended(Chain(P), Chain(R.phase), n)
  <2>1. Contains(Chain(R.phase), n)
    BY <1>3, InsertedContains DEF Extended
  <2>2. \A z \in Names : Contains(Chain(P), z) => Contains(Chain(R.phase), z)
    BY <1>3, InsertedContains DEF Extended
  <2>3. InPhase(R.phase, n)
    BY <1>3, <2>1, ChainContains
  <2>4. \A z \in Names : InPhase(P, z) => InPhase(R.phase, z)
    BY <1>3, <2>2, ChainContains
  <2> QED BY <1>3, <2>3, <2>4 DEF Extended, R
<1> QED BY <1>1, <1>2, <1>3 DEF Grown

\* What a caller of axis2_phase_remove_handler_desc may count on.
LEMMA PhaseRemove ==
    ASSUME NEW P \in PhaseState, NEW n \in Names
    PROVE  LET Q == RemoveHandlerDesc(P, n).phase
           IN  /\ Q \in PhaseState
               /\ \A z \in Names : z # n /\ InPhase(P, z) => InPhase(Q, z)
               /\ \/ Chain(Q) = Chain(P)
                  \/ \E k : Inserted(Chain(Q), Chain(P), k, n)
<1> DEFINE l == P.handlers
           m == RemoveUnique(l, n)
           Q == RemoveHandlerDesc(P, n).phase
<1>1. Q = [P EXCEPT !.handlers = m]
  BY DEF RemoveHandlerDesc, WithList, Done
<1>2. l \in Seq(Names)
  BY DEF PhaseState
<1>3. m = l \/ \E k : Inserted(m, l, k, n)
  BY <1>2, RemoveInserted DEF RemoveUnique, RemoveFirst, Contains
<1>4. m \in Seq(Names)
  BY <1>2, <1>3 DEF Inserted
<1> HIDE DEF m, Q
<1>5. Q \in PhaseState
  BY <1>1, <1>4, Zenon DEF PhaseState
<1>6. /\ Q.handlers = m /\ Q.first_handler = P.first_handler
      /\ Q.last_handler = P.last_handler
  BY <1>1 DEF PhaseState
<1>7. Chain(Q) = Chain(P) \/ \E k : Inserted(Chain(Q), Chain(P), k, n)
  <2>1. CASE m = l
    BY <1>6, <2>1 DEF Chain
  <2>2. CASE \E k : Inserted(m, l, k, n)
    <3>1. PICK k : Inserted(m, l, k, n)
      BY <2>2
    <3>2. \E k1 : Inserted(Chain(Q), Chain(P), k1, n)
      BY <1>5, <1>6, <3>1, ListInsert
    <3> QED BY <3>2
  <2> QED BY <1>3, <2>1, <2>2
<1>8. \A z \in Names : z # n /\ Contains(Chain(P), z) => Contains(Chain(Q), z)
  BY <1>7, InsertedContains
<1>9. \A z \in Names : z # n /\ InPhase(P, z) => InPhase(Q, z)
  BY <1>5, <1>8, ChainContains
<1> QED BY <1>5, <1>7, <1>9 DEF Q

\* Dispatchers d are all in list c, once and in their order.
InOrder(d, c) ==
    /\ \A i \in 1..Len(d) : Contains(c, d[i])
    /\ \A i, j \in 1..Len(d) : \A p, q \in 1..Len(c) :
          c[p] = d[i] /\ c[q] = d[j] => (i < j <=> p < q)

\* Inserting another handler keeps them so.
LEMMA InOrderInserted ==
    ASSUME NEW l, NEW m, NEW k, NEW n, Inserted(l, m, k, n),
           NEW d \in Seq(Names), \A i \in 1..Len(d) : d[i] # n, InOrder(d, l)
    PROVE  InOrder(d, m)
<1>1. /\ k \in Int /\ k \in 1..Len(m) /\ m[k] = n
      /\ \A j \in 1..Len(m) : j < k => j \in 1..Len(l) /\ m[j] = l[j]
      /\ \A j \in 1..Len(m) : j > k => j - 1 \in 1..Len(l) /\ m[j] = l[j - 1]
  BY InsertedEntries
<1>2. \A i \in 1..Len(d) : Contains(m, d[i])
  BY InsertedContains DEF InOrder
<1>3. ASSUME NEW i \in 1..Len(d), NEW j \in 1..Len(d), NEW p \in 1..Len(m),
             NEW q \in 1..Len(m), m[p] = d[i], m[q] = d[j]
      PROVE  i < j <=> p < q
  <2>1. p # k /\ q # k
    BY <1>1, <1>3
  <2>2. \A a, b \in 1..Len(l) : l[a] = d[i] /\ l[b] = d[j] => (i < j <=> a < b)
    BY DEF InOrder
  <2>3. CASE p < k /\ q < k
    BY <1>1, <1>3, <2>2, <2>3
  <2>4. CASE p < k /\ q > k
    <3>1. i < j <=> p < q - 1
      BY <1>1, <1>3, <2>2, <2>4
    <3>2. p < q - 1 /\ p < q
      BY <1>1, <2>4
    <3> QED BY <3>1, <3>2
  <2>5. CASE p > k /\ q < k
    <3>1. i < j <=> p - 1 < q
      BY <1>1, <1>3, <2>2, <2>5
    <3> QED BY <1>1, <2>5, <3>1
  <2>6. CASE p > k /\ q > k
    <3>1. i < j <=> p - 1 < q - 1
      BY <1>1, <1>3, <2>2, <2>6
    <3> QED BY <3>1
  <2> QED BY <1>1, <2>1, <2>3, <2>4, <2>5, <2>6
<1> QED BY <1>2, <1>3 DEF InOrder

\* And so does taking another handler out.
LEMMA InOrderRemoved ==
    ASSUME NEW l, NEW m, NEW k, NEW n, Inserted(l, m, k, n),
           NEW d \in Seq(Names), \A i \in 1..Len(d) : d[i] # n, InOrder(d, m)
    PROVE  InOrder(d, l)
<1>1. /\ k \in Int
      /\ \A j \in 1..Len(l) : j < k => j \in 1..Len(m) /\ m[j] = l[j]
      /\ \A j \in 1..Len(l) : j >= k => j + 1 \in 1..Len(m) /\ m[j + 1] = l[j]
  BY InsertedEntries
<1>2. \A i \in 1..Len(d) : Contains(l, d[i])
  BY InsertedContains DEF InOrder
<1>3. ASSUME NEW i \in 1..Len(d), NEW j \in 1..Len(d), NEW p \in 1..Len(l),
             NEW q \in 1..Len(l), l[p] = d[i], l[q] = d[j]
      PROVE  i < j <=> p < q
  <2>1. \A a, b \in 1..Len(m) : m[a] = d[i] /\ m[b] = d[j] => (i < j <=> a < b)
    BY DEF InOrder
  <2>2. CASE p < k /\ q < k
    BY <1>1, <1>3, <2>1, <2>2
  <2>3. CASE p < k /\ q >= k
    <3>1. i < j <=> p < q + 1
      BY <1>1, <1>3, <2>1, <2>3
    <3> QED BY <1>1, <2>3, <3>1
  <2>4. CASE p >= k /\ q < k
    <3>1. i < j <=> p + 1 < q
      BY <1>1, <1>3, <2>1, <2>4
    <3> QED BY <1>1, <2>4, <3>1
  <2>5. CASE p >= k /\ q >= k
    <3>1. i < j <=> p + 1 < q + 1
      BY <1>1, <1>3, <2>1, <2>5
    <3> QED BY <3>1
  <2> QED BY <1>1, <2>2, <2>3, <2>4, <2>5
<1> QED BY <1>2, <1>3 DEF InOrder
=============================================================================
