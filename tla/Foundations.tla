---------------------------- MODULE Foundations ----------------------------
(***************************************************************************)
(* What the proofs about loops and lists rest on: induction over numbers   *)
(* and the existence of what a loop computes, in a form that names sets    *)
(* and functions instead of operators, so that the provers can use it; and *)
(* how a linked list that ends with null changes at its two ends.          *)
(***************************************************************************)
EXTENDS Integers, Sequences, FiniteSets, WellFoundedInduction,
        FiniteSetTheorems, TLAPS

\* Every set of natural numbers has a least element.
LEMMA LeastNat ==
    ASSUME NEW T, T \subseteq Nat, T # {}
    PROVE  \E x \in T : \A y \in T : x <= y
<1> DEFINE R == OpToRel(<, Nat)
<1>1. R = {p \in Nat \X Nat : p[1] < p[2]}
  BY DEF OpToRel
<1>2. IsWellFoundedOn(R, Nat)
  BY NatLessThanWellFounded, Zenon
<1> HIDE DEF R
<1>3. PICK x \in T : \A y \in T : <<y, x>> \notin R
  BY <1>2, WFMin, Zenon
<1>4. ASSUME NEW y \in T PROVE x <= y
  <2>1. x \in Nat /\ y \in Nat
    OBVIOUS
  <2>2. <<y, x>> \notin R
    BY <1>3
  <2> QED
    BY <2>1, <2>2, <1>1
<1> QED
  BY <1>4

\* What holds of 0 and goes from each number to the next holds up to n.
LEMMA UpTo ==
    ASSUME NEW n \in Nat, NEW T, 0 \in T,
           \A i \in 0..(n - 1) : i \in T => i + 1 \in T
    PROVE  \A i \in 0..n : i \in T
<1> SUFFICES ASSUME NEW i \in 0..n, i \notin T PROVE FALSE
  OBVIOUS
<1> DEFINE U == {k \in 0..n : k \notin T}
<1>1. U \subseteq Nat /\ U # {}
  OBVIOUS
<1>2. PICK k \in U : \A j \in U : k <= j
  BY <1>1, LeastNat, Zenon
<1>3. k # 0 /\ k - 1 \in 0..(n - 1) /\ k - 1 \notin U
  BY <1>2
<1> QED
  BY <1>2, <1>3

\* The values of a loop of n rounds: F from a on.
LoopOf(w, S, n, a, F) ==
    /\ w \in [0..n -> S]
    /\ w[0] = a
    /\ \A i \in 1..n : w[i] = F[<<w[i-1], i>>]

\* Whatever F does in a round, the loop has values: a function that is
\* defined by such a recursion is one of them.
LEMMA Rounds ==
    ASSUME NEW n \in Nat, NEW S, NEW a \in S, NEW F \in [S \X (1..n) -> S]
    PROVE  \E w : LoopOf(w, S, n, a, F)
<1> DEFINE T == {k \in 0..n : \E w : LoopOf(w, S, k, a, F)}
<1>1. 0 \in T
  <2> DEFINE w0 == [i \in 0..0 |-> a]
  <2>1. LoopOf(w0, S, 0, a, F)
    BY DEF LoopOf
  <2> QED
    BY <2>1
<1>2. ASSUME NEW k \in 0..(n - 1), k \in T PROVE k + 1 \in T
  <2>1. PICK w : LoopOf(w, S, k, a, F)
    BY <1>2
  <2> DEFINE b == F[<<w[k], k + 1>>]
             x == [i \in 0..(k + 1) |-> IF i <= k THEN w[i] ELSE b]
  <2>2. k \in 0..k /\ k + 1 \in 1..n /\ k + 1 \in 0..n
    OBVIOUS
  <2>3. w[k] \in S
    BY <2>1, <2>2 DEF LoopOf
  <2>4. <<w[k], k + 1>> \in S \X (1..n)
    BY <2>2, <2>3
  <2>5. b \in S
    BY <2>4
  <2>6. x \in [0..(k + 1) -> S]
    BY <2>1, <2>5 DEF LoopOf
  <2>7. x[0] = a
    BY <2>1 DEF LoopOf
  <2>8. ASSUME NEW i \in 1..(k + 1) PROVE x[i] = F[<<x[i-1], i>>]
    <3>1. CASE i <= k
      <4>1. x[i] = w[i] /\ x[i-1] = w[i-1] /\ i \in 1..k
        BY <3>1
      <4> QED
        BY <4>1, <2>1 DEF LoopOf
    <3>2. CASE i = k + 1
      <4>1. x[i] = b /\ x[i-1] = w[k]
        BY <3>2
      <4> QED
        BY <4>1, <3>2, Zenon
    <3> QED
      BY <3>1, <3>2
  <2> HIDE DEF x
  <2>9. LoopOf(x, S, k + 1, a, F)
    BY <2>6, <2>7, <2>8 DEF LoopOf
  <2> QED
    BY <2>2, <2>9
<1> HIDE DEF T
<1>3. n \in T
  BY <1>1, <1>2, UpTo
<1> QED
  BY <1>3 DEF T

\* An invariant of a loop: the set I of the pairs of a round and the state in
\* it.
Keeps(n, S, a, F, I) ==
    /\ a \in S /\ <<0, a>> \in I
    /\ \A i \in 1..n : \A p \in S : <<i-1, p>> \in I =>
          F[<<p, i>>] \in S /\ <<i, F[<<p, i>>]>> \in I

\* While the invariant holds, s does what F says.
Follows(s, n, S, a, F, I) ==
    /\ s[0] = a
    /\ \A i \in 1..n : s[i-1] \in S /\ <<i-1, s[i-1]>> \in I =>
          s[i] = F[<<s[i-1], i>>]

\* Then the invariant holds in every round.
LEMMA LoopKeeps ==
    ASSUME NEW n \in Nat, NEW S, NEW a, NEW F, NEW I, Keeps(n, S, a, F, I),
           NEW s, Follows(s, n, S, a, F, I)
    PROVE  \A i \in 0..n : s[i] \in S /\ <<i, s[i]>> \in I
<1> DEFINE T == {i \in 0..n : s[i] \in S /\ <<i, s[i]>> \in I}
<1>1. 0 \in T
  BY DEF Keeps, Follows
<1>2. ASSUME NEW i \in 0..(n - 1), i \in T PROVE i + 1 \in T
  <2>1. i + 1 \in 1..n /\ i + 1 \in 0..n /\ (i + 1) - 1 = i
    OBVIOUS
  <2>2. s[i] \in S /\ <<i, s[i]>> \in I
    BY <1>2
  <2>3. s[i+1] = F[<<s[i], i + 1>>]
    BY <2>1, <2>2 DEF Follows
  <2> QED
    BY <2>1, <2>2, <2>3 DEF Keeps
<1> HIDE DEF T
<1>3. \A i \in 0..n : i \in T
  BY <1>1, <1>2, UpTo
<1> QED
  BY <1>3 DEF T

\* A loop whose invariant keeps its state in S has values.
LEMMA LoopExists ==
    ASSUME NEW n \in Nat, NEW S, NEW a, NEW F, NEW I, Keeps(n, S, a, F, I)
    PROVE  \E w : /\ w \in [0..n -> S] /\ w[0] = a
                  /\ \A i \in 1..n : w[i] = F[<<w[i-1], i>>]
<1> DEFINE H == [x \in S \X (1..n) |-> IF F[x] \in S THEN F[x] ELSE x[1]]
<1>1. H \in [S \X (1..n) -> S]
  OBVIOUS
<1>h. \A p \in S : \A i \in 1..n : F[<<p, i>>] \in S => H[<<p, i>>] = F[<<p, i>>]
  OBVIOUS
<1> HIDE DEF H
<1>2. PICK w : LoopOf(w, S, n, a, H)
  BY <1>1, Rounds, Zenon DEF Keeps
<1>3. w \in [0..n -> S] /\ w[0] = a /\ \A i \in 1..n : w[i] = H[<<w[i-1], i>>]
  BY <1>2 DEF LoopOf
<1>4. \A i \in 1..n : i - 1 \in 0..n
  OBVIOUS
<1>5. \A i \in 1..n : w[i-1] \in S /\ <<i-1, w[i-1]>> \in I =>
          w[i] = F[<<w[i-1], i>>]
  BY <1>3, <1>h, Zenon DEF Keeps
<1>f. Follows(w, n, S, a, F, I)
  BY <1>3, <1>5 DEF Follows
<1>6. \A i \in 0..n : w[i] \in S /\ <<i, w[i]>> \in I
  BY <1>f, LoopKeeps
<1> QED
  BY <1>3, <1>4, <1>5, <1>6, Zenon

----------------------------------------------------------------------------
(* Linked lists.                                                            *)

\* The list that starts with head and goes on by link until null is the n
\* cells q, those of A.
IsQueue(null, A, head, link, n, q) ==
    /\ n = Cardinality(A)
    /\ q \in [1..n -> A]
    /\ \A i, j \in 1..n : q[i] = q[j] => i = j
    /\ \A t \in A : \E i \in 1..n : q[i] = t
    /\ head = IF n = 0 THEN null ELSE q[1]
    /\ \A i \in 1..n : link[q[i]] = IF i = n THEN null ELSE q[i+1]

\* The cells c of a walk along a list, N steps far.
IsWalk(null, head, link, N, c) ==
    c = [k \in 0..N |-> IF k = 0 THEN head
                        ELSE IF c[k-1] = null THEN null ELSE link[c[k-1]]]

\* A list in which a walk does not leave P.
Walkable(P, null, head, link, N) ==
    /\ null \in P /\ head \in P /\ N \in Nat
    /\ \A p \in P \ {null} : link[p] \in P

\* The walk along a list exists: each step takes the link of the one before.
LEMMA Walk ==
    ASSUME NEW P, NEW null, NEW head, NEW link, NEW N,
           Walkable(P, null, head, link, N)
    PROVE  \E c : IsWalk(null, head, link, N, c)
<1> USE DEF Walkable
<1> DEFINE F == [p \in P \X (1..N) |->
                   IF p[1] = null THEN null ELSE link[p[1]]]
<1>1. F \in [P \X (1..N) -> P]
  OBVIOUS
<1> HIDE DEF F
<1>2. PICK w : LoopOf(w, P, N, head, F)
  BY <1>1, Rounds
<1>3. ASSUME NEW i \in 1..N
      PROVE  w[i] = IF w[i-1] = null THEN null ELSE link[w[i-1]]
  <2>1. w[i-1] \in P
    BY <1>2 DEF LoopOf
  <2>2. F[<<w[i-1], i>>] = IF w[i-1] = null THEN null ELSE link[w[i-1]]
    BY <2>1 DEF F
  <2> QED
    BY <1>2, <2>2 DEF LoopOf
<1>4. w = [k \in 0..N |->
             IF k = 0 THEN head
             ELSE IF w[k-1] = null THEN null ELSE link[w[k-1]]]
  BY <1>2, <1>3 DEF LoopOf
<1> QED
  BY <1>4 DEF IsWalk

\* A walk c of N steps meets the n cells q, those of A, and then null.
Meets(c, N, null, n, q, A) ==
    /\ Cardinality({k \in 0..N : c[k] # null}) = n
    /\ [i \in 1..n |-> c[i-1]] = q
    /\ {c[k] : k \in 0..N} \ {null} = A

\* A walk along a list meets its cells, in order.
LEMMA WalkMeets ==
    ASSUME NEW N \in Nat, NEW n \in 0..N, NEW null, NEW A, null \notin A,
           NEW head, NEW link, NEW q \in [1..n -> A],
           IsQueue(null, A, head, link, n, q),
           NEW c, IsWalk(null, head, link, N, c)
    PROVE  Meets(c, N, null, n, q, A)
<1> DEFINE T == {k \in 0..N : c[k] = IF k < n THEN q[k+1] ELSE null}
<1>1. N \in Nat /\ n \in Nat
  OBVIOUS
<1>2. /\ c[0] = head
      /\ \A k \in 1..N : c[k] = IF c[k-1] = null THEN null ELSE link[c[k-1]]
  BY SMTT(30) DEF IsWalk
<1>3. /\ head = IF n = 0 THEN null ELSE q[1]
      /\ \A i \in 1..n : link[q[i]] = IF i = n THEN null ELSE q[i+1]
      /\ \A i \in 1..n : q[i] \in A
      /\ \A t \in A : \E i \in 1..n : q[i] = t
      /\ n = Cardinality(A)
  BY DEF IsQueue
<1>4. 0 \in T
  BY <1>1, <1>2, <1>3
<1>5. ASSUME NEW k \in 0..(N - 1), k \in T PROVE k + 1 \in T
  <2>1. /\ k + 1 \in 1..N /\ (k + 1) - 1 = k
        /\ c[k] = IF k < n THEN q[k+1] ELSE null
    BY <1>1, <1>5
  <2>2. c[k + 1] = IF c[k] = null THEN null ELSE link[c[k]]
    BY <1>2, <2>1
  <2>3. CASE k < n
    <3>1. k + 1 \in 1..n /\ c[k] = q[k+1] /\ c[k] # null
      BY <1>1, <1>3, <2>1, <2>3
    <3>2. c[k + 1] = IF k + 1 = n THEN null ELSE q[(k+1)+1]
      BY <1>3, <2>2, <3>1
    <3> QED
      BY <1>1, <2>1, <3>1, <3>2
  <2>4. CASE ~(k < n)
    BY <1>1, <2>1, <2>2, <2>4
  <2> QED
    BY <2>3, <2>4
<1> HIDE DEF T
<1>6. \A k \in 0..N : k \in T
  BY <1>1, <1>4, <1>5, UpTo
<1>7. \A k \in 0..N : c[k] = IF k < n THEN q[k+1] ELSE null
  BY <1>6 DEF T
<1>a. \A k \in 0..N : k < n => k + 1 \in 1..n /\ c[k] = q[k+1] /\ c[k] \in A
  BY <1>1, <1>3, <1>7
<1>b. \A k \in 0..N : c[k] # null <=> k < n
  BY <1>7, <1>a
<1>8. {k \in 0..N : c[k] # null} = 0..(n - 1)
  BY <1>1, <1>b
<1>9. Cardinality(0..(n - 1)) = n
  BY <1>1, FS_Interval
<1>10. [i \in 1..n |-> c[i-1]] = q
  <2>1. \A i \in 1..n : i - 1 \in 0..N /\ i - 1 < n /\ (i - 1) + 1 = i
    BY <1>1
  <2>2. \A i \in 1..n : c[i-1] = q[i]
    BY <1>7, <2>1
  <2> QED
    BY <2>2
<1>11. {c[k] : k \in 0..N} \ {null} = A
  <2>1. ASSUME NEW t \in A PROVE t \in {c[k] : k \in 0..N}
    <3>1. PICK i \in 1..n : q[i] = t
      BY <1>3
    <3>2. i - 1 \in 0..N /\ i - 1 < n /\ (i - 1) + 1 = i
      BY <1>1
    <3>3. c[i - 1] = t
      BY <1>7, <3>1, <3>2
    <3> QED
      BY <3>2, <3>3
  <2>2. ASSUME NEW k \in 0..N, c[k] # null PROVE c[k] \in A
    BY <1>a, <1>b, <2>2
  <2> QED
    BY <2>1, <2>2
<1> QED
  BY <1>8, <1>9, <1>10, <1>11, Zenon DEF Meets

\* From head and link to head2 and link2, e is added to the list of A: as its
\* head if there is none, otherwise behind a last cell.
AddedTo(null, A, head, link, e, head2, link2) ==
    \/ head = null /\ head2 = e /\ link2 = link
    \/ \E l \in A : /\ link[l] = null /\ head2 = head
                    /\ link2 = [link EXCEPT ![l] = e]

\* It is then the last cell of the list.
LEMMA ListAppend ==
    ASSUME NEW T, IsFiniteSet(T), NEW null, null \notin T,
           NEW A \in SUBSET T, NEW e \in T \ A, NEW head,
           NEW link \in [T -> T \cup {null}], link[e] = null,
           NEW n \in Nat, NEW q \in [1..n -> A],
           IsQueue(null, A, head, link, n, q),
           NEW head2, NEW link2, AddedTo(null, A, head, link, e, head2, link2)
    PROVE  /\ IsQueue(null, A \cup {e}, head2, link2, n + 1, Append(q, e))
           /\ n + 1 <= Cardinality(T)
           /\ Append(q, e) \in [1..(n + 1) -> A \cup {e}]
<1> DEFINE p == Append(q, e)
<1>1. n \in Nat
  OBVIOUS
<1>2. q \in Seq(A \cup {e}) /\ Len(q) = n
  BY <1>1
<1>3. /\ n = Cardinality(A)
      /\ \A i, j \in 1..n : q[i] = q[j] => i = j
      /\ \A t \in A : \E i \in 1..n : q[i] = t
      /\ head = IF n = 0 THEN null ELSE q[1]
      /\ \A i \in 1..n : link[q[i]] = IF i = n THEN null ELSE q[i+1]
  BY DEF IsQueue
<1>4. IsFiniteSet(A) /\ IsFiniteSet(A \cup {e})
  BY FS_Subset, FS_AddElement
<1>5. Cardinality(A \cup {e}) = n + 1
  BY <1>3, <1>4, FS_AddElement
<1>6. n + 1 <= Cardinality(T)
  BY <1>1, <1>5, FS_Subset
<1>7. /\ p \in [1..(n + 1) -> A \cup {e}]
      /\ \A i \in 1..n : p[i] = q[i] /\ p[i] \in A /\ p[i] # e
      /\ p[n + 1] = e
  <2>1. /\ p \in Seq(A \cup {e}) /\ Len(p) = n + 1
        /\ \A i \in 1..n : p[i] = q[i]
        /\ p[n + 1] = e
    BY <1>2
  <2> HIDE DEF p
  <2>2. p \in [1..(n + 1) -> A \cup {e}]
    BY <1>1, <2>1
  <2> QED
    BY <2>1, <2>2
<1> HIDE DEF p
<1>8. \A i, j \in 1..(n + 1) : p[i] = p[j] => i = j
  BY <1>1, <1>3, <1>7
<1>9. \A t \in A \cup {e} : \E i \in 1..(n + 1) : p[i] = t
  <2>1. n + 1 \in 1..(n + 1) /\ 1..n \subseteq 1..(n + 1)
    BY <1>1
  <2> QED
    BY <1>3, <1>7, <2>1
<1>10. /\ head2 = p[1]
       /\ \A i \in 1..(n + 1) : link2[p[i]] = IF i = n + 1 THEN null ELSE p[i+1]
  <2>1. CASE n = 0
    <3>1. A = {}
      BY <1>1, <1>3, <2>1
    <3> QED
      BY <1>1, <1>3, <1>7, <2>1, <3>1 DEF AddedTo
  <2>2. CASE n # 0
    <3>1. head # null /\ 1 \in 1..n
      BY <1>1, <1>3, <1>7, <2>2
    <3>2. PICK l \in A : /\ link[l] = null /\ head2 = head
                         /\ link2 = [link EXCEPT ![l] = e]
      BY <3>1 DEF AddedTo
    <3>3. PICK j \in 1..n : q[j] = l
      BY <1>3
    <3>4. j = n
      <4>1. ASSUME j # n PROVE FALSE
        <5>1. j + 1 \in 1..n /\ link[q[j]] = q[j + 1]
          BY <1>1, <1>3, <4>1
        <5> QED
          BY <1>7, <3>2, <3>3, <5>1
      <4> QED
        BY <4>1
    <3>5. \A i \in 1..n : q[i] = l <=> i = n
      BY <1>3, <3>3, <3>4
    <3>6. ASSUME NEW i \in 1..(n + 1)
          PROVE  link2[p[i]] = IF i = n + 1 THEN null ELSE p[i+1]
      <4>1. CASE i = n + 1
        BY <1>7, <3>2, <4>1
      <4>2. CASE i = n
        <5>1. p[i] = l /\ p[i + 1] = e /\ i # n + 1
          BY <1>1, <1>7, <3>3, <3>4, <4>2
        <5> QED
          BY <3>2, <5>1
      <4>3. CASE i \in 1..(n - 1)
        <5>1. /\ i \in 1..n /\ i + 1 \in 1..n /\ i # n /\ i # n + 1
              /\ p[i] = q[i] /\ p[i + 1] = q[i + 1]
          BY <1>1, <1>7, <4>3
        <5>2. p[i] # l /\ p[i] \in T /\ link[p[i]] = p[i + 1]
          BY <1>3, <1>7, <3>5, <5>1
        <5> QED
          BY <3>2, <5>1, <5>2
      <4> QED
        BY <1>1, <4>1, <4>2, <4>3
    <3> QED
      BY <1>1, <1>3, <1>7, <2>2, <3>1, <3>2, <3>6
  <2> QED
    BY <2>1, <2>2
<1>11. IsQueue(null, A \cup {e}, head2, link2, n + 1, p)
  BY <1>1, <1>5, <1>7, <1>8, <1>9, <1>10 DEF IsQueue
<1> QED
  BY <1>6, <1>7, <1>11 DEF p

\* The first cell leaves a list that is not empty.
LEMMA ListTail ==
    ASSUME NEW T, IsFiniteSet(T), NEW null, null \notin T,
           NEW A \in SUBSET T, NEW head \in T,
           NEW link \in [T -> T \cup {null}],
           NEW n \in Nat, NEW q \in [1..n -> A],
           IsQueue(null, A, head, link, n, q)
    PROVE  /\ IsQueue(null, A \ {head}, link[head],
                      [link EXCEPT ![head] = null], n - 1, Tail(q))
           /\ q # <<>> /\ q[1] = head /\ n - 1 \in Nat
           /\ Tail(q) \in [1..(n - 1) -> A \ {head}]
<1> DEFINE p == Tail(q)
           new == [link EXCEPT ![head] = null]
<1>1. n \in Nat
  OBVIOUS
<1>2. /\ n = Cardinality(A)
      /\ \A i, j \in 1..n : q[i] = q[j] => i = j
      /\ \A t \in A : \E i \in 1..n : q[i] = t
      /\ head = IF n = 0 THEN null ELSE q[1]
      /\ \A i \in 1..n : link[q[i]] = IF i = n THEN null ELSE q[i+1]
      /\ \A i \in 1..n : q[i] \in A
  BY DEF IsQueue
<1>3. n # 0 /\ head = q[1] /\ 1 \in 1..n /\ n - 1 \in Nat
  BY <1>1, <1>2
<1>4. q \in Seq(A) /\ Len(q) = n /\ q # <<>>
  BY <1>1, <1>3
<1>5. /\ p \in Seq(A) /\ Len(p) = n - 1
      /\ \A i \in 1..(n - 1) : p[i] = q[i + 1]
  BY <1>1, <1>4
<1> HIDE DEF p
<1>6. IsFiniteSet(A) /\ head \in A
  BY <1>2, <1>3, FS_Subset
<1>7. Cardinality(A \ {head}) = n - 1
  BY <1>2, <1>6, FS_RemoveElement, Zenon
<1>8. \A i \in 1..(n - 1) : /\ i + 1 \in 1..n /\ p[i] = q[i + 1]
                            /\ p[i] \in A /\ p[i] # head
  <2> SUFFICES ASSUME NEW i \in 1..(n - 1)
               PROVE  /\ i + 1 \in 1..n /\ p[i] = q[i + 1]
                      /\ p[i] \in A /\ p[i] # head
    OBVIOUS
  <2>1. i + 1 \in 1..n /\ i + 1 # 1 /\ p[i] = q[i + 1]
    BY <1>1, <1>5
  <2>2. q[i + 1] \in A /\ q[i + 1] # q[1]
    BY <1>2, <1>3, <2>1
  <2> QED
    BY <1>3, <2>1, <2>2
<1>9. p \in [1..(n - 1) -> A \ {head}]
  BY <1>3, <1>5, <1>8
<1>10. \A i, j \in 1..(n - 1) : p[i] = p[j] => i = j
  BY <1>1, <1>2, <1>8
<1>11. ASSUME NEW t \in A \ {head} PROVE \E i \in 1..(n - 1) : p[i] = t
  <2>1. PICK i \in 1..n : q[i] = t
    BY <1>2
  <2>2. i - 1 \in 1..(n - 1) /\ (i - 1) + 1 = i
    BY <1>1, <1>3, <2>1
  <2> QED
    BY <1>8, <2>1, <2>2
<1>12. link[head] = IF n - 1 = 0 THEN null ELSE p[1]
  BY <1>1, <1>2, <1>3, <1>8
<1>13. ASSUME NEW i \in 1..(n - 1)
       PROVE  new[p[i]] = IF i = n - 1 THEN null ELSE p[i+1]
  <2>1. new[p[i]] = link[q[i + 1]] /\ i + 1 \in 1..n
    BY <1>8
  <2>2. i # n - 1 => p[i + 1] = q[(i + 1) + 1] /\ i + 1 # n
    BY <1>1, <1>8
  <2> QED
    BY <1>1, <1>2, <2>1, <2>2
<1> HIDE DEF new
<1>14. IsQueue(null, A \ {head}, link[head], new, n - 1, p)
  BY <1>7, <1>9, <1>10, <1>11, <1>12, <1>13 DEF IsQueue
<1> QED
  BY <1>3, <1>4, <1>9, <1>14 DEF new, p
=============================================================================
