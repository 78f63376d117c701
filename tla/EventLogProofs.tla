--------------------------- MODULE EventLogProofs ---------------------------
(***************************************************************************)
(* The log of a session, for any number of calls, crashes, failed and torn *)
(* writes and checkpoints.                                                 *)
(*                                                                         *)
(* The invariant has one part for each reader of the file: ids and numbers *)
(* are claimed in order, for the file and then for the chain of writes;    *)
(* what was acknowledged precedes the chain, and is in the file or paid    *)
(* for by a torn write; the follower has the records before its offset;    *)
(* and each checkpoint is the projection of a prefix of the log.           *)
(* The lemmas before it say what the two loops of the readers return,      *)
(* Only (parseWholeLines, filter) and ReduceEvents: they are recursive     *)
(* functions, and the proofs induct over sets of numbers, with the least   *)
(* number of a nonempty set.                                               *)
(***************************************************************************)
EXTENDS EventLog, FiniteSetTheorems, SequenceTheorems, TLAPS

----------------------------------------------------------------------------
(* Induction, over sets of numbers: no prover instantiates the predicates  *)
(* of the library's own theorems.                                          *)

\* There is an order on the numbers to which WFMin applies.
LEMMA LessIsWellFounded ==
  \E R : /\ IsWellFoundedOn(R, Nat)
         /\ \A x, y \in Nat : y < x => <<y, x>> \in R
<1>1. \A x, y \in Nat : y < x => <<y, x>> \in OpToRel(<, Nat)
  BY DEF OpToRel
<1> QED
  BY <1>1, NatLessThanWellFounded, Zenon

\* A set of numbers has a least one.
LEMMA Least ==
  ASSUME NEW T \in SUBSET Nat, T # {}
  PROVE  \E x \in T : \A y \in T : x <= y
<1>1. PICK R : /\ IsWellFoundedOn(R, Nat)
               /\ \A x, y \in Nat : y < x => <<y, x>> \in R
  BY LessIsWellFounded
<1>2. PICK x \in T : \A y \in T : ~(<<y, x>> \in R)
  BY <1>1, WFMin
<1>3. ASSUME NEW y \in T PROVE x <= y
  <2>1. ~(y < x)
    BY <1>1, <1>2
  <2> QED
    BY <2>1
<1> QED
  BY <1>3

\* What holds of 0, and of a number after it holds of the one before, holds of
\* all up to N.
LEMMA UpTo ==
  ASSUME NEW N \in Nat, NEW T, 0 \in T,
         \A n \in 0..(N - 1) : n \in T => n + 1 \in T
  PROVE  0..N \subseteq T
<1> SUFFICES ASSUME (0..N) \ T # {} PROVE FALSE
  OBVIOUS
<1>1. PICK x \in (0..N) \ T : \A y \in (0..N) \ T : x <= y
  <2>1. (0..N) \ T \in SUBSET Nat
    OBVIOUS
  <2> QED
    BY <2>1, Least
<1>2. x # 0 /\ x - 1 \in 0..(N - 1) /\ x - 1 \notin (0..N) \ T
  BY <1>1
<1>3. x - 1 \in T
  BY <1>2
<1> QED
  BY <1>1, <1>2, <1>3

----------------------------------------------------------------------------
(* Only                                                                    *)

\* The loop of Only over the first k of s.
IsKept(f, s, S, k) ==
  f = [n \in 0..k |->
         IF n = 0 THEN <<>>
         ELSE IF s[n] \in S THEN Append(f[n - 1], s[n]) ELSE f[n - 1]]

\* The loop can be run.
LEMMA KeptExists ==
  ASSUME NEW N \in Nat, NEW s, NEW S
  PROVE  \E f : IsKept(f, s, S, N)
<1> DEFINE T == {k \in 0..N : \E f : IsKept(f, s, S, k)}
<1>1. 0 \in T
  <2> DEFINE f == [n \in 0..0 |-> <<>>]
  <2>1. IsKept(f, s, S, 0)
    BY DEF IsKept
  <2> QED
    BY <2>1
<1>2. ASSUME NEW k \in 0..(N - 1), k \in T PROVE k + 1 \in T
  <2>1. PICK f : IsKept(f, s, S, k)
    BY <1>2
  <2> DEFINE last == IF s[k + 1] \in S THEN Append(f[k], s[k + 1]) ELSE f[k]
             g == [n \in 0..(k + 1) |-> IF n = k + 1 THEN last ELSE f[n]]
  <2>2. /\ f[0] = <<>>
        /\ \A n \in 1..k : f[n] = IF s[n] \in S THEN Append(f[n - 1], s[n])
                                  ELSE f[n - 1]
    <3>1. \A n \in 0..k : f[n] = IF n = 0 THEN <<>>
                              ELSE IF s[n] \in S THEN Append(f[n - 1], s[n])
                                   ELSE f[n - 1]
      BY <2>1, Zenon DEF IsKept
    <3>2. 0 \in 0..k /\ \A n \in 1..k : n \in 0..k /\ n # 0
      OBVIOUS
    <3> QED
      BY <3>1, <3>2, Zenon
  <2>3. /\ g[0] = f[0]
        /\ \A n \in 1..k : g[n] = f[n] /\ g[n - 1] = f[n - 1]
        /\ g[k + 1] = last /\ g[k] = f[k]
    OBVIOUS
  <2> HIDE DEF g
  <2>4. \A n \in 0..(k + 1) :
          g[n] = IF n = 0 THEN <<>>
                 ELSE IF s[n] \in S THEN Append(g[n - 1], s[n]) ELSE g[n - 1]
    <3> TAKE n \in 0..(k + 1)
    <3>1. CASE n = 0
      BY <2>2, <2>3, <3>1
    <3>2. CASE n \in 1..k
      BY <2>2, <2>3, <3>2
    <3>3. CASE n = k + 1
      BY <2>3, <3>3
    <3> QED
      BY <3>1, <3>2, <3>3
  <2>5. IsKept(g, s, S, k + 1)
    <3>1. g = [n \in 0..(k + 1) |-> g[n]]
      BY DEF g
    <3> QED
      BY <2>4, <3>1 DEF IsKept
  <2> QED
    BY <2>5
<1> HIDE DEF T
<1>3. 0..N \subseteq T
  BY <1>1, <1>2, UpTo
<1> QED
  BY <1>3 DEF T

\* ... and Only is what it ends with.
LEMMA OnlyIsKept ==
  ASSUME NEW s, NEW S, Len(s) \in Nat
  PROVE  \E f : IsKept(f, s, S, Len(s)) /\ Only(s, S) = f[Len(s)]
<1> DEFINE f == CHOOSE f : IsKept(f, s, S, Len(s))
<1>1. Only(s, S) = f[Len(s)]
  BY DEF Only, IsKept
<1>2. IsKept(f, s, S, Len(s))
  BY KeptExists
<1> QED
  BY <1>1, <1>2

\* What the loop has, step by step.
LEMMA KeptValues ==
  ASSUME NEW f, NEW s, NEW S, NEW k \in Nat, IsKept(f, s, S, k)
  PROVE  /\ f[0] = <<>>
         /\ \A n \in 0..(k - 1) :
              /\ s[n + 1] \in S => f[n + 1] = Append(f[n], s[n + 1])
              /\ s[n + 1] \notin S => f[n + 1] = f[n]
<1>1. \A n \in 0..k : f[n] = IF n = 0 THEN <<>>
                             ELSE IF s[n] \in S THEN Append(f[n - 1], s[n])
                                  ELSE f[n - 1]
  BY Zenon DEF IsKept
<1>2. f[0] = <<>>
  <2>1. 0 \in 0..k
    OBVIOUS
  <2> QED
    BY <1>1, <2>1, Zenon
<1>3. ASSUME NEW n \in 0..(k - 1)
      PROVE  f[n + 1] = IF s[n + 1] \in S THEN Append(f[n], s[n + 1]) ELSE f[n]
  <2>1. n + 1 \in 0..k /\ n + 1 # 0 /\ n + 1 - 1 = n
    OBVIOUS
  <2> QED
    BY <1>1, <2>1
<1> QED
  BY <1>2, <1>3

\* Two sequences that begin alike are alike to the loop.
LEMMA KeptAgrees ==
  ASSUME NEW f, NEW s, NEW g, NEW t, NEW S, NEW a \in Nat, NEW b \in Nat,
         IsKept(f, s, S, a), IsKept(g, t, S, b),
         NEW N \in Nat, N <= a, N <= b, \A i \in 1..N : s[i] = t[i]
  PROVE  f[N] = g[N]
<1> DEFINE T == {n \in 0..N : f[n] = g[n]}
<1>1. 0 \in T
  BY KeptValues
<1>2. ASSUME NEW n \in 0..(N - 1), n \in T PROVE n + 1 \in T
  <2>1. n \in 0..(a - 1) /\ n \in 0..(b - 1) /\ n + 1 \in 1..N
    OBVIOUS
  <2>2. s[n + 1] = t[n + 1] /\ f[n] = g[n]
    BY <1>2, <2>1
  <2>3. f[n + 1] = g[n + 1]
    <3>1. /\ s[n + 1] \in S => f[n + 1] = Append(f[n], s[n + 1])
          /\ s[n + 1] \notin S => f[n + 1] = f[n]
          /\ t[n + 1] \in S => g[n + 1] = Append(g[n], t[n + 1])
          /\ t[n + 1] \notin S => g[n + 1] = g[n]
      <4>1. \A m \in 0..(a - 1) :
              /\ s[m + 1] \in S => f[m + 1] = Append(f[m], s[m + 1])
              /\ s[m + 1] \notin S => f[m + 1] = f[m]
        BY KeptValues
      <4>2. \A m \in 0..(b - 1) :
              /\ t[m + 1] \in S => g[m + 1] = Append(g[m], t[m + 1])
              /\ t[m + 1] \notin S => g[m + 1] = g[m]
        BY KeptValues
      <4> QED
        BY <2>1, <4>1, <4>2, Zenon
    <3> QED
      BY <2>2, <3>1
  <2> QED
    BY <2>1, <2>3
<1> HIDE DEF T
<1>3. 0..N \subseteq T
  BY <1>1, <1>2, UpTo
<1> QED
  BY <1>3 DEF T

\* What is kept is in S, and no more than there was.
LEMMA OnlyType ==
  ASSUME NEW A, NEW S, NEW s \in Seq(A)
  PROVE  Only(s, S) \in Seq(A \cap S) /\ Len(Only(s, S)) <= Len(s)
<1> DEFINE N == Len(s)
<1>1. N \in Nat /\ \A n \in 1..N : s[n] \in A
  OBVIOUS
<1>2. PICK f : IsKept(f, s, S, N) /\ Only(s, S) = f[N]
  BY <1>1, OnlyIsKept
<1> DEFINE T == {n \in 0..N : f[n] \in Seq(A \cap S) /\ Len(f[n]) <= n}
<1> HIDE DEF N
<1>3. 0 \in T
  <2>1. f[0] = <<>>
    BY <1>1, <1>2, KeptValues
  <2>2. <<>> \in Seq(A \cap S) /\ Len(<<>>) = 0
    OBVIOUS
  <2>3. f[0] \in Seq(A \cap S) /\ Len(f[0]) <= 0 /\ 0 \in 0..N
    BY <1>1, <2>1, <2>2
  <2> QED
    BY <2>3
<1>4. ASSUME NEW n \in 0..(N - 1), n \in T PROVE n + 1 \in T
  <2>1. n + 1 \in 1..N
    BY <1>1
  <2>2. /\ s[n + 1] \in S => f[n + 1] = Append(f[n], s[n + 1])
        /\ s[n + 1] \notin S => f[n + 1] = f[n]
    BY <1>1, <1>2, KeptValues
  <2>4. f[n] \in Seq(A \cap S) /\ Len(f[n]) <= n /\ s[n + 1] \in A
    BY <1>1, <1>4, <2>1
  <2>3. f[n + 1] \in Seq(A \cap S) /\ Len(f[n + 1]) <= n + 1
    <3> DEFINE q == f[n]
               x == s[n + 1]
    <3>1. q \in Seq(A \cap S) /\ Len(q) <= n /\ x \in A /\ n \in Nat
      BY <1>1, <2>4
    <3> HIDE DEF q, x
    <3>2. CASE s[n + 1] \in S
      <4>1. x \in A \cap S /\ f[n + 1] = Append(q, x)
        BY <2>2, <3>1, <3>2 DEF q, x
      <4>2. Append(q, x) \in Seq(A \cap S) /\ Len(Append(q, x)) = Len(q) + 1
        BY <3>1, <4>1, AppendProperties
      <4>3. Len(q) \in Nat
        BY <3>1
      <4> QED
        BY <3>1, <4>1, <4>2, <4>3
    <3>3. CASE s[n + 1] \notin S
      <4>1. f[n + 1] = q
        BY <2>2, <3>3 DEF q
      <4>2. Len(q) \in Nat
        BY <3>1
      <4> QED
        BY <3>1, <4>1, <4>2
    <3> QED
      BY <3>2, <3>3
  <2>5. n + 1 \in 0..N
    BY <2>1
  <2> QED
    BY <2>3, <2>5
<1> HIDE DEF T
<1>5. 0..N \subseteq T
  BY <1>1, <1>3, <1>4, UpTo
<1> QED
  BY <1>1, <1>2, <1>5 DEF T, N

\* Nothing is kept of nothing.
LEMMA OnlyEmpty ==
  ASSUME NEW S
  PROVE  Only(<<>>, S) = <<>>
<1>1. PICK f : IsKept(f, <<>>, S, 0) /\ Only(<<>>, S) = f[0]
  <2>1. Len(<<>>) = 0
    OBVIOUS
  <2> QED
    BY <2>1, OnlyIsKept
<1> QED
  BY <1>1, KeptValues

\* One more element is kept or is not.
LEMMA OnlyAppend ==
  ASSUME NEW A, NEW S, NEW s \in Seq(A), NEW x \in A
  PROVE  Only(Append(s, x), S) = IF x \in S THEN Append(Only(s, S), x)
                                 ELSE Only(s, S)
<1> DEFINE N == Len(s)
           t == Append(s, x)
<1>1. /\ N \in Nat /\ Len(t) = N + 1
      /\ \A i \in 1..N : s[i] = t[i]
      /\ t[N + 1] = x
  OBVIOUS
<1>2. PICK f : IsKept(f, s, S, N) /\ Only(s, S) = f[N]
  BY <1>1, OnlyIsKept
<1>3. PICK g : IsKept(g, t, S, N + 1) /\ Only(t, S) = g[N + 1]
  <2> HIDE DEF t
  <2>1. Len(t) \in Nat /\ Len(t) = N + 1
    BY <1>1
  <2>2. \E g : IsKept(g, t, S, Len(t)) /\ Only(t, S) = g[Len(t)]
    BY <2>1, OnlyIsKept
  <2> QED
    BY <2>1, <2>2
<1> HIDE DEF N, t
<1>4. N + 1 \in Nat /\ N \in 0..(N + 1 - 1) /\ N <= N + 1
  BY <1>1
<1>5. f[N] = g[N]
  BY <1>1, <1>2, <1>3, <1>4, KeptAgrees
<1>6. /\ t[N + 1] \in S => g[N + 1] = Append(g[N], t[N + 1])
      /\ t[N + 1] \notin S => g[N + 1] = g[N]
  BY <1>3, <1>4, KeptValues
<1> QED
  BY <1>1, <1>2, <1>3, <1>5, <1>6 DEF t

\* An element that joins b, or a and b, is at the same place.
EndsAlike(a, b, x) == Append(a \o b, x) = a \o Append(b, x)

LEMMA AppendToConcat ==
  ASSUME NEW A, NEW a \in Seq(A), NEW b \in Seq(A), NEW x \in A
  PROVE  EndsAlike(a, b, x)
BY DEF EndsAlike

\* What is kept of two parts is kept of the whole.
LEMMA OnlyConcat ==
  ASSUME NEW A, NEW S, NEW s \in Seq(A), NEW t \in Seq(A)
  PROVE  Only(s \o t, S) = Only(s, S) \o Only(t, S)
<1> DEFINE N == Len(s)
           M == Len(t)
           u == s \o t
<1>1. /\ N \in Nat /\ M \in Nat /\ Len(u) = N + M /\ Len(u) \in Nat
      /\ \A i \in 1..N : s[i] = u[i]
      /\ \A i \in 1..M : u[N + i] = t[i] /\ t[i] \in A
  OBVIOUS
<1>2. PICK f : IsKept(f, s, S, N) /\ Only(s, S) = f[N]
  BY <1>1, OnlyIsKept
<1>3. PICK g : IsKept(g, t, S, M) /\ Only(t, S) = g[M]
  BY <1>1, OnlyIsKept
<1>4. PICK h : IsKept(h, u, S, Len(u)) /\ Only(u, S) = h[Len(u)]
  BY <1>1, OnlyIsKept
<1>5. f[N] \in Seq(A)
  <2>1. f[N] \in Seq(A \cap S)
    BY <1>2, OnlyType
  <2> QED
    BY <2>1, SeqMonotonic
<1> DEFINE T == {k \in 0..M : h[N + k] = f[N] \o g[k] /\ g[k] \in Seq(A)}
<1> HIDE DEF N, M, u
<1>6. 0 \in T
  <2>1. h[N] = f[N]
    <3>1. N <= Len(u)
      BY <1>1
    <3> QED
      BY <1>1, <1>2, <1>4, <3>1, KeptAgrees
  <2>2. g[0] = <<>>
    BY <1>1, <1>3, KeptValues
  <2>3. f[N] \o <<>> = f[N]
    BY <1>5, ConcatEmptySeq
  <2>4. N + 0 = N /\ <<>> \in Seq(A) /\ 0 \in 0..M
    BY <1>1
  <2> QED
    BY <2>1, <2>2, <2>3, <2>4
<1>7. ASSUME NEW k \in 0..(M - 1), k \in T PROVE k + 1 \in T
  <2>1. k + 1 \in 1..M /\ N + k \in 0..(Len(u) - 1) /\ N + (k + 1) = N + k + 1
    BY <1>1
  <2>2. /\ t[k + 1] \in S => g[k + 1] = Append(g[k], t[k + 1])
        /\ t[k + 1] \notin S => g[k + 1] = g[k]
        /\ u[N + k + 1] \in S => h[N + k + 1] = Append(h[N + k], u[N + k + 1])
        /\ u[N + k + 1] \notin S => h[N + k + 1] = h[N + k]
    <3>1. \A n \in 0..(M - 1) :
            /\ t[n + 1] \in S => g[n + 1] = Append(g[n], t[n + 1])
            /\ t[n + 1] \notin S => g[n + 1] = g[n]
      BY <1>1, <1>3, KeptValues
    <3>2. \A n \in 0..(Len(u) - 1) :
            /\ u[n + 1] \in S => h[n + 1] = Append(h[n], u[n + 1])
            /\ u[n + 1] \notin S => h[n + 1] = h[n]
      BY <1>1, <1>4, KeptValues
    <3> QED
      BY <2>1, <3>1, <3>2, Zenon
  <2>3. u[N + k + 1] = t[k + 1] /\ t[k + 1] \in A
    <3>1. u[N + (k + 1)] = t[k + 1] /\ t[k + 1] \in A
      BY <1>1, <2>1, Zenon
    <3> QED
      BY <2>1, <3>1, Zenon
  <2>4. h[N + k] = f[N] \o g[k] /\ g[k] \in Seq(A)
    BY <1>7
  <2>5. Append(f[N] \o g[k], t[k + 1]) = f[N] \o Append(g[k], t[k + 1])
    <3>1. EndsAlike(f[N], g[k], t[k + 1])
      BY <1>5, <2>3, <2>4, AppendToConcat, Zenon
    <3> QED
      BY <3>1 DEF EndsAlike
  <2>6. /\ h[N + k + 1] = f[N] \o g[k + 1]
        /\ g[k + 1] \in Seq(A)
    <3>1. CASE t[k + 1] \in S
      <4>1. h[N + k + 1] = f[N] \o g[k + 1]
        BY <2>2, <2>3, <2>4, <2>5, <3>1, Zenon
      <4>2. g[k + 1] = Append(g[k], t[k + 1])
        BY <2>2, <3>1, Zenon
      <4> QED
        BY <2>3, <2>4, <4>1, <4>2, AppendProperties
    <3>2. CASE t[k + 1] \notin S
      BY <2>2, <2>3, <2>4, <3>2, Zenon
    <3> QED
      BY <3>1, <3>2
  <2>7. k + 1 \in 0..M
    BY <1>1
  <2> QED
    BY <2>1, <2>6, <2>7
<1> HIDE DEF T
<1>8. 0..M \subseteq T
  BY <1>1, <1>6, <1>7, UpTo
<1>9. h[N + M] = f[N] \o g[M]
  <2>1. M \in 0..M
    BY <1>1
  <2> QED
    BY <1>8, <2>1 DEF T
<1> QED
  BY <1>1, <1>2, <1>3, <1>4, <1>9 DEF u

----------------------------------------------------------------------------
(* The inductive invariant                                                 *)

\* The records of the file.
Kept == Parsed(lines)

Before(r, q) == r.id < q.id /\ r.seq < q.seq

InOrder(s) == \A i, j \in 1..Len(s) : i < j => Before(s[i], s[j])

Below(s, n) == \A i \in 1..Len(s) : s[i].seq < n

\* s and then c are in order, and hold what n calls can have claimed.
Ordered(s, c, n) ==
  /\ InOrder(s) /\ InOrder(c)
  /\ \A i \in 1..Len(s), j \in 1..Len(c) : Before(s[i], c[j])
  /\ \A i \in 1..Len(s) : s[i].id <= n /\ s[i].seq <= n
  /\ \A i \in 1..Len(c) : c[i].id <= n

\* Ids and numbers are claimed in order, for the file first and then for the
\* chain; the counter may fall behind the calls, never behind the file.
ClaimedInOrder ==
  /\ Ordered(Kept, chain, calls)
  /\ nextSeq <= calls + 1
  /\ up => Below(Kept, nextSeq) /\ Below(chain, nextSeq)
  /\ ~up => chain = <<>>

\* Positions of the ids in a that no record of s has.
Lost(a, s) == {i \in DOMAIN a : a[i] \notin Range(IdsIn(s))}

\* Appends resolve in order, before those in the chain; each one lost cost a
\* torn write, and the torn line of a running process will cost one more.
AckedInOrder ==
  /\ \A i, j \in 1..Len(acked) : i < j => acked[i] < acked[j]
  /\ \A i \in 1..Len(acked) : acked[i] <= calls
  /\ \A i \in 1..Len(acked), j \in 1..Len(chain) : acked[i] < chain[j].id
  /\ Cardinality(Lost(acked, Kept)) <= tornWrites
  /\ up /\ torn => Cardinality(Lost(acked, Kept)) < tornWrites

\* p is the projection of the first m records of s.
Projects(p, s, m) ==
  /\ p \in Projections
  /\ m \in 0..Len(s)
  /\ Len(p.folded) = m
  /\ \A i \in 1..m : p.folded[i] = s[i].id
  /\ m = 0 => p.lastSeq = 0 /\ p.lastIds = {}
  /\ m > 0 => p.lastSeq = s[m].seq /\ p.lastIds = {s[m].id}

ProjectsSome(p, s) == \E m \in 0..Len(s) : Projects(p, s, m)

\* Every checkpoint, written or being written, is the projection of a prefix of
\* the log, and is named after the last record of it.
CheckpointsProject ==
  /\ saving # Unreadable => ProjectsSome(saving, Kept)
  /\ \A s \in DOMAIN ckpts :
       ckpts[s] # Unreadable => /\ ProjectsSome(ckpts[s], Kept)
                                /\ ckpts[s].lastSeq = s

IInv == /\ TypeOK
        /\ ClaimedInOrder
        /\ AckedInOrder
        /\ FollowerMissesNothing
        /\ CheckpointsProject

----------------------------------------------------------------------------
(* The file and the chain                                                  *)

Line == Records \cup {Bad}

\* A line that does not parse is no record.
LEMMA BadIsNoRecord == Bad \notin Records
BY LogAssumption DEF Bad, Records

\* What a reader finds are records, at most one in each line.
LEMMA ParsedType ==
  ASSUME NEW ls \in Seq(Line)
  PROVE  /\ Parsed(ls) \in Seq(Records)
         /\ Len(Parsed(ls)) <= Len(ls)
         /\ Skipped(ls) \in Nat
<1>1. /\ Only(ls, Records) \in Seq(Line \cap Records)
      /\ Len(Only(ls, Records)) <= Len(ls)
  BY OnlyType
<1>2. Line \cap Records = Records
  BY DEF Line
<1>3. Len(Parsed(ls)) \in Nat /\ Len(ls) \in Nat
  BY <1>1, <1>2 DEF Parsed
<1> QED
  BY <1>1, <1>2, <1>3 DEF Parsed, Skipped

\* A record lands as itself, or as a bad line after a torn one.
LEMMA LandedParsed ==
  ASSUME lines \in Seq(Line), NEW r \in Records
  PROVE  /\ Landed(r) \in Seq(Line)
         /\ torn => Parsed(Landed(r)) = Kept
         /\ ~torn => Parsed(Landed(r)) = Append(Kept, r)
<1>1. r \in Line /\ Bad \in Line
  BY DEF Line
<1>2. /\ Append(lines, r) \in Seq(Line)
      /\ Append(lines, Bad) \in Seq(Line)
  BY <1>1, AppendProperties
<1>3. CASE torn
  <2>1. Parsed(Append(lines, Bad)) = Kept
    BY <1>1, BadIsNoRecord, OnlyAppend DEF Parsed, Kept
  <2> QED
    BY <1>2, <1>3, <2>1 DEF Landed
<1>4. CASE ~torn
  <2>1. Parsed(Append(lines, r)) = Append(Kept, r)
    BY <1>1, OnlyAppend DEF Parsed, Kept
  <2> QED
    BY <1>2, <1>4, <2>1 DEF Landed
<1> QED
  BY <1>3, <1>4

\* The chain without its oldest write.
LEMMA HeadRemoved ==
  ASSUME NEW A, NEW s \in Seq(A), s # <<>>
  PROVE  /\ RemoveAt(s, 1) \in Seq(A)
         /\ Len(RemoveAt(s, 1)) = Len(s) - 1
         /\ \A i \in 1..(Len(s) - 1) : RemoveAt(s, 1)[i] = s[i + 1]
         /\ s[1] \in A /\ Len(s) \in Nat /\ 1 \in 1..Len(s)
<1>1. RemoveAt(s, 1) = <<>> \o SubSeq(s, 2, Len(s))
  <2>1. SubSeq(s, 1, 1 - 1) = <<>>
    BY SubSeqProperties, EmptySeq
  <2> QED
    BY <2>1 DEF RemoveAt
<1>2. /\ SubSeq(s, 2, Len(s)) \in Seq(A)
      /\ Len(SubSeq(s, 2, Len(s))) = Len(s) - 1
      /\ \A i \in 1..(Len(s) - 1) : SubSeq(s, 2, Len(s))[i] = s[i + 1]
  <2>1. Len(s) \in Nat /\ Len(s) >= 1 /\ Len(s) - 2 + 1 = Len(s) - 1
    BY EmptySeq
  <2>2. SubSeq(s, 2, Len(s)) \in Seq(A)
    OBVIOUS
  <2>3. Len(SubSeq(s, 2, Len(s))) = Len(s) - 1
    BY <2>1
  <2>4. \A i \in 1..(Len(s) - 1) : SubSeq(s, 2, Len(s))[i] = s[i + 1]
    BY <2>1
  <2> QED
    BY <2>2, <2>3, <2>4
<1>3. <<>> \o SubSeq(s, 2, Len(s)) = SubSeq(s, 2, Len(s))
  BY <1>2, ConcatEmptySeq
<1>4. s[1] \in A /\ Len(s) \in Nat /\ 1 \in 1..Len(s)
  BY EmptySeq
<1> QED
  BY <1>1, <1>2, <1>3, <1>4

\* A nonempty set of numbers with a bound has a greatest one.
LEMMA MaxIsGreatest ==
  ASSUME NEW M \in Nat, NEW T \in SUBSET (0..M), T # {}
  PROVE  Max(T) \in T /\ \A y \in T : y <= Max(T)
<1> DEFINE D == {M - x : x \in T}
<1>0. \A x \in T : x \in Nat /\ M - x \in Nat
  OBVIOUS
<1>1. D \in SUBSET Nat /\ D # {}
  <2>1. \A d \in D : d \in Nat
    BY <1>0
  <2>2. PICK x : x \in T
    OBVIOUS
  <2>3. M - x \in D
    BY <2>2
  <2> QED
    BY <2>1, <2>3
<1>2. PICK d \in D : \A e \in D : d <= e
  <2> HIDE DEF D
  <2> QED
    BY <1>1, Least
<1>3. PICK x \in T : d = M - x
  BY <1>2
<1>4. ASSUME NEW y \in T PROVE x >= y
  <2>1. M - y \in D
    OBVIOUS
  <2>2. M - x <= M - y
    BY <1>2, <1>3, <2>1
  <2>3. x \in Nat /\ y \in Nat
    OBVIOUS
  <2> QED
    BY <2>2, <2>3
<1>5. \E z \in T : \A y \in T : z >= y
  BY <1>4
<1>6. Max(T) \in T /\ \A y \in T : Max(T) >= y
  BY <1>5 DEF Max
<1>7. T \subseteq Nat
  OBVIOUS
<1> QED
  BY <1>6, <1>7

\* open() finds a number that no record has, and no more than one above.
LEMMA MaxSeqBounds ==
  ASSUME NEW s \in Seq(Records)
  PROVE  /\ MaxSeq(s) \in 0..MaxAppends
         /\ \A i \in 1..Len(s) : s[i].seq <= MaxSeq(s)
         /\ MaxSeq(s) # 0 => \E i \in 1..Len(s) : s[i].seq = MaxSeq(s)
<1>1. CASE s = <<>>
  <2>1. MaxSeq(s) = 0 /\ 1..Len(s) = {}
    BY <1>1 DEF MaxSeq
  <2> QED
    BY <2>1, LogAssumption
<1>2. CASE s # <<>>
  <2> DEFINE T == {s[i].seq : i \in 1..Len(s)}
  <2>1. T \in SUBSET (0..MaxAppends)
    <3>1. \A r \in Records : r.seq \in 0..MaxAppends
      BY LogAssumption DEF Records
    <3>2. \A i \in 1..Len(s) : s[i] \in Records
      BY ElementOfSeq
    <3> QED
      BY <3>1, <3>2
  <2>2. T # {}
    <3>1. 1 \in 1..Len(s)
      BY <1>2, HeadRemoved
    <3> QED
      BY <3>1
  <2>3. MaxSeq(s) = Max(T)
    BY <1>2 DEF MaxSeq
  <2>4. Max(T) \in T /\ \A y \in T : y <= Max(T)
    <3> HIDE DEF T
    <3> QED
      BY <2>1, <2>2, LogAssumption, MaxIsGreatest
  <2>5. PICK i \in 1..Len(s) : Max(T) = s[i].seq
    BY <2>4
  <2>6. \A j \in 1..Len(s) : s[j].seq <= Max(T)
    BY <2>4
  <2> HIDE DEF T
  <2> QED
    BY <2>1, <2>3, <2>4, <2>5, <2>6
<1> QED
  BY <1>1, <1>2

----------------------------------------------------------------------------
(* Projections                                                             *)

\* Only of a sequence that is in S is the sequence.
LEMMA OnlyAll ==
  ASSUME NEW A, NEW S, NEW s \in Seq(A), \A i \in 1..Len(s) : s[i] \in S
  PROVE  Only(s, S) = s
<1> DEFINE N == Len(s)
<1>1. N \in Nat
  OBVIOUS
<1>2. PICK f : IsKept(f, s, S, N) /\ Only(s, S) = f[N]
  BY <1>1, OnlyIsKept
<1> DEFINE T == {n \in 0..N : /\ f[n] \in Seq(A) /\ Len(f[n]) = n
                              /\ \A i \in 1..n : f[n][i] = s[i]}
<1> HIDE DEF N
<1>3. 0 \in T
  <2>1. f[0] = <<>>
    BY <1>1, <1>2, KeptValues
  <2>2. <<>> \in Seq(A) /\ Len(<<>>) = 0
    OBVIOUS
  <2>3. f[0] \in Seq(A) /\ Len(f[0]) = 0 /\ 0 \in 0..N /\ 1..0 = {}
    BY <1>1, <2>1, <2>2
  <2> QED
    BY <2>3
<1>4. ASSUME NEW n \in 0..(N - 1), n \in T PROVE n + 1 \in T
  <2>1. n + 1 \in 1..N /\ n + 1 \in 0..N
    BY <1>1
  <2> DEFINE q == f[n]
             x == s[n + 1]
  <2>2. f[n + 1] = Append(q, x)
    <3>1. s[n + 1] \in S
      BY <2>1 DEF N
    <3> QED
      BY <1>1, <1>2, <3>1, KeptValues
  <2>3. q \in Seq(A) /\ Len(q) = n /\ x \in A
    BY <1>4, <2>1 DEF N
  <2>4. \A i \in 1..n : q[i] = s[i]
    BY <1>4
  <2> HIDE DEF q
  <2>5. /\ Append(q, x) \in Seq(A) /\ Len(Append(q, x)) = n + 1
        /\ \A i \in 1..n : Append(q, x)[i] = q[i]
        /\ Append(q, x)[n + 1] = x
    BY <2>3, AppendProperties
  <2>6. \A i \in 1..(n + 1) : Append(q, x)[i] = s[i]
    <3> TAKE i \in 1..(n + 1)
    <3>1. CASE i = n + 1
      BY <2>5, <3>1
    <3>2. CASE i # n + 1
      <4>1. i \in 1..n
        BY <3>2
      <4> QED
        BY <2>4, <2>5, <4>1
    <3> QED
      BY <3>1, <3>2
  <2> QED
    BY <2>1, <2>2, <2>5, <2>6
<1> HIDE DEF T
<1>5. 0..N \subseteq T
  BY <1>1, <1>3, <1>4, UpTo
<1>6. f[N] \in Seq(A) /\ Len(f[N]) = N /\ \A i \in 1..N : f[N][i] = s[i]
  <2>1. N \in 0..N
    BY <1>1
  <2> QED
    BY <1>5, <2>1 DEF T
<1>7. f[N] = s
  BY <1>6, SeqEqual DEF N
<1> QED
  BY <1>2, <1>7

\* Only of a sequence that is not in S is empty.
LEMMA OnlyNone ==
  ASSUME NEW A, NEW S, NEW s \in Seq(A), \A i \in 1..Len(s) : s[i] \notin S
  PROVE  Only(s, S) = <<>>
<1> DEFINE N == Len(s)
<1>1. N \in Nat
  OBVIOUS
<1>2. PICK f : IsKept(f, s, S, N) /\ Only(s, S) = f[N]
  BY <1>1, OnlyIsKept
<1> DEFINE T == {n \in 0..N : f[n] = <<>>}
<1>3. 0 \in T
  BY <1>1, <1>2, KeptValues
<1>4. ASSUME NEW n \in 0..(N - 1), n \in T PROVE n + 1 \in T
  <2>1. n + 1 \in 1..N /\ n + 1 \in 0..N
    BY <1>1
  <2>2. s[n + 1] \notin S
    BY <2>1
  <2>3. f[n + 1] = f[n]
    BY <1>1, <1>2, <2>2, KeptValues
  <2> QED
    BY <1>4, <2>1, <2>3
<1> HIDE DEF T
<1>5. 0..N \subseteq T
  BY <1>1, <1>3, <1>4, UpTo
<1> QED
  BY <1>1, <1>2, <1>5 DEF T

\* What a base has folded already is not folded again ...
LEMMA FoldOneSame ==
  ASSUME NEW s, NEW p, NEW m \in Nat \ {0}, Projects(p, s, m)
  PROVE  FoldOne(p, s[m]) = p
<1>1. s[m].seq = p.lastSeq /\ s[m].id \in p.lastIds
  BY DEF Projects
<1> QED
  BY <1>1 DEF FoldOne, IsAlreadyFolded

\* ... and the next record is folded.
LEMMA FoldOneNext ==
  ASSUME NEW s \in Seq(Records), InOrder(s), NEW p, NEW m \in Nat,
         m + 1 \in 1..Len(s), Projects(p, s, m)
  PROVE  Projects(FoldOne(p, s[m + 1]), s, m + 1)
<1> DEFINE r == s[m + 1]
           q == [p EXCEPT !.lastSeq = r.seq, !.lastIds = {r.id},
                          !.folded = Append(p.folded, r.id)]
<1>1. /\ r \in Records /\ r.id \in 1..MaxAppends /\ r.seq \in 1..MaxAppends
      /\ r.id \in Nat /\ r.seq \in Nat /\ r.seq > 0
  <2>1. r \in Records
    BY ElementOfSeq
  <2> HIDE DEF r
  <2> QED
    BY <2>1, LogAssumption DEF Records
<1>2. /\ p \in Projections /\ p.lastSeq \in 0..MaxAppends
      /\ p.folded \in Seq(0..MaxAppends)
  BY DEF Projects, Projections
<1>3. r.seq > p.lastSeq
  <2>1. CASE m = 0
    BY <1>1, <2>1 DEF Projects
  <2>2. CASE m # 0
    <3>1. p.lastSeq = s[m].seq
      BY <2>2 DEF Projects
    <3>2. m \in 1..Len(s) /\ m < m + 1
      BY <2>2
    <3>3. s[m].seq < r.seq
      BY <3>2 DEF InOrder, Before
    <3>4. s[m].seq \in Nat
      BY <1>2, <3>1, LogAssumption
    <3> QED
      BY <1>1, <3>1, <3>3, <3>4
  <2> QED
    BY <2>1, <2>2
<1> HIDE DEF r
<1>4. FoldOne(p, r) = q
  <2>1. ~IsAlreadyFolded(p, r)
    BY <1>1, <1>2, <1>3, LogAssumption DEF IsAlreadyFolded
  <2> QED
    BY <1>3, <2>1 DEF FoldOne
<1>5. /\ Append(p.folded, r.id) \in Seq(0..MaxAppends)
      /\ Len(Append(p.folded, r.id)) = Len(p.folded) + 1
      /\ \A i \in 1..Len(p.folded) : Append(p.folded, r.id)[i] = p.folded[i]
      /\ Append(p.folded, r.id)[Len(p.folded) + 1] = r.id
  <2>1. r.id \in 0..MaxAppends
    BY <1>1
  <2> DEFINE g == p.folded
             x == r.id
  <2>2. g \in Seq(0..MaxAppends) /\ x \in 0..MaxAppends
    BY <1>2, <2>1
  <2> HIDE DEF g, x
  <2>3. /\ Append(g, x) \in Seq(0..MaxAppends) /\ Len(Append(g, x)) = Len(g) + 1
        /\ \A i \in 1..Len(g) : Append(g, x)[i] = g[i]
        /\ Append(g, x)[Len(g) + 1] = x
    BY <2>2, AppendProperties
  <2> QED
    BY <2>3 DEF g, x
<1>6. /\ q.lastSeq = r.seq /\ q.lastIds = {r.id}
      /\ q.folded = Append(p.folded, r.id)
      /\ q \in Projections
  <2> DEFINE g == Append(p.folded, r.id)
             a == r.seq
             b == {r.id}
  <2>1. /\ a \in 0..MaxAppends /\ b \in SUBSET (1..MaxAppends)
        /\ g \in Seq(0..MaxAppends)
    BY <1>1, <1>5, LogAssumption
  <2> HIDE DEF g, a, b
  <2>2. q = [p EXCEPT !.lastSeq = a, !.lastIds = b, !.folded = g]
    BY DEF g, a, b
  <2> DEFINE e == [p EXCEPT !.lastSeq = a, !.lastIds = b, !.folded = g]
  <2>3. e \in Projections
    BY <1>2, <2>1 DEF Projections
  <2>4. e.lastSeq = a /\ e.lastIds = b /\ e.folded = g
    BY <1>2 DEF Projections
  <2> QED
    BY <2>2, <2>3, <2>4 DEF g, a, b
<1>7. Len(q.folded) = m + 1 /\ \A i \in 1..(m + 1) : q.folded[i] = s[i].id
  <2>1. Len(p.folded) = m /\ \A i \in 1..m : p.folded[i] = s[i].id
    BY DEF Projects
  <2>2. ASSUME NEW i \in 1..(m + 1) PROVE q.folded[i] = s[i].id
    <3>1. CASE i = m + 1
      BY <1>5, <1>6, <2>1, <3>1 DEF r
    <3>2. CASE i # m + 1
      <4>1. i \in 1..m
        BY <3>2
      <4> QED
        BY <1>5, <1>6, <2>1, <4>1
    <3> QED
      BY <3>1, <3>2
  <2> QED
    BY <1>5, <1>6, <2>1, <2>2
<1>8. q.lastSeq = s[m + 1].seq /\ q.lastIds = {s[m + 1].id}
  BY <1>6 DEF r
<1> HIDE DEF q
<1>9. Projects(q, s, m + 1)
  <2>1. m + 1 # 0 /\ m + 1 \in 0..Len(s)
    OBVIOUS
  <2> QED
    BY <1>6, <1>7, <1>8, <2>1 DEF Projects
<1> QED
  BY <1>4, <1>9 DEF r

\* The loop of reduceEvents over the first k events, from b.
IsFolded(f, events, b, k) ==
  f = [n \in 0..k |-> IF n = 0 THEN b ELSE FoldOne(f[n - 1], events[n])]

\* The loop can be run.
LEMMA FoldedExists ==
  ASSUME NEW N \in Nat, NEW s, NEW b
  PROVE  \E f : IsFolded(f, s, b, N)
<1> DEFINE T == {k \in 0..N : \E f : IsFolded(f, s, b, k)}
<1>1. 0 \in T
  <2> DEFINE f == [n \in 0..0 |-> b]
  <2>1. IsFolded(f, s, b, 0)
    BY DEF IsFolded
  <2> QED
    BY <2>1
<1>2. ASSUME NEW k \in 0..(N - 1), k \in T PROVE k + 1 \in T
  <2>1. PICK f : IsFolded(f, s, b, k)
    BY <1>2
  <2> DEFINE last == FoldOne(f[k], s[k + 1])
             g == [n \in 0..(k + 1) |-> IF n = k + 1 THEN last ELSE f[n]]
  <2> HIDE DEF last
  <2>2. f[0] = b /\ \A n \in 1..k : f[n] = FoldOne(f[n - 1], s[n])
    <3>1. \A n \in 0..k : f[n] = IF n = 0 THEN b ELSE FoldOne(f[n - 1], s[n])
      BY <2>1, Zenon DEF IsFolded
    <3>2. 0 \in 0..k /\ \A n \in 1..k : n \in 0..k /\ n # 0
      OBVIOUS
    <3> QED
      BY <3>1, <3>2, Zenon
  <2>3. /\ g[0] = f[0]
        /\ \A n \in 1..k : g[n] = f[n] /\ g[n - 1] = f[n - 1]
        /\ g[k + 1] = last /\ g[k] = f[k]
    OBVIOUS
  <2> HIDE DEF g
  <2>4. \A n \in 0..(k + 1) :
          g[n] = IF n = 0 THEN b ELSE FoldOne(g[n - 1], s[n])
    <3> TAKE n \in 0..(k + 1)
    <3>1. CASE n = 0
      BY <2>2, <2>3, <3>1
    <3>2. CASE n \in 1..k
      <4>1. n # 0
        BY <3>2
      <4> QED
        BY <2>2, <2>3, <3>2, <4>1, Zenon
    <3>3. CASE n = k + 1
      <4>1. n - 1 = k /\ n # 0
        BY <3>3
      <4> QED
        BY <2>3, <3>3, <4>1, Zenon DEF last
    <3> QED
      BY <3>1, <3>2, <3>3
  <2>5. IsFolded(g, s, b, k + 1)
    <3>1. g = [n \in 0..(k + 1) |-> g[n]]
      BY DEF g
    <3> QED
      BY <2>4, <3>1, Zenon DEF IsFolded
  <2>6. k + 1 \in 0..N
    OBVIOUS
  <2> QED
    BY <2>5, <2>6
<1> HIDE DEF T
<1>3. 0..N \subseteq T
  BY <1>1, <1>2, UpTo
<1> QED
  BY <1>3 DEF T

\* ... and reduceEvents returns what it ends with.
LEMMA ReduceIsFolded ==
  ASSUME NEW s, NEW base, NEW skipped, Len(s) \in Nat
  PROVE  \E f : /\ IsFolded(f, s, [base EXCEPT !.skipped = @ + skipped], Len(s))
                /\ ReduceEvents(s, base, skipped) = f[Len(s)]
<1> DEFINE b == [base EXCEPT !.skipped = @ + skipped]
           f == CHOOSE f : IsFolded(f, s, b, Len(s))
<1>1. ReduceEvents(s, base, skipped) = f[Len(s)]
  BY Zenon DEF ReduceEvents, IsFolded
<1> HIDE DEF b
<1>2. IsFolded(f, s, b, Len(s))
  BY FoldedExists
<1> QED
  BY <1>1, <1>2 DEF b

\* What the loop has, step by step.
LEMMA FoldedValues ==
  ASSUME NEW f, NEW s, NEW b, NEW k \in Nat, IsFolded(f, s, b, k)
  PROVE  f[0] = b /\ \A n \in 0..(k - 1) : f[n + 1] = FoldOne(f[n], s[n + 1])
<1>1. \A n \in 0..k : f[n] = IF n = 0 THEN b ELSE FoldOne(f[n - 1], s[n])
  BY Zenon DEF IsFolded
<1>2. f[0] = b
  <2>1. 0 \in 0..k
    OBVIOUS
  <2> QED
    BY <1>1, <2>1, Zenon
<1>3. ASSUME NEW n \in 0..(k - 1) PROVE f[n + 1] = FoldOne(f[n], s[n + 1])
  <2>1. n + 1 \in 0..k /\ n + 1 # 0 /\ n + 1 - 1 = n
    OBVIOUS
  <2> QED
    BY <1>1, <2>1
<1> QED
  BY <1>2, <1>3

\* The base of a load is the projection of a prefix of the log.
LEMMA BaseProjects ==
  ASSUME Kept \in Seq(Records), DOMAIN ckpts \subseteq 0..MaxAppends,
         CheckpointsProject
  PROVE  ProjectsSome(Base, Kept)
<1>1. CASE Readable = {}
  <2>1. EmptyProjection \in Projections
    <3>1. <<>> \in Seq(0..MaxAppends) /\ 0 \in 0..MaxAppends
      BY LogAssumption
    <3> QED
      BY <3>1 DEF EmptyProjection, Projections
  <2>2. 0 \in 0..Len(Kept) /\ 1..0 = {} /\ Len(<<>>) = 0
    OBVIOUS
  <2>3. Projects(EmptyProjection, Kept, 0)
    BY <2>1, <2>2 DEF Projects, EmptyProjection
  <2> QED
    BY <1>1, <2>2, <2>3 DEF Base, ProjectsSome
<1>2. CASE Readable # {}
  <2>1. Readable \in SUBSET (0..MaxAppends)
    BY DEF Readable
  <2>2. Max(Readable) \in Readable
    BY <1>2, <2>1, LogAssumption, MaxIsGreatest
  <2>3. Max(Readable) \in DOMAIN ckpts /\ ckpts[Max(Readable)] # Unreadable
    BY <2>2 DEF Readable
  <2> QED
    BY <1>2, <2>3 DEF Base, CheckpointsProject
<1> QED
  BY <1>1, <1>2

\* e holds the records of s after the first off.
IsTail(e, s, off) == /\ e \in Seq(Records)
                     /\ Len(e) = Len(s) - off
                     /\ \A i \in 1..(Len(s) - off) : e[i] = s[off + i]

\* The records a load folds into a base that holds k of them: those after the
\* k-th, and the k-th itself.
LEMMA SinceBase ==
  ASSUME NEW s \in Seq(Records), InOrder(s),
         NEW k \in 0..Len(s), NEW p, Projects(p, s, k),
         NEW off, k = 0 => off = 0, k # 0 => off = k - 1
  PROVE  IsTail(Only(s, Since(p.lastSeq)), s, off)
<1> DEFINE S == Since(p.lastSeq)
<1>1. \A r \in Records : r.seq \in Nat
  BY LogAssumption DEF Records
<1>2. \A i \in 1..Len(s) : s[i] \in Records
  BY ElementOfSeq
<1>3. CASE k = 0
  <2>1. p.lastSeq = 0
    BY <1>3 DEF Projects
  <2>2. \A i \in 1..Len(s) : s[i] \in S
    BY <1>1, <1>2, <2>1 DEF Since
  <2> HIDE DEF S
  <2>3. Only(s, S) = s
    BY <2>2, OnlyAll
  <2>4. off = 0 /\ Len(s) - off = Len(s) /\ \A i \in 1..Len(s) : off + i = i
    BY <1>3
  <2> QED
    BY <2>3, <2>4 DEF S, IsTail
<1>4. CASE k # 0
  <2> DEFINE a == SubSeq(s, 1, k - 1)
             b == SubSeq(s, k, Len(s))
  <2>1. k \in 1..Len(s) /\ off = k - 1 /\ off \in Nat /\ Len(s) \in Nat
    BY <1>4
  <2>2. p.lastSeq = s[k].seq
    BY <1>4, <2>1 DEF Projects
  <2>3. /\ a \in Seq(Records) /\ Len(a) = k - 1
        /\ \A i \in 1..(k - 1) : a[i] = s[i]
    BY <2>1
  <2>4. /\ b \in Seq(Records) /\ Len(b) = Len(s) - off
        /\ \A i \in 1..(Len(s) - off) : b[i] = s[off + i]
    <3>1. b \in Seq(Records)
      BY <2>1
    <3>2. Len(b) = Len(s) - off
      BY <2>1
    <3>3. \A i \in 1..(Len(s) - off) : b[i] = s[off + i]
      BY <2>1
    <3> QED
      BY <3>1, <3>2, <3>3
  <2>5. a \o b = s
    <3>1. SubSeq(s, 1, k - 1) \o SubSeq(s, k - 1 + 1, Len(s))
            = SubSeq(s, 1, Len(s))
      <4>1. /\ 1 \in 1..(Len(s) + 1) /\ k - 1 \in (1 - 1)..Len(s)
            /\ Len(s) \in (k - 1)..Len(s)
        BY <2>1
      <4> QED
        BY <4>1, ConcatAdjacentSubSeq
    <3>2. k - 1 + 1 = k /\ SubSeq(s, 1, Len(s)) = s
      BY <2>1, SubSeqFull
    <3> QED
      BY <3>1, <3>2
  <2>6. ASSUME NEW i \in 1..Len(a) PROVE a[i] \notin S
    <3>1. i \in 1..Len(s) /\ i < k /\ a[i] = s[i]
      BY <2>1, <2>3
    <3>2. s[i].seq < s[k].seq
      BY <2>1, <3>1 DEF InOrder, Before
    <3>3. s[i].seq \in Nat /\ s[k].seq \in Nat
      BY <1>1, <1>2, <2>1, <3>1
    <3> QED
      BY <2>2, <3>1, <3>2, <3>3 DEF Since
  <2>7. ASSUME NEW i \in 1..Len(b) PROVE b[i] \in S
    <3>1. off + i \in 1..Len(s) /\ (off + i = k \/ k < off + i)
          /\ b[i] = s[off + i]
      BY <2>1, <2>4
    <3>2. s[k].seq <= s[off + i].seq
      <4>1. s[off + i].seq \in Nat /\ s[k].seq \in Nat
        BY <1>1, <1>2, <2>1, <3>1
      <4>2. k < off + i => s[k].seq < s[off + i].seq
        BY <2>1, <3>1 DEF InOrder, Before
      <4> QED
        BY <3>1, <4>1, <4>2
    <3>3. s[off + i] \in Records /\ s[off + i].seq \in Nat /\ s[k].seq \in Nat
      BY <1>1, <1>2, <2>1, <3>1
    <3> QED
      BY <2>2, <3>1, <3>2, <3>3 DEF Since
  <2> HIDE DEF S, a, b
  <2>8. Only(a, S) = <<>>
    BY <2>3, <2>6, OnlyNone
  <2>9. Only(b, S) = b
    BY <2>4, <2>7, OnlyAll
  <2>10. Only(a \o b, S) = Only(a, S) \o Only(b, S)
    BY <2>3, <2>4, OnlyConcat
  <2>11. <<>> \o b = b
    BY <2>4, ConcatEmptySeq
  <2>12. Only(s, S) = b
    BY <2>5, <2>8, <2>9, <2>10, <2>11
  <2> QED
    BY <2>4, <2>12 DEF S, IsTail
<1> QED
  BY <1>3, <1>4

\* A load gives the projection of the whole log.
LEMMA LoadProjects ==
  ASSUME lines \in Seq(Line), DOMAIN ckpts \subseteq 0..MaxAppends,
         InOrder(Kept), CheckpointsProject
  PROVE  Projects(Load, Kept, Len(Kept))
<1>1. Kept \in Seq(Records) /\ Len(Kept) \in Nat /\ Skipped(lines) \in Nat
  BY ParsedType DEF Kept
<1>2. PICK k \in 0..Len(Kept) : Projects(Base, Kept, k)
  BY <1>1, BaseProjects DEF ProjectsSome
<1> DEFINE s == Kept
           e == Only(s, Since(Base.lastSeq))
           b == [Base EXCEPT !.skipped = @ + Skipped(lines)]
           off == IF k = 0 THEN 0 ELSE k - 1
           L == Len(s)
<1>3. Projects(b, s, k)
  <2>1. Base \in Projections /\ Skipped(lines) \in Nat
    BY <1>1, <1>2 DEF Projects
  <2> DEFINE p == Base
             z == p.skipped + Skipped(lines)
             q == [p EXCEPT !.skipped = z]
  <2>2. p \in Projections /\ z \in Nat
    <3>1. Base.skipped \in Nat
      BY <2>1 DEF Projections
    <3> QED
      BY <2>1, <3>1
  <2>3. b = q
    OBVIOUS
  <2> HIDE DEF p, z
  <2>4. q \in Projections
    BY <2>2 DEF Projections
  <2>5. q.lastSeq = p.lastSeq /\ q.lastIds = p.lastIds /\ q.folded = p.folded
    BY <2>2 DEF Projections
  <2> HIDE DEF q, b
  <2>6. Projects(p, s, k)
    BY <1>2 DEF p
  <2>7. Projects(q, s, k)
    BY <2>4, <2>5, <2>6 DEF Projects
  <2> QED
    BY <2>3, <2>7
<1>4. /\ Len(e) = L - off
      /\ \A i \in 1..(L - off) : e[i] = s[off + i]
  <2>1. (k = 0 => off = 0) /\ (k # 0 => off = k - 1)
    OBVIOUS
  <2>2. k \in 0..Len(s) /\ Projects(Base, s, k) /\ InOrder(s)
        /\ s \in Seq(Records)
    BY <1>1, <1>2
  <2> HIDE DEF off, s, b, L
  <2>3. IsTail(e, s, off)
    BY <2>1, <2>2, SinceBase, Zenon
  <2> HIDE DEF e
  <2> QED
    BY <2>3 DEF IsTail, L
<1>5. /\ off \in Nat /\ L \in Nat /\ k \in 0..L /\ off <= L /\ L - off \in Nat
      /\ k <= off + (L - off) /\ off + (L - off) = L
      /\ off <= k /\ k <= off + 1 /\ (off = k => k = 0)
  BY <1>1, <1>2
<1>6. Load = ReduceEvents(e, Base, Skipped(lines))
  BY DEF Load, Kept
<1> HIDE DEF e
<1>7. PICK f : IsFolded(f, e, b, L - off) /\ Load = f[L - off]
  BY <1>4, <1>5, <1>6, ReduceIsFolded
<1> HIDE DEF b, off, L
<1>8. /\ f[0] = b
      /\ \A n \in 0..(L - off - 1) : f[n + 1] = FoldOne(f[n], e[n + 1])
  BY <1>5, <1>7, FoldedValues
<1> DEFINE T == {n \in 0..(L - off) :
                   Projects(f[n], s, IF off + n < k THEN k ELSE off + n)}
<1>9. 0 \in T
  <2>1. k = IF off + 0 < k THEN k ELSE off + 0
    BY <1>5
  <2>2. 0 \in 0..(L - off)
    BY <1>5
  <2>3. Projects(f[0], s, IF off + 0 < k THEN k ELSE off + 0)
    BY <1>3, <1>8, <2>1
  <2> QED
    BY <2>2, <2>3
<1>10. ASSUME NEW n \in 0..(L - off - 1), n \in T PROVE n + 1 \in T
  <2>1. f[n + 1] = FoldOne(f[n], e[n + 1]) /\ e[n + 1] = s[off + (n + 1)]
    <3>1. n + 1 \in 1..(L - off)
      BY <1>5
    <3> QED
      BY <1>4, <1>8, <3>1
  <2>2. Projects(f[n], s, IF off + n < k THEN k ELSE off + n)
    BY <1>10
  <2> HIDE DEF s
  <2>3. Projects(f[n + 1], s, IF off + (n + 1) < k THEN k ELSE off + (n + 1))
    <3>1. CASE off + n < k
      <4>1. off + (n + 1) = k /\ k \in Nat \ {0}
        BY <1>5, <3>1
      <4>2. Projects(f[n], s, k)
        BY <2>2, <3>1
      <4>3. f[n + 1] = f[n]
        BY <2>1, <4>1, <4>2, FoldOneSame
      <4>4. k = IF off + (n + 1) < k THEN k ELSE off + (n + 1)
        BY <4>1
      <4> QED
        BY <4>2, <4>3, <4>4
    <3>2. CASE ~(off + n < k)
      <4> DEFINE m == off + n
      <4>1. /\ m \in Nat /\ m + 1 \in 1..L /\ m + 1 = off + (n + 1)
            /\ m + 1 = IF off + (n + 1) < k THEN k ELSE off + (n + 1)
        BY <1>5, <3>2
      <4>2. Projects(f[n], s, m)
        BY <2>2, <3>2
      <4> HIDE DEF m
      <4>3. Projects(FoldOne(f[n], s[m + 1]), s, m + 1)
        BY <1>1, <4>1, <4>2, FoldOneNext DEF s, L
      <4> QED
        BY <2>1, <4>1, <4>3
    <3> QED
      BY <3>1, <3>2
  <2>4. n + 1 \in 0..(L - off)
    BY <1>5
  <2> QED
    BY <2>3, <2>4
<1> HIDE DEF T
<1>11. 0..(L - off) \subseteq T
  BY <1>5, <1>9, <1>10, UpTo
<1>12. Projects(f[L - off], s, L)
  <2>1. L - off \in T
    BY <1>5, <1>11
  <2>2. L = IF off + (L - off) < k THEN k ELSE off + (L - off)
    BY <1>5
  <2> QED
    BY <2>1, <2>2 DEF T
<1> QED
  BY <1>7, <1>12 DEF L

\* ... which holds each of its records once.
LEMMA WholeProjection ==
  ASSUME NEW s \in Seq(Records), NEW p, Projects(p, s, Len(s))
  PROVE  p.folded = IdsIn(s)
<1>1. \A i \in 1..Len(s) : s[i].id \in 0..MaxAppends
  <2>1. \A r \in Records : r.id \in 0..MaxAppends
    BY LogAssumption DEF Records
  <2> QED
    BY <2>1, ElementOfSeq
<1>2. /\ IdsIn(s) \in Seq(0..MaxAppends) /\ Len(IdsIn(s)) = Len(s)
      /\ \A i \in 1..Len(s) : IdsIn(s)[i] = s[i].id
  BY <1>1 DEF IdsIn
<1>3. p.folded \in Seq(0..MaxAppends)
  BY DEF Projects, Projections
<1>4. Len(p.folded) = Len(s) /\ \A i \in 1..Len(s) : p.folded[i] = s[i].id
  BY DEF Projects
<1> HIDE DEF IdsIn
<1> QED
  BY <1>2, <1>3, <1>4, SeqEqual

----------------------------------------------------------------------------
(* The order is kept                                                       *)

\* Ids and numbers are numbers.
LEMMA RecordTypes ==
  ASSUME NEW s \in Seq(Records)
  PROVE  /\ Len(s) \in Nat
         /\ \A i \in 1..Len(s) : /\ s[i] \in Records
                                 /\ s[i].id \in 1..MaxAppends
                                 /\ s[i].seq \in 1..MaxAppends
                                 /\ s[i].id \in Nat /\ s[i].seq \in Nat
<1>1. \A r \in Records : /\ r.id \in 1..MaxAppends /\ r.seq \in 1..MaxAppends
                         /\ r.id \in Nat /\ r.seq \in Nat
  BY LogAssumption DEF Records
<1>2. \A i \in 1..Len(s) : s[i] \in Records
  BY ElementOfSeq
<1> QED
  BY <1>1, <1>2

\* The log stays, or the oldest write has landed.
Grown(K, c, K2) == K2 = K \/ (c # <<>> /\ K2 = Append(K, c[1]))

\* The chain loses its oldest write, or all of them.
Shrunk(c, c2) == c2 = <<>> \/ (c # <<>> /\ c2 = RemoveAt(c, 1))

\* Each record was there, or is the oldest of the chain.
LEMMA GrownValues ==
  ASSUME NEW K \in Seq(Records), NEW c \in Seq(Records), NEW K2, Grown(K, c, K2)
  PROVE  /\ K2 \in Seq(Records) /\ Len(K) <= Len(K2)
         /\ \A i \in 1..Len(K) : K2[i] = K[i]
         /\ \A i \in 1..Len(K2) :
              \/ i \in 1..Len(K) /\ K2[i] = K[i]
              \/ i = Len(K) + 1 /\ K2[i] = c[1] /\ c # <<>>
<1>1. CASE K2 = K
  BY <1>1
<1>2. CASE c # <<>> /\ K2 = Append(K, c[1])
  <2> DEFINE x == c[1]
  <2>1. x \in Records
    BY <1>2, HeadRemoved
  <2> HIDE DEF x
  <2>2. /\ Append(K, x) \in Seq(Records) /\ Len(Append(K, x)) = Len(K) + 1
        /\ \A i \in 1..Len(K) : Append(K, x)[i] = K[i]
        /\ Append(K, x)[Len(K) + 1] = x
    BY <2>1, AppendProperties
  <2>3. Len(K) \in Nat
    OBVIOUS
  <2>4. ASSUME NEW i \in 1..Len(K2)
        PROVE  \/ i \in 1..Len(K) /\ K2[i] = K[i]
               \/ i = Len(K) + 1 /\ K2[i] = x
    <3>1. CASE i = Len(K) + 1
      BY <1>2, <2>2, <3>1 DEF x
    <3>2. CASE i # Len(K) + 1
      <4>1. i \in 1..Len(K)
        BY <1>2, <2>2, <2>3, <3>2 DEF x
      <4> QED
        BY <1>2, <2>2, <4>1 DEF x
    <3> QED
      BY <3>1, <3>2
  <2> QED
    BY <1>2, <2>2, <2>3, <2>4 DEF x
<1> QED
  BY <1>1, <1>2 DEF Grown

\* Each write that stays is one place nearer to its turn.
LEMMA ShrunkValues ==
  ASSUME NEW c \in Seq(Records), NEW c2, Shrunk(c, c2)
  PROVE  /\ c2 \in Seq(Records)
         /\ \A i \in 1..Len(c2) : /\ c # <<>> /\ c2[i] = c[i + 1]
                                  /\ i + 1 \in 1..Len(c) /\ 1 \in 1..Len(c)
<1>1. CASE c2 = <<>>
  <2>1. <<>> \in Seq(Records) /\ 1..Len(<<>>) = {}
    OBVIOUS
  <2> QED
    BY <1>1, <2>1
<1>2. CASE c # <<>> /\ c2 = RemoveAt(c, 1)
  <2>1. /\ c2 \in Seq(Records) /\ Len(c2) = Len(c) - 1 /\ Len(c) \in Nat
        /\ \A i \in 1..(Len(c) - 1) : c2[i] = c[i + 1]
        /\ 1 \in 1..Len(c)
    BY <1>2, HeadRemoved
  <2> QED
    BY <1>2, <2>1
<1> QED
  BY <1>1, <1>2 DEF Shrunk

\* The order survives a write that lands, or is dropped, or is lost with the
\* rest of the chain.
LEMMA OrderedMoves ==
  ASSUME NEW K \in Seq(Records), NEW c \in Seq(Records), NEW n \in Nat,
         NEW x \in Nat, x <= n + 1, Ordered(K, c, n), Below(K, x), Below(c, x),
         NEW K2, Grown(K, c, K2), NEW c2, Shrunk(c, c2)
  PROVE  /\ Ordered(K2, c2, n) /\ Below(K2, x) /\ Below(c2, x)
<1>1. /\ K2 \in Seq(Records)
      /\ \A i \in 1..Len(K2) :
           \/ i \in 1..Len(K) /\ K2[i] = K[i]
           \/ i = Len(K) + 1 /\ K2[i] = c[1] /\ 1 \in 1..Len(c)
  BY GrownValues, HeadRemoved
<1>2. /\ c2 \in Seq(Records)
      /\ \A i \in 1..Len(c2) : /\ c2[i] = c[i + 1]
                               /\ i + 1 \in 1..Len(c) /\ 1 \in 1..Len(c)
  BY ShrunkValues
<1>3. /\ InOrder(K) /\ InOrder(c)
      /\ \A i \in 1..Len(K), j \in 1..Len(c) : Before(K[i], c[j])
      /\ \A i \in 1..Len(K) : K[i].id <= n /\ K[i].seq <= n
      /\ \A i \in 1..Len(c) : c[i].id <= n
      /\ \A i \in 1..Len(K) : K[i].seq < x
      /\ \A i \in 1..Len(c) : c[i].seq < x
  BY DEF Ordered, Below
<1>4. Len(K) \in Nat /\ Len(c) \in Nat /\ Len(K2) \in Nat /\ Len(c2) \in Nat
  BY <1>1, <1>2
<1>5. \A i \in 1..Len(c) : c[i].seq <= n /\ c[i].id <= n
  <2>1. ASSUME NEW i \in 1..Len(c) PROVE c[i].seq <= n
    <3>1. c[i].seq \in Nat
      BY RecordTypes
    <3>2. c[i].seq < x
      BY <1>3
    <3> QED
      BY <3>1, <3>2
  <2> QED
    BY <1>3, <2>1
<1>6. InOrder(K2)
  <2>1. ASSUME NEW i \in 1..Len(K2), NEW j \in 1..Len(K2), i < j
        PROVE  Before(K2[i], K2[j])
    <3>1. CASE j \in 1..Len(K) /\ K2[j] = K[j]
      <4>1. i \in 1..Len(K) /\ K2[i] = K[i]
        BY <1>1, <1>4, <2>1, <3>1
      <4> QED
        BY <1>3, <2>1, <3>1, <4>1 DEF InOrder
    <3>2. CASE j = Len(K) + 1 /\ K2[j] = c[1] /\ 1 \in 1..Len(c)
      <4>1. i \in 1..Len(K) /\ K2[i] = K[i]
        BY <1>1, <1>4, <2>1, <3>2
      <4> QED
        BY <1>3, <3>2, <4>1
    <3> QED
      BY <1>1, <3>1, <3>2
  <2> QED
    BY <2>1 DEF InOrder
<1>7. InOrder(c2)
  <2>1. ASSUME NEW i \in 1..Len(c2), NEW j \in 1..Len(c2), i < j
        PROVE  Before(c2[i], c2[j])
    <3>1. /\ i + 1 \in 1..Len(c) /\ j + 1 \in 1..Len(c) /\ i + 1 < j + 1
          /\ c2[i] = c[i + 1] /\ c2[j] = c[j + 1]
      BY <1>2, <1>4, <2>1
    <3> QED
      BY <1>3, <3>1 DEF InOrder
  <2> QED
    BY <2>1 DEF InOrder
<1>8. ASSUME NEW i \in 1..Len(K2), NEW j \in 1..Len(c2)
      PROVE  Before(K2[i], c2[j])
  <2>1. j + 1 \in 1..Len(c) /\ c2[j] = c[j + 1] /\ 1 < j + 1
    BY <1>2, <1>4
  <2>2. CASE i \in 1..Len(K) /\ K2[i] = K[i]
    BY <1>3, <2>1, <2>2
  <2>3. CASE K2[i] = c[1] /\ 1 \in 1..Len(c)
    BY <1>3, <2>1, <2>3 DEF InOrder
  <2> QED
    BY <1>1, <2>2, <2>3
<1>9. \A i \in 1..Len(K2) : K2[i].id <= n /\ K2[i].seq <= n /\ K2[i].seq < x
  <2> TAKE i \in 1..Len(K2)
  <2>1. CASE i \in 1..Len(K) /\ K2[i] = K[i]
    BY <1>3, <2>1
  <2>2. CASE K2[i] = c[1] /\ 1 \in 1..Len(c)
    BY <1>3, <1>5, <2>2
  <2> QED
    BY <1>1, <2>1, <2>2
<1>10. \A i \in 1..Len(c2) : c2[i].id <= n /\ c2[i].seq < x
  BY <1>2, <1>3
<1> QED
  BY <1>6, <1>7, <1>8, <1>9, <1>10 DEF Ordered, Below

\* A call adds to the chain what is after everything claimed before.
LEMMA OrderedCall ==
  ASSUME NEW K \in Seq(Records), NEW c \in Seq(Records), NEW n \in Nat,
         NEW x \in Nat, x <= n + 1, Ordered(K, c, n), Below(K, x), Below(c, x),
         NEW r \in Records, r.id = n + 1, r.seq = x
  PROVE  /\ Ordered(K, Append(c, r), n + 1)
         /\ Below(K, x + 1) /\ Below(Append(c, r), x + 1)
<1> DEFINE c2 == Append(c, r)
           N == Len(c)
<1>1. /\ N \in Nat /\ c2 \in Seq(Records) /\ Len(c2) = N + 1
      /\ \A i \in 1..N : c2[i] = c[i]
      /\ c2[N + 1] = r
  BY AppendProperties
<1> HIDE DEF c2
<1>2. \A i \in 1..Len(c2) : \/ i \in 1..N /\ c2[i] = c[i]
                            \/ i = N + 1 /\ c2[i] = r
  <2> TAKE i \in 1..Len(c2)
  <2>1. i \in 1..N \/ i = N + 1
    BY <1>1
  <2> QED
    BY <1>1, <2>1
<1>3. /\ InOrder(K) /\ InOrder(c)
      /\ \A i \in 1..Len(K), j \in 1..N : Before(K[i], c[j])
      /\ \A i \in 1..Len(K) : K[i].id <= n /\ K[i].seq <= n /\ K[i].seq < x
      /\ \A i \in 1..N : c[i].id <= n /\ c[i].seq < x
  BY DEF Ordered, Below
<1>4. /\ \A i \in 1..Len(K) : K[i].id \in Nat /\ K[i].seq \in Nat
      /\ \A i \in 1..N : c[i].id \in Nat /\ c[i].seq \in Nat
  BY RecordTypes
<1> HIDE DEF N
<1>5. /\ \A i \in 1..Len(K) : Before(K[i], r)
      /\ \A i \in 1..N : Before(c[i], r)
  BY <1>3, <1>4 DEF Before
<1>6. InOrder(c2)
  <2>1. ASSUME NEW i \in 1..Len(c2), NEW j \in 1..Len(c2), i < j
        PROVE  Before(c2[i], c2[j])
    <3>1. i \in 1..N /\ c2[i] = c[i]
      BY <1>1, <1>2, <2>1
    <3>2. CASE j \in 1..N /\ c2[j] = c[j]
      BY <1>3, <2>1, <3>1, <3>2 DEF InOrder, N
    <3>3. CASE c2[j] = r
      BY <1>5, <3>1, <3>3
    <3> QED
      BY <1>2, <3>2, <3>3
  <2> QED
    BY <2>1 DEF InOrder
<1>7. \A i \in 1..Len(K), j \in 1..Len(c2) : Before(K[i], c2[j])
  BY <1>2, <1>3, <1>5
<1>8. /\ \A i \in 1..Len(K) : /\ K[i].id <= n + 1 /\ K[i].seq <= n + 1
                              /\ K[i].seq < x + 1
      /\ \A i \in 1..N : c[i].id <= n + 1 /\ c[i].seq < x + 1
      /\ r.id <= n + 1 /\ r.seq < x + 1
  <2>1. ASSUME NEW i \in 1..Len(K)
        PROVE  K[i].id <= n + 1 /\ K[i].seq <= n + 1 /\ K[i].seq < x + 1
    <3>1. /\ K[i].id <= n /\ K[i].seq <= n /\ K[i].seq < x
          /\ K[i].id \in Nat /\ K[i].seq \in Nat
      BY <1>3, <1>4
    <3> QED
      BY <3>1
  <2>2. ASSUME NEW i \in 1..N PROVE c[i].id <= n + 1 /\ c[i].seq < x + 1
    <3>1. c[i].id <= n /\ c[i].seq < x /\ c[i].id \in Nat /\ c[i].seq \in Nat
      BY <1>3, <1>4
    <3> QED
      BY <3>1
  <2>3. r.id <= n + 1 /\ r.seq < x + 1
    OBVIOUS
  <2> QED
    BY <2>1, <2>2, <2>3
<1>9. \A i \in 1..Len(c2) : c2[i].id <= n + 1 /\ c2[i].seq < x + 1
  BY <1>2, <1>8
<1>10. Ordered(K, c2, n + 1)
  BY <1>3, <1>6, <1>7, <1>8, <1>9 DEF Ordered
<1>11. Below(K, x + 1) /\ Below(c2, x + 1)
  BY <1>8, <1>9 DEF Below
<1> QED
  BY <1>10, <1>11 DEF c2

----------------------------------------------------------------------------
(* Each step                                                               *)

\* The types the proofs use.
LEMMA Types ==
  ASSUME TypeOK
  PROVE  /\ lines \in Seq(Line) /\ Kept \in Seq(Records)
         /\ chain \in Seq(Records) /\ acked \in Seq(1..MaxAppends)
         /\ Len(lines) \in Nat /\ Len(Kept) \in Nat /\ Len(chain) \in Nat
         /\ Len(acked) \in Nat
         /\ calls \in Nat /\ nextSeq \in Nat /\ tornWrites \in Nat
         /\ torn \in BOOLEAN /\ up \in BOOLEAN
<1>1. lines \in Seq(Line)
  BY DEF TypeOK, Line
<1>2. Kept \in Seq(Records)
  BY <1>1, ParsedType DEF Kept
<1>3. chain \in Seq(Records) /\ acked \in Seq(1..MaxAppends)
  BY DEF TypeOK
<1>4. calls \in Nat /\ nextSeq \in Nat /\ tornWrites \in Nat
  BY LogAssumption DEF TypeOK
<1>5. torn \in BOOLEAN /\ up \in BOOLEAN
  BY DEF TypeOK
<1> QED
  BY <1>1, <1>2, <1>3, <1>4, <1>5

\* The oldest write has landed.
HeadLands == chain # <<>> /\ lines' = Landed(chain[1])

\* What becomes of the records when it has.
LEMMA HeadLandsInLog ==
  ASSUME TypeOK, HeadLands
  PROVE  /\ torn => Kept' = Kept
         /\ ~torn => Kept' = Append(Kept, chain[1])
         /\ lines' \in Seq(Line)
         /\ lines' = Append(lines, IF torn THEN Bad ELSE chain[1])
<1>1. chain[1] \in Records
  BY Types, HeadRemoved DEF HeadLands
<1>2. lines' = Landed(chain[1])
  BY DEF HeadLands
<1>3. Kept' = Parsed(Landed(chain[1]))
  BY <1>2 DEF Kept
<1>4. lines \in Seq(Line)
  BY Types
<1> QED
  BY <1>1, <1>2, <1>3, <1>4, LandedParsed DEF Landed

\* What remains of WriteDone when its choice is made ...
LEMMA DoneStep ==
  ASSUME TypeOK, WriteDone
  PROVE  /\ HeadLands /\ up /\ chain' = RemoveAt(chain, 1)
         /\ acked' = Append(acked, chain[1].id) /\ torn' = FALSE
         /\ chain[1].id \in 1..MaxAppends
         /\ UNCHANGED <<ckpts, up, nextSeq, saving, followVars, boundVars>>
<1>1. PICK i \in WriteInTurn : /\ lines' = Landed(chain[i])
                               /\ chain' = RemoveAt(chain, i)
                               /\ acked' = Append(acked, chain[i].id)
  BY DEF WriteDone
<1>2. i = 1 /\ 1 \in 1..Len(chain)
  BY <1>1 DEF WriteInTurn
<1>3. chain # <<>> /\ chain[1].id \in 1..MaxAppends
  BY <1>2, Types, RecordTypes
<1> QED
  BY <1>1, <1>2, <1>3 DEF WriteDone, HeadLands

\* ... of WriteFails ...
LEMMA FailStep ==
  ASSUME TypeOK, WriteFails
  PROVE  /\ chain # <<>> /\ up /\ chain' = RemoveAt(chain, 1)
         /\ \/ UNCHANGED <<torn, tornWrites>>
            \/ torn' = TRUE /\ tornWrites' = tornWrites + 1
         /\ tornWrites' \in 0..MaxTornWrites
         /\ failures' \in 0..MaxFailures
         /\ UNCHANGED <<lines, ckpts, up, nextSeq, acked, saving, followVars,
                        calls, crashes, saves>>
<1>1. PICK i \in WriteInTurn : chain' = RemoveAt(chain, i)
  BY DEF WriteFails
<1>2. i = 1 /\ 1 \in 1..Len(chain)
  BY <1>1 DEF WriteInTurn
<1>3. chain # <<>>
  BY <1>2
<1>4. failures' \in 0..MaxFailures /\ tornWrites' \in 0..MaxTornWrites
  <2>1. failures \in 0..MaxFailures /\ tornWrites \in 0..MaxTornWrites
    BY DEF TypeOK
  <2> QED
    BY <2>1, LogAssumption DEF WriteFails
<1> QED
  BY <1>1, <1>2, <1>3, <1>4 DEF WriteFails

\* ... and of Crash.
LEMMA CrashStep ==
  ASSUME TypeOK, Crash
  PROVE  /\ up /\ ~up' /\ chain' = <<>>
         /\ HeadLands \/ UNCHANGED lines
         /\ torn' \in BOOLEAN
         /\ ckpts' = ckpts
            \/ (saving # Unreadable /\ ckpts' = WithCheckpoint(Unreadable))
         /\ saving' = Unreadable
         /\ crashes' \in 0..MaxCrashes
         /\ UNCHANGED <<nextSeq, acked, followVars, calls, failures,
                        tornWrites, saves>>
<1>1. crashes' \in 0..MaxCrashes
  <2>1. crashes \in 0..MaxCrashes
    BY DEF TypeOK
  <2> QED
    BY <2>1, LogAssumption DEF Crash
<1>2. HeadLands \/ UNCHANGED lines
  BY DEF Crash, HeadLands
<1>3. torn' \in BOOLEAN
  BY Types DEF Crash
<1> QED
  BY <1>1, <1>2, <1>3 DEF Crash

\* The log grows by the oldest write or stays as it is.
LEMMA LogGrows ==
  ASSUME TypeOK, [Next]_vars
  PROVE  Grown(Kept, chain, Kept')
<1>1. ASSUME HeadLands PROVE Grown(Kept, chain, Kept')
  <2>1. chain # <<>> /\ torn \in BOOLEAN
    BY <1>1, Types DEF HeadLands
  <2> QED
    BY <1>1, <2>1, HeadLandsInLog DEF Grown
<1>2. ASSUME UNCHANGED lines PROVE Grown(Kept, chain, Kept')
  BY <1>2 DEF Grown, Kept
<1>3. CASE AppendCalled
  BY <1>2, <1>3 DEF AppendCalled, diskVars
<1>4. CASE WriteDone
  BY <1>1, <1>4, DoneStep
<1>5. CASE WriteFails
  BY <1>2, <1>5, FailStep
<1>6. CASE CheckpointStarts
  BY <1>2, <1>6 DEF CheckpointStarts, diskVars
<1>7. CASE CheckpointWritten
  BY <1>2, <1>7 DEF CheckpointWritten
<1>8. CASE Crash
  BY <1>1, <1>2, <1>8, CrashStep
<1>9. CASE Open
  BY <1>2, <1>9 DEF Open
<1>10. CASE Follow
  BY <1>2, <1>10 DEF Follow, diskVars
<1>11. CASE UNCHANGED vars
  BY <1>2, <1>11 DEF vars, diskVars
<1> QED
  BY <1>3, <1>4, <1>5, <1>6, <1>7, <1>8, <1>9, <1>10, <1>11 DEF Next

\* ClaimedInOrder is kept.
LEMMA ClaimedStep ==
  ASSUME TypeOK, ClaimedInOrder, [Next]_vars
  PROVE  ClaimedInOrder'
<1>1. /\ Kept \in Seq(Records) /\ chain \in Seq(Records)
      /\ calls \in Nat /\ nextSeq \in Nat /\ nextSeq <= calls + 1
      /\ Ordered(Kept, chain, calls)
      /\ up => Below(Kept, nextSeq) /\ Below(chain, nextSeq)
      /\ ~up => chain = <<>>
  BY Types DEF ClaimedInOrder
<1>2. Grown(Kept, chain, Kept')
  BY LogGrows
<1>3. ASSUME up, Shrunk(chain, chain'), UNCHANGED <<calls, nextSeq>>,
             ~up' => chain' = <<>>
      PROVE  ClaimedInOrder'
  <2>1. /\ Ordered(Kept', chain', calls) /\ Below(Kept', nextSeq)
        /\ Below(chain', nextSeq)
    BY <1>1, <1>2, <1>3, OrderedMoves
  <2> QED
    BY <1>1, <1>3, <2>1 DEF ClaimedInOrder
<1>4. ASSUME UNCHANGED <<lines, chain, up, calls, nextSeq>>
      PROVE  ClaimedInOrder'
  BY <1>1, <1>4 DEF ClaimedInOrder, Kept
<1>5. CASE AppendCalled
  <2> DEFINE r == [id |-> calls + 1, seq |-> nextSeq]
  <2>1. /\ up /\ up' /\ calls' = calls + 1 /\ nextSeq' = nextSeq + 1
        /\ chain' = Append(chain, r) /\ calls < MaxAppends /\ Kept' = Kept
    BY <1>5 DEF AppendCalled, SeqAfterClaim, diskVars, Kept
  <2>2. r \in Records /\ r.id = calls + 1 /\ r.seq = nextSeq
    <3>1. calls + 1 \in 1..MaxAppends /\ nextSeq \in 1..MaxAppends
      <4>1. nextSeq \in 1..(MaxAppends + 1) /\ calls \in 0..MaxAppends
        BY DEF TypeOK
      <4> QED
        BY <1>1, <2>1, <4>1, LogAssumption
    <3> QED
      BY <3>1 DEF Records
  <2> HIDE DEF r
  <2>3. /\ Ordered(Kept, chain', calls + 1) /\ Below(Kept, nextSeq + 1)
        /\ Below(chain', nextSeq + 1)
    BY <1>1, <2>1, <2>2, OrderedCall
  <2>4. nextSeq + 1 <= calls + 1 + 1
    BY <1>1
  <2> QED
    BY <2>1, <2>3, <2>4 DEF ClaimedInOrder
<1>6. CASE WriteDone
  <2>1. /\ up /\ up' /\ Shrunk(chain, chain') /\ UNCHANGED <<calls, nextSeq>>
    BY <1>6, DoneStep DEF HeadLands, Shrunk, boundVars
  <2> QED
    BY <1>3, <2>1
<1>7. CASE WriteFails
  <2>1. /\ up /\ up' /\ Shrunk(chain, chain') /\ UNCHANGED <<calls, nextSeq>>
    BY <1>7, FailStep DEF Shrunk
  <2> QED
    BY <1>3, <2>1
<1>8. CASE CheckpointStarts
  BY <1>4, <1>8 DEF CheckpointStarts, diskVars
<1>9. CASE CheckpointWritten
  BY <1>4, <1>9 DEF CheckpointWritten, boundVars
<1>10. CASE Crash
  <2>1. /\ up /\ chain' = <<>> /\ UNCHANGED <<calls, nextSeq>>
    BY <1>10, CrashStep
  <2> QED
    BY <1>3, <2>1 DEF Shrunk
<1>11. CASE Open
  <2>1. /\ ~up /\ up' /\ nextSeq' = MaxSeq(Kept) + 1 /\ Kept' = Kept
        /\ UNCHANGED <<chain, calls>>
    BY <1>11 DEF Open, Kept, boundVars
  <2>2. MaxSeq(Kept) \in 0..MaxAppends
    BY <1>1, MaxSeqBounds
  <2>3. MaxSeq(Kept) <= calls
    <3>1. CASE MaxSeq(Kept) = 0
      BY <1>1, <3>1
    <3>2. CASE MaxSeq(Kept) # 0
      <4>1. PICK i \in 1..Len(Kept) : Kept[i].seq = MaxSeq(Kept)
        BY <1>1, <3>2, MaxSeqBounds
      <4> QED
        BY <1>1, <4>1 DEF Ordered
    <3> QED
      BY <3>1, <3>2
  <2>4. \A i \in 1..Len(Kept) : Kept[i].seq < MaxSeq(Kept) + 1
    <3>1. \A i \in 1..Len(Kept) : Kept[i].seq <= MaxSeq(Kept)
      BY <1>1, MaxSeqBounds
    <3>2. \A i \in 1..Len(Kept) : Kept[i].seq \in Nat
      BY <1>1, RecordTypes
    <3> QED
      BY <2>2, <3>1, <3>2, LogAssumption
  <2>5. Below(Kept', nextSeq') /\ Below(chain', nextSeq')
    <3>1. chain = <<>> /\ 1..Len(<<>>) = {}
      BY <1>1, <2>1
    <3> QED
      BY <2>1, <2>4, <3>1 DEF Below
  <2>6. nextSeq' <= calls' + 1
    BY <1>1, <2>1, <2>2, <2>3, LogAssumption
  <2> QED
    BY <1>1, <2>1, <2>5, <2>6 DEF ClaimedInOrder
<1>12. CASE Follow
  BY <1>4, <1>12 DEF Follow, diskVars, procVars, boundVars
<1>13. CASE UNCHANGED vars
  BY <1>4, <1>13 DEF vars, diskVars, procVars, boundVars
<1> QED
  BY <1>5, <1>6, <1>7, <1>8, <1>9, <1>10, <1>11, <1>12, <1>13 DEF Next

\* The ids of a sequence of records.
LEMMA IdsRange ==
  ASSUME NEW s \in Seq(Records), NEW x
  PROVE  x \in Range(IdsIn(s)) <=> \E i \in 1..Len(s) : s[i].id = x
<1>1. DOMAIN IdsIn(s) = 1..Len(s) /\ \A i \in 1..Len(s) : IdsIn(s)[i] = s[i].id
  BY DEF IdsIn
<1> QED
  BY <1>1, Zenon DEF Range

\* The lost can be counted.
LEMMA LostFinite ==
  ASSUME NEW A, NEW a \in Seq(A), NEW s
  PROVE  IsFiniteSet(Lost(a, s)) /\ Cardinality(Lost(a, s)) \in Nat
<1>1. Lost(a, s) \subseteq 1..Len(a)
  BY DEF Lost
<1>2. IsFiniteSet(1..Len(a))
  BY FS_Interval
<1>3. IsFiniteSet(Lost(a, s))
  BY <1>1, <1>2, FS_Subset
<1> QED
  BY <1>3, FS_CardinalityType

\* A log that grows loses nothing that it had.
LEMMA LostShrinks ==
  ASSUME NEW K \in Seq(Records), NEW c \in Seq(Records),
         NEW K2, Grown(K, c, K2),
         NEW A, NEW a \in Seq(A)
  PROVE  Cardinality(Lost(a, K2)) <= Cardinality(Lost(a, K))
<1>1. /\ K2 \in Seq(Records) /\ Len(K) <= Len(K2)
      /\ \A i \in 1..Len(K) : K2[i] = K[i]
  BY GrownValues
<1>2. ASSUME NEW x \in Range(IdsIn(K)) PROVE x \in Range(IdsIn(K2))
  <2>1. PICK i \in 1..Len(K) : K[i].id = x
    BY IdsRange
  <2>2. i \in 1..Len(K2) /\ K2[i].id = x
    BY <1>1, <2>1
  <2> QED
    BY <1>1, <2>2, IdsRange
<1>3. Lost(a, K2) \subseteq Lost(a, K)
  BY <1>2 DEF Lost
<1>4. IsFiniteSet(Lost(a, K))
  BY LostFinite
<1> QED
  BY <1>3, <1>4, FS_Subset

\* An acknowledgement loses one at most ...
LEMMA LostOfAck ==
  ASSUME NEW K \in Seq(Records), NEW A, NEW a \in Seq(A), NEW x \in A
  PROVE  Cardinality(Lost(Append(a, x), K)) <= Cardinality(Lost(a, K)) + 1
<1> DEFINE b == Append(a, x)
           n == Len(a) + 1
<1>1. /\ DOMAIN b = 1..n /\ DOMAIN a = 1..Len(a) /\ Len(a) \in Nat
      /\ \A i \in 1..Len(a) : b[i] = a[i]
  OBVIOUS
<1> HIDE DEF b
<1>2. Lost(b, K) \subseteq Lost(a, K) \cup {n}
  <2>1. ASSUME NEW i \in Lost(b, K), i # n PROVE i \in Lost(a, K)
    <3>1. i \in 1..Len(a) /\ b[i] \notin Range(IdsIn(K))
      BY <1>1, <2>1 DEF Lost
    <3> QED
      BY <1>1, <3>1 DEF Lost
  <2> QED
    BY <2>1
<1>3. IsFiniteSet(Lost(a, K)) /\ Cardinality(Lost(a, K)) \in Nat
  BY LostFinite
<1>4. /\ IsFiniteSet(Lost(a, K) \cup {n})
      /\ Cardinality(Lost(a, K) \cup {n}) <= Cardinality(Lost(a, K)) + 1
  <2> DEFINE S == Lost(a, K)
  <2> HIDE DEF S
  <2>1. IsFiniteSet(S) /\ Cardinality(S) \in Nat
    BY <1>3 DEF S
  <2>2. /\ IsFiniteSet(S \cup {n})
        /\ \/ Cardinality(S \cup {n}) = Cardinality(S)
           \/ Cardinality(S \cup {n}) = Cardinality(S) + 1
    BY <2>1, FS_AddElement
  <2>3. Cardinality(S \cup {n}) <= Cardinality(S) + 1
    BY <2>1, <2>2
  <2> QED
    BY <2>2, <2>3 DEF S
<1>5. /\ Cardinality(Lost(b, K)) <= Cardinality(Lost(a, K) \cup {n})
      /\ IsFiniteSet(Lost(b, K))
  BY <1>2, <1>4, FS_Subset
<1>6. /\ Cardinality(Lost(b, K)) \in Nat
      /\ Cardinality(Lost(a, K) \cup {n}) \in Nat
  BY <1>4, <1>5, FS_CardinalityType
<1> QED
  BY <1>3, <1>4, <1>5, <1>6 DEF b

\* ... or none is lost with the one whose record landed.
LEMMA LostOfLanded ==
  ASSUME NEW K \in Seq(Records), NEW r \in Records, NEW A, NEW a \in Seq(A),
         r.id \in A
  PROVE  Cardinality(Lost(Append(a, r.id), Append(K, r)))
           <= Cardinality(Lost(a, K))
<1> DEFINE x == r.id
           b == Append(a, x)
           n == Len(a) + 1
           K2 == Append(K, r)
<1>0. x \in A
  OBVIOUS
<1> HIDE DEF x
<1>1. /\ DOMAIN b = 1..n /\ DOMAIN a = 1..Len(a) /\ Len(a) \in Nat
      /\ \A i \in 1..Len(a) : b[i] = a[i]
      /\ b[n] = x
  BY <1>0
<1> HIDE DEF b
<1>2. /\ K2 \in Seq(Records) /\ Len(K2) = Len(K) + 1 /\ Len(K) \in Nat
      /\ \A i \in 1..Len(K) : K2[i] = K[i]
      /\ K2[Len(K) + 1] = r
  BY AppendProperties
<1> HIDE DEF K2
<1>3. x \in Range(IdsIn(K2))
  <2>1. Len(K) + 1 \in 1..Len(K2) /\ K2[Len(K) + 1].id = x
    BY <1>2 DEF x
  <2> QED
    BY <1>2, <2>1, IdsRange
<1>4. ASSUME NEW y \in Range(IdsIn(K)) PROVE y \in Range(IdsIn(K2))
  <2>1. PICK i \in 1..Len(K) : K[i].id = y
    BY IdsRange
  <2>2. i \in 1..Len(K2) /\ K2[i].id = y
    BY <1>2, <2>1
  <2> QED
    BY <1>2, <2>2, IdsRange
<1>5. Lost(b, K2) \subseteq Lost(a, K)
  <2>1. ASSUME NEW i \in Lost(b, K2) PROVE i \in Lost(a, K)
    <3>1. i \in 1..n /\ b[i] \notin Range(IdsIn(K2))
      BY <1>1, <2>1 DEF Lost
    <3>2. i # n
      BY <1>1, <1>3, <3>1
    <3>3. i \in 1..Len(a)
      BY <1>1, <3>1, <3>2
    <3> QED
      BY <1>1, <1>4, <3>1, <3>3 DEF Lost
  <2> QED
    BY <2>1
<1>6. IsFiniteSet(Lost(a, K))
  BY LostFinite
<1>7. Cardinality(Lost(b, K2)) <= Cardinality(Lost(a, K))
  BY <1>5, <1>6, FS_Subset
<1> QED
  BY <1>7 DEF b, K2, x

\* AckedInOrder is kept.
LEMMA AckedStep ==
  ASSUME TypeOK, ClaimedInOrder, AckedInOrder, [Next]_vars
  PROVE  AckedInOrder'
<1>1. /\ Kept \in Seq(Records) /\ chain \in Seq(Records)
      /\ acked \in Seq(1..MaxAppends) /\ Len(acked) \in Nat
      /\ calls \in Nat /\ tornWrites \in Nat /\ torn \in BOOLEAN
      /\ up \in BOOLEAN /\ Ordered(Kept, chain, calls)
  BY Types DEF ClaimedInOrder
<1>2. /\ \A i, j \in 1..Len(acked) : i < j => acked[i] < acked[j]
      /\ \A i \in 1..Len(acked) : acked[i] <= calls
      /\ \A i \in 1..Len(acked), j \in 1..Len(chain) : acked[i] < chain[j].id
      /\ Cardinality(Lost(acked, Kept)) <= tornWrites
      /\ up /\ torn => Cardinality(Lost(acked, Kept)) < tornWrites
  BY DEF AckedInOrder
<1>3. Grown(Kept, chain, Kept')
  BY LogGrows
<1>4. /\ Cardinality(Lost(acked, Kept)) \in Nat
      /\ Cardinality(Lost(acked, Kept')) \in Nat
      /\ Cardinality(Lost(acked, Kept')) <= Cardinality(Lost(acked, Kept))
  BY <1>1, <1>3, LostFinite, LostShrinks
<1>5. ASSUME NEW c2, Shrunk(chain, c2)
      PROVE  \A i \in 1..Len(acked), j \in 1..Len(c2) : acked[i] < c2[j].id
  <2>1. ASSUME NEW i \in 1..Len(acked), NEW j \in 1..Len(c2)
        PROVE  acked[i] < c2[j].id
    <3>1. c2[j] = chain[j + 1] /\ j + 1 \in 1..Len(chain)
      BY <1>1, <1>5, ShrunkValues
    <3> QED
      BY <1>2, <3>1
  <2> QED
    BY <2>1
<1>6. ASSUME UNCHANGED <<acked, calls>>,
             \/ Shrunk(chain, chain')
             \/ chain' = chain,
             \/ tornWrites' = tornWrites /\ (up' /\ torn' => up /\ torn)
             \/ tornWrites' = tornWrites + 1
      PROVE  AckedInOrder'
  <2>1. \A i \in 1..Len(acked), j \in 1..Len(chain') : acked[i] < chain'[j].id
    BY <1>2, <1>5, <1>6
  <2>2. Lost(acked, Kept)' = Lost(acked, Kept')
    BY <1>6 DEF Lost
  <2>3. /\ Cardinality(Lost(acked, Kept)') <= tornWrites'
        /\ up' /\ torn' => Cardinality(Lost(acked, Kept)') < tornWrites'
    BY <1>1, <1>2, <1>4, <1>6, <2>2
  <2> QED
    BY <1>2, <1>6, <2>1, <2>3 DEF AckedInOrder
<1>7. CASE AppendCalled
  <2> DEFINE r == [id |-> calls + 1, seq |-> nextSeq]
  <2>1. /\ calls' = calls + 1 /\ chain' = Append(chain, r)
        /\ UNCHANGED <<lines, torn, up, acked, tornWrites>>
    BY <1>7 DEF AppendCalled, diskVars
  <2>2. \A i \in 1..Len(acked) : acked[i] \in Nat /\ acked[i] <= calls + 1
    <3>1. ASSUME NEW i \in 1..Len(acked)
          PROVE  acked[i] \in Nat /\ acked[i] <= calls + 1
      <4>1. acked[i] \in 1..MaxAppends /\ acked[i] <= calls
        BY <1>1, <1>2, ElementOfSeq
      <4> QED
        BY <1>1, <4>1, LogAssumption
    <3> QED
      BY <3>1
  <2>3. ASSUME NEW i \in 1..Len(acked), NEW j \in 1..Len(chain')
        PROVE  acked[i] < chain'[j].id
    <3>1. CASE j \in 1..Len(chain)
      <4>1. chain'[j] = chain[j]
        BY <1>1, <2>1, <3>1
      <4> QED
        BY <1>2, <3>1, <4>1
    <3>2. CASE j \notin 1..Len(chain)
      <4>1. chain'[j] = r
        BY <1>1, <2>1, <3>2
      <4>2. r.id = calls + 1
        OBVIOUS
      <4>3. chain'[j].id = calls + 1
        BY <4>1, <4>2
      <4> QED
        BY <1>1, <1>2, <2>2, <4>3
    <3> QED
      BY <3>1, <3>2
  <2>4. Lost(acked, Kept)' = Lost(acked, Kept)
    BY <2>1 DEF Lost, Kept
  <2>5. /\ Cardinality(Lost(acked, Kept)') <= tornWrites'
        /\ up' /\ torn' => Cardinality(Lost(acked, Kept)') < tornWrites'
    BY <1>2, <2>1, <2>4
  <2> HIDE DEF r
  <2> QED
    BY <1>2, <2>1, <2>2, <2>3, <2>5 DEF AckedInOrder
<1>8. CASE WriteDone
  <2> DEFINE x == chain[1].id
             n == Len(acked) + 1
  <2>1. /\ HeadLands /\ chain # <<>> /\ up /\ Shrunk(chain, chain')
        /\ acked' = Append(acked, x) /\ torn' = FALSE /\ x \in 1..MaxAppends
        /\ calls' = calls /\ tornWrites' = tornWrites
    BY <1>8, DoneStep DEF HeadLands, Shrunk, boundVars
  <2>2. chain[1] \in Records /\ 1 \in 1..Len(chain)
    BY <1>1, <2>1, HeadRemoved
  <2>3. x <= calls /\ \A i \in 1..Len(acked) : acked[i] < x
    BY <1>1, <1>2, <2>2 DEF Ordered
  <2>4. \A j \in 1..Len(chain') : x < chain'[j].id
    <3>1. ASSUME NEW j \in 1..Len(chain') PROVE x < chain'[j].id
      <4>1. /\ chain'[j] = chain[j + 1] /\ j + 1 \in 1..Len(chain) /\ 1 < j + 1
        BY <1>1, <2>1, ShrunkValues
      <4>2. Before(chain[1], chain[j + 1])
        BY <1>1, <2>2, <4>1 DEF Ordered, InOrder
      <4> QED
        BY <4>1, <4>2 DEF Before
    <3> QED
      BY <3>1
  <2>5. \A i \in 1..Len(acked), j \in 1..Len(chain') : acked[i] < chain'[j].id
    BY <1>5, <2>1
  <2>6. Cardinality(Lost(acked, Kept)') <= tornWrites
    <3>1. Lost(acked, Kept)' = Lost(Append(acked, x), Kept')
      BY <2>1 DEF Lost
    <3>2. CASE torn
      <4>1. Kept' = Kept
        BY <2>1, <3>2, HeadLandsInLog
      <4>2. Cardinality(Lost(Append(acked, x), Kept))
              <= Cardinality(Lost(acked, Kept)) + 1
        BY <1>1, <2>1, LostOfAck
      <4>3. Cardinality(Lost(Append(acked, x), Kept)) \in Nat
        <5>1. Append(acked, x) \in Seq(1..MaxAppends)
          BY <1>1, <2>1
        <5> QED
          BY <5>1, LostFinite
      <4> QED
        BY <1>1, <1>2, <1>4, <2>1, <3>1, <3>2, <4>1, <4>2, <4>3
    <3>3. CASE ~torn
      <4>1. Kept' = Append(Kept, chain[1])
        BY <2>1, <3>3, HeadLandsInLog
      <4>2. Cardinality(Lost(Append(acked, x), Append(Kept, chain[1])))
              <= Cardinality(Lost(acked, Kept))
        BY <1>1, <2>1, <2>2, LostOfLanded
      <4>3. Cardinality(Lost(Append(acked, x), Append(Kept, chain[1]))) \in Nat
        <5>1. Append(acked, x) \in Seq(1..MaxAppends)
          BY <1>1, <2>1
        <5> QED
          BY <5>1, LostFinite
      <4> QED
        BY <1>1, <1>2, <1>4, <3>1, <4>1, <4>2, <4>3
    <3> QED
      BY <1>1, <3>2, <3>3
  <2> HIDE DEF x
  <2>7. /\ Len(acked') = n
        /\ \A i \in 1..Len(acked') :
             \/ i \in 1..Len(acked) /\ acked'[i] = acked[i]
             \/ i = n /\ acked'[i] = x
    BY <1>1, <2>1
  <2>8. /\ \A i, j \in 1..Len(acked') : i < j => acked'[i] < acked'[j]
        /\ \A i \in 1..Len(acked') : acked'[i] <= calls
        /\ \A i \in 1..Len(acked'), j \in 1..Len(chain') :
             acked'[i] < chain'[j].id
    <3>1. ASSUME NEW i \in 1..Len(acked'), NEW j \in 1..Len(acked'), i < j
          PROVE  acked'[i] < acked'[j]
      <4>1. i \in 1..Len(acked) /\ acked'[i] = acked[i]
        BY <1>1, <2>7, <3>1
      <4> QED
        BY <1>2, <2>3, <2>7, <3>1, <4>1
    <3>2. \A i \in 1..Len(acked') : acked'[i] <= calls
      BY <1>2, <2>3, <2>7
    <3>3. \A i \in 1..Len(acked'), j \in 1..Len(chain') :
            acked'[i] < chain'[j].id
      BY <2>4, <2>5, <2>7
    <3> QED
      BY <3>1, <3>2, <3>3
  <2> QED
    BY <2>1, <2>6, <2>8 DEF AckedInOrder
<1>9. CASE WriteFails
  <2>1. /\ Shrunk(chain, chain') /\ UNCHANGED <<acked, calls, up>>
        /\ \/ tornWrites' = tornWrites /\ torn' = torn
           \/ tornWrites' = tornWrites + 1
    BY <1>9, FailStep DEF Shrunk
  <2> QED
    BY <1>6, <2>1
<1>10. CASE CheckpointStarts
  BY <1>6, <1>10 DEF CheckpointStarts, diskVars
<1>11. CASE CheckpointWritten
  BY <1>6, <1>11 DEF CheckpointWritten, boundVars
<1>12. CASE Crash
  <2>1. /\ Shrunk(chain, chain') /\ ~up'
        /\ UNCHANGED <<acked, calls, tornWrites>>
    BY <1>12, CrashStep DEF Shrunk
  <2> QED
    BY <1>6, <2>1
<1>13. CASE Open
  BY <1>6, <1>13 DEF Open, TailAfterOpen, boundVars
<1>14. CASE Follow
  BY <1>6, <1>14 DEF Follow, diskVars, procVars, boundVars
<1>15. CASE UNCHANGED vars
  BY <1>6, <1>15 DEF vars, diskVars, procVars, boundVars
<1> QED
  BY <1>7, <1>8, <1>9, <1>10, <1>11, <1>12, <1>13, <1>14, <1>15 DEF Next

\* The follower keeps up with what it has consumed.
LEMMA FollowerStep ==
  ASSUME TypeOK, FollowerMissesNothing, [Next]_vars
  PROVE  FollowerMissesNothing'
<1>1. lines \in Seq(Line) /\ Len(lines) \in Nat /\ offset \in 0..Len(lines)
  BY Types DEF TypeOK
<1>2. seen = Parsed(SubSeq(lines, 1, offset))
  BY DEF FollowerMissesNothing
<1>3. ASSUME NEW x \in Line
      PROVE  SubSeq(Append(lines, x), 1, offset) = SubSeq(lines, 1, offset)
  <2> DEFINE ls == Append(lines, x)
  <2>1. /\ ls \in Seq(Line) /\ Len(ls) = Len(lines) + 1
        /\ \A i \in 1..Len(lines) : ls[i] = lines[i]
    BY <1>1, AppendProperties
  <2> HIDE DEF ls
  <2>2. /\ \A i \in 1..offset : ls[i] \in Line /\ lines[i] \in Line
        /\ \A i \in 1..offset : ls[i] = lines[i]
    BY <1>1, <2>1, ElementOfSeq
  <2>3. /\ SubSeq(ls, 1, offset) \in Seq(Line)
        /\ SubSeq(lines, 1, offset) \in Seq(Line)
        /\ Len(SubSeq(ls, 1, offset)) = offset
        /\ Len(SubSeq(lines, 1, offset)) = offset
        /\ \A i \in 1..offset : /\ SubSeq(ls, 1, offset)[i] = ls[i]
                                /\ SubSeq(lines, 1, offset)[i] = lines[i]
    BY <1>1, <2>1
  <2>4. \A i \in 1..offset :
          SubSeq(ls, 1, offset)[i] = SubSeq(lines, 1, offset)[i]
    BY <2>2, <2>3
  <2>5. SubSeq(ls, 1, offset) = SubSeq(lines, 1, offset)
    BY <2>3, <2>4, SeqEqual
  <2> QED
    BY <2>5 DEF ls
<1>4. ASSUME HeadLands, UNCHANGED <<offset, seen>> PROVE FollowerMissesNothing'
  <2>1. lines' = Append(lines, IF torn THEN Bad ELSE chain[1])
    BY <1>4, HeadLandsInLog
  <2>2. (IF torn THEN Bad ELSE chain[1]) \in Line
    <3>1. chain[1] \in Records
      BY <1>4, Types, HeadRemoved DEF HeadLands
    <3> QED
      BY <3>1 DEF Line
  <2>3. SubSeq(lines', 1, offset) = SubSeq(lines, 1, offset)
    BY <1>3, <2>1, <2>2
  <2> QED
    BY <1>2, <1>4, <2>3 DEF FollowerMissesNothing
<1>5. ASSUME UNCHANGED <<lines, offset, seen>> PROVE FollowerMissesNothing'
  BY <1>2, <1>5 DEF FollowerMissesNothing
<1>6. CASE AppendCalled
  BY <1>5, <1>6 DEF AppendCalled, diskVars, followVars
<1>7. CASE WriteDone
  BY <1>4, <1>7, DoneStep DEF followVars
<1>8. CASE WriteFails
  BY <1>5, <1>8, FailStep DEF followVars
<1>9. CASE CheckpointStarts
  BY <1>5, <1>9 DEF CheckpointStarts, diskVars, followVars
<1>10. CASE CheckpointWritten
  BY <1>5, <1>10 DEF CheckpointWritten, followVars
<1>11. CASE Crash
  BY <1>4, <1>5, <1>11, CrashStep DEF followVars
<1>12. CASE Open
  BY <1>5, <1>12 DEF Open, followVars
<1>13. CASE Follow
  <2> DEFINE a == SubSeq(lines, 1, offset)
             b == SubSeq(lines, offset + 1, Len(lines))
  <2>1. /\ offset' = Len(lines) /\ lines' = lines
        /\ seen' = seen \o Parsed(b)
    BY <1>13 DEF Follow, Consumed, diskVars
  <2>2. a \in Seq(Line) /\ b \in Seq(Line)
    <3>1. a \in Seq(Line)
      BY <1>1
    <3>2. b \in Seq(Line)
      BY <1>1
    <3> QED
      BY <3>1, <3>2
  <2>3. a \o b = SubSeq(lines, 1, Len(lines))
    <3>1. /\ 1 \in 1..(Len(lines) + 1) /\ offset \in (1 - 1)..Len(lines)
          /\ Len(lines) \in offset..Len(lines)
      BY <1>1
    <3> QED
      BY <1>1, <3>1, ConcatAdjacentSubSeq
  <2> HIDE DEF a, b
  <2>4. Parsed(a \o b) = Parsed(a) \o Parsed(b)
    BY <2>2, OnlyConcat DEF Parsed
  <2>5. seen = Parsed(a)
    BY <1>2 DEF a
  <2> QED
    BY <2>1, <2>3, <2>4, <2>5 DEF FollowerMissesNothing
<1>14. CASE UNCHANGED vars
  BY <1>5, <1>14 DEF vars, diskVars, followVars
<1> QED
  BY <1>6, <1>7, <1>8, <1>9, <1>10, <1>11, <1>12, <1>13, <1>14 DEF Next

\* A projection of a prefix is one of a prefix of the longer log.
LEMMA ProjectsGrown ==
  ASSUME NEW K \in Seq(Records), NEW c \in Seq(Records), NEW K2,
         Grown(K, c, K2), NEW p, ProjectsSome(p, K)
  PROVE  ProjectsSome(p, K2)
<1>1. /\ K2 \in Seq(Records) /\ Len(K) <= Len(K2)
      /\ \A i \in 1..Len(K) : K2[i] = K[i]
  BY GrownValues
<1>2. Len(K) \in Nat /\ Len(K2) \in Nat
  BY <1>1
<1>3. PICK m \in 0..Len(K) : Projects(p, K, m)
  BY DEF ProjectsSome
<1>4. m \in 0..Len(K2) /\ \A i \in 1..m : i \in 1..Len(K) /\ K2[i] = K[i]
  BY <1>1, <1>2
<1>5. m > 0 => K2[m] = K[m]
  BY <1>2, <1>4
<1>6. Projects(p, K2, m)
  BY <1>3, <1>4, <1>5 DEF Projects
<1> QED
  BY <1>4, <1>6 DEF ProjectsSome

\* CheckpointsProject is kept.
LEMMA CheckpointStep ==
  ASSUME TypeOK, ClaimedInOrder, CheckpointsProject, [Next]_vars
  PROVE  CheckpointsProject'
<1>1. /\ Kept \in Seq(Records) /\ chain \in Seq(Records)
      /\ lines \in Seq(Line) /\ DOMAIN ckpts \subseteq 0..MaxAppends
  BY Types DEF TypeOK
<1>2. Grown(Kept, chain, Kept')
  BY LogGrows
<1>3. ASSUME NEW p, ProjectsSome(p, Kept) PROVE ProjectsSome(p, Kept')
  BY <1>1, <1>2, <1>3, ProjectsGrown
<1>4. \A s \in DOMAIN ckpts :
        ckpts[s] # Unreadable => /\ ProjectsSome(ckpts[s], Kept')
                                 /\ ckpts[s].lastSeq = s
  BY <1>3 DEF CheckpointsProject
<1>5. saving # Unreadable => ProjectsSome(saving, Kept')
  BY <1>3 DEF CheckpointsProject
<1>6. ASSUME NEW body, body \in {saving, Unreadable}, saving # Unreadable,
             ckpts' = WithCheckpoint(body), saving' = Unreadable
      PROVE  CheckpointsProject'
  <2>1. ASSUME NEW s \in DOMAIN ckpts', ckpts'[s] # Unreadable
        PROVE  ProjectsSome(ckpts'[s], Kept') /\ ckpts'[s].lastSeq = s
    <3>1. CASE s = saving.lastSeq
      <4>1. ckpts'[s] = body
        BY <1>6, <2>1, <3>1 DEF WithCheckpoint
      <4>2. ckpts'[s] = saving
        BY <1>6, <2>1, <4>1
      <4> QED
        BY <1>5, <1>6, <3>1, <4>2
    <3>2. CASE s # saving.lastSeq
      <4>1. s \in DOMAIN ckpts /\ ckpts'[s] = ckpts[s]
        BY <1>6, <2>1, <3>2 DEF WithCheckpoint
      <4> QED
        BY <1>4, <2>1, <4>1
    <3> QED
      BY <3>1, <3>2
  <2> QED
    BY <1>6, <2>1 DEF CheckpointsProject
<1>7. ASSUME ckpts' = ckpts, saving' \in {saving, Unreadable}
      PROVE  CheckpointsProject'
  BY <1>4, <1>5, <1>7 DEF CheckpointsProject
<1>8. CASE AppendCalled
  BY <1>7, <1>8 DEF AppendCalled, diskVars
<1>9. CASE WriteDone
  BY <1>7, <1>9, DoneStep
<1>10. CASE WriteFails
  BY <1>7, <1>10, FailStep
<1>11. CASE CheckpointStarts
  <2>1. ckpts' = ckpts /\ saving' = Load /\ Kept' = Kept
    BY <1>11 DEF CheckpointStarts, diskVars, Kept
  <2>2. Projects(Load, Kept, Len(Kept))
    BY <1>1, LoadProjects DEF ClaimedInOrder, Ordered
  <2>3. Len(Kept) \in 0..Len(Kept)
    BY <1>1
  <2>4. ProjectsSome(saving', Kept')
    BY <2>1, <2>2, <2>3 DEF ProjectsSome
  <2> QED
    BY <1>4, <2>1, <2>4 DEF CheckpointsProject
<1>12. CASE CheckpointWritten
  BY <1>6, <1>12 DEF CheckpointWritten
<1>13. CASE Crash
  BY <1>6, <1>7, <1>13, CrashStep
<1>14. CASE Open
  BY <1>7, <1>14 DEF Open
<1>15. CASE Follow
  BY <1>7, <1>15 DEF Follow, diskVars, procVars
<1>16. CASE UNCHANGED vars
  BY <1>7, <1>16 DEF vars, diskVars, procVars
<1> QED
  BY <1>8, <1>9, <1>10, <1>11, <1>12, <1>13, <1>14, <1>15, <1>16 DEF Next

\* The types are kept; the counter, because it never passes the calls.
LEMMA TypeStep ==
  ASSUME TypeOK, ClaimedInOrder, CheckpointsProject, [Next]_vars
  PROVE  TypeOK'
<1>1. /\ lines \in Seq(Line) /\ Kept \in Seq(Records)
      /\ chain \in Seq(Records) /\ acked \in Seq(1..MaxAppends)
      /\ Len(lines) \in Nat /\ torn \in BOOLEAN /\ up \in BOOLEAN
  BY Types
<1>2. /\ DOMAIN ckpts \subseteq 0..MaxAppends
      /\ \A s \in DOMAIN ckpts : ckpts[s] \in Projections
      /\ nextSeq \in 1..(MaxAppends + 1) /\ saving \in Projections
      /\ offset \in 0..Len(lines) /\ seen \in Seq(Records)
      /\ calls \in 0..MaxAppends /\ crashes \in 0..MaxCrashes
      /\ failures \in 0..MaxFailures /\ tornWrites \in 0..MaxTornWrites
      /\ saves \in 0..MaxCheckpoints
  BY DEF TypeOK
<1>3. Unreadable \in Projections
  <2>1. <<0>> \in Seq(0..MaxAppends) /\ 0 \in 0..MaxAppends
    BY LogAssumption
  <2> QED
    BY <2>1 DEF Unreadable, Projections
<1>4. RemoveAt(chain, 1) \in Seq(Records) \/ chain = <<>>
  BY <1>1, HeadRemoved
<1>5. ASSUME HeadLands
      PROVE  lines' \in Seq(Line) /\ 0..Len(lines) \subseteq 0..Len(lines')
  <2>1. lines' \in Seq(Line)
        /\ lines' = Append(lines, IF torn THEN Bad ELSE chain[1])
    BY <1>5, HeadLandsInLog
  <2> DEFINE x == IF torn THEN Bad ELSE chain[1]
  <2>2. lines' = Append(lines, x)
    BY <2>1
  <2> HIDE DEF x
  <2>3. Len(lines') = Len(lines) + 1
    BY <1>1, <2>2
  <2> QED
    BY <1>1, <2>1, <2>3
<1>6. ASSUME NEW body \in Projections, ckpts' = WithCheckpoint(body)
      PROVE  /\ DOMAIN ckpts' \subseteq 0..MaxAppends
             /\ \A s \in DOMAIN ckpts' : ckpts'[s] \in Projections
  <2>1. saving.lastSeq \in 0..MaxAppends
    BY <1>2 DEF Projections
  <2>2. DOMAIN ckpts' = DOMAIN ckpts \cup {saving.lastSeq}
    BY <1>6 DEF WithCheckpoint
  <2>3. \A s \in DOMAIN ckpts' : ckpts'[s] \in Projections
    BY <1>2, <1>6 DEF WithCheckpoint
  <2> QED
    BY <1>2, <2>1, <2>2, <2>3
<1>7. Line = Records \cup {Bad}
  BY DEF Line
<1>8. CASE AppendCalled
  <2>1. calls < MaxAppends /\ calls' = calls + 1 /\ nextSeq' = nextSeq + 1
        /\ chain' = Append(chain, [id |-> calls + 1, seq |-> nextSeq])
    BY <1>8 DEF AppendCalled, SeqAfterClaim
  <2>2. nextSeq <= calls + 1
    BY DEF ClaimedInOrder
  <2>3. /\ calls + 1 \in 1..MaxAppends /\ calls' \in 0..MaxAppends
        /\ nextSeq \in 1..MaxAppends /\ nextSeq' \in 1..(MaxAppends + 1)
    BY <1>2, <2>1, <2>2, LogAssumption
  <2>4. [id |-> calls + 1, seq |-> nextSeq] \in Records
    BY <2>3 DEF Records
  <2>5. chain' \in Seq(Records)
    BY <1>1, <2>1, <2>4, AppendProperties
  <2>6. UNCHANGED <<diskVars, up, acked, saving, followVars, crashes, failures,
                    tornWrites, saves>>
    BY <1>8 DEF AppendCalled
  <2> QED
    BY <1>1, <1>2, <1>7, <2>3, <2>5, <2>6 DEF TypeOK, diskVars, followVars
<1>9. CASE WriteDone
  <2>1. /\ HeadLands /\ chain # <<>> /\ chain' = RemoveAt(chain, 1)
        /\ acked' = Append(acked, chain[1].id) /\ torn' = FALSE
        /\ chain[1].id \in 1..MaxAppends
        /\ UNCHANGED <<ckpts, up, nextSeq, saving, followVars, boundVars>>
    BY <1>9, DoneStep DEF HeadLands
  <2>2. acked' \in Seq(1..MaxAppends)
    BY <1>1, <2>1, AppendProperties
  <2>3. chain' \in Seq(Records)
    BY <1>4, <2>1
  <2>4. lines' \in Seq(Line) /\ offset' \in 0..Len(lines')
    BY <1>2, <1>5, <2>1 DEF followVars
  <2> QED
    BY <1>1, <1>2, <1>7, <2>1, <2>2, <2>3, <2>4
    DEF TypeOK, followVars, boundVars
<1>10. CASE WriteFails
  <2>1. /\ chain' \in Seq(Records) /\ torn' \in BOOLEAN
        /\ tornWrites' \in 0..MaxTornWrites /\ failures' \in 0..MaxFailures
        /\ UNCHANGED <<lines, ckpts, up, nextSeq, acked, saving, followVars,
                       calls, crashes, saves>>
    BY <1>1, <1>4, <1>10, FailStep
  <2> QED
    BY <1>1, <1>2, <1>7, <2>1 DEF TypeOK, followVars
<1>11. CASE CheckpointStarts
  <2>1. saves' \in 0..MaxCheckpoints
    BY <1>2, <1>11, LogAssumption DEF CheckpointStarts
  <2>2. saving' \in Projections
    <3>1. Projects(Load, Kept, Len(Kept))
      BY <1>1, <1>2, LoadProjects DEF ClaimedInOrder, Ordered
    <3> QED
      BY <1>11, <3>1 DEF CheckpointStarts, Projects
  <2>3. UNCHANGED <<diskVars, up, nextSeq, chain, acked, followVars, calls,
                    crashes, failures, tornWrites>>
    BY <1>11 DEF CheckpointStarts
  <2> QED
    BY <1>1, <1>2, <1>7, <2>1, <2>2, <2>3 DEF TypeOK, diskVars, followVars
<1>12. CASE CheckpointWritten
  <2>1. /\ ckpts' = WithCheckpoint(saving) /\ saving' = Unreadable
        /\ UNCHANGED <<lines, torn, up, nextSeq, chain, acked, followVars,
                       boundVars>>
    BY <1>12 DEF CheckpointWritten
  <2>2. /\ DOMAIN ckpts' \subseteq 0..MaxAppends
        /\ \A s \in DOMAIN ckpts' : ckpts'[s] \in Projections
    BY <1>2, <1>6, <2>1
  <2> QED
    BY <1>1, <1>2, <1>3, <1>7, <2>1, <2>2 DEF TypeOK, followVars, boundVars
<1>13. CASE Crash
  <2>1. /\ chain' = <<>>
        /\ HeadLands \/ UNCHANGED lines
        /\ torn' \in BOOLEAN
        /\ ckpts' = ckpts \/ ckpts' = WithCheckpoint(Unreadable)
        /\ saving' = Unreadable /\ ~up' /\ crashes' \in 0..MaxCrashes
        /\ UNCHANGED <<nextSeq, acked, followVars, calls, failures, tornWrites,
                       saves>>
    BY <1>13, CrashStep
  <2>2. lines' \in Seq(Line) /\ offset' \in 0..Len(lines')
    BY <1>1, <1>2, <1>5, <2>1 DEF followVars
  <2>3. /\ DOMAIN ckpts' \subseteq 0..MaxAppends
        /\ \A s \in DOMAIN ckpts' : ckpts'[s] \in Projections
    BY <1>2, <1>3, <1>6, <2>1
  <2>4. up' \in BOOLEAN /\ chain' \in Seq(Records)
    <3>1. up' \in BOOLEAN
      BY <1>13 DEF Crash
    <3>2. chain' \in Seq(Records)
      BY <2>1
    <3> QED
      BY <3>1, <3>2, Zenon
  <2> QED
    BY <1>1, <1>2, <1>3, <1>7, <2>1, <2>2, <2>3, <2>4 DEF TypeOK, followVars
<1>14. CASE Open
  <2>1. MaxSeq(Kept) \in 0..MaxAppends
    BY <1>1, MaxSeqBounds
  <2>2. /\ nextSeq' = MaxSeq(Kept) + 1 /\ up' = TRUE /\ torn' = FALSE
        /\ UNCHANGED <<lines, ckpts, chain, acked, saving, followVars,
                       boundVars>>
    BY <1>14 DEF Open, TailAfterOpen, Kept
  <2>3. nextSeq' \in 1..(MaxAppends + 1)
    BY <2>1, <2>2, LogAssumption
  <2> QED
    BY <1>1, <1>2, <1>7, <2>2, <2>3 DEF TypeOK, followVars, boundVars
<1>15. CASE Follow
  <2> DEFINE b == SubSeq(lines, offset + 1, Len(lines))
  <2>1. /\ offset' = Len(lines) /\ seen' = seen \o Parsed(b)
        /\ UNCHANGED <<diskVars, procVars, boundVars>>
    BY <1>15 DEF Follow, Consumed
  <2>2. b \in Seq(Line)
    BY <1>1, <1>2
  <2> HIDE DEF b
  <2>3. Parsed(b) \in Seq(Records)
    BY <2>2, ParsedType
  <2>4. seen' \in Seq(Records)
    BY <1>2, <2>1, <2>3, ConcatProperties
  <2>5. lines' = lines /\ offset' \in 0..Len(lines')
    BY <1>1, <2>1 DEF diskVars
  <2> QED
    BY <1>1, <1>2, <1>7, <2>1, <2>4, <2>5 DEF TypeOK, diskVars, procVars,
       boundVars
<1>16. CASE UNCHANGED vars
  BY <1>1, <1>2, <1>7, <1>16 DEF TypeOK, vars, diskVars, procVars, followVars,
     boundVars
<1> QED
  BY <1>8, <1>9, <1>10, <1>11, <1>12, <1>13, <1>14, <1>15, <1>16 DEF Next

----------------------------------------------------------------------------
(* The theorems                                                            *)

\* The empty log satisfies the invariant.
LEMMA InitHolds ==
  ASSUME Init
  PROVE  IInv
<1> USE DEF Init
<1>1. Kept = <<>> /\ Parsed(<<>>) = <<>>
  BY OnlyEmpty DEF Kept, Parsed
<1>2. TypeOK
  <2>1. /\ <<>> \in Seq(Records \cup {Bad}) /\ <<>> \in Seq(Records)
        /\ <<>> \in Seq(1..MaxAppends) /\ DOMAIN <<>> = {} /\ Len(<<>>) = 0
    OBVIOUS
  <2>2. Unreadable \in Projections
    <3>1. <<0>> \in Seq(0..MaxAppends) /\ 0 \in 0..MaxAppends
      BY LogAssumption
    <3> QED
      BY <3>1 DEF Unreadable, Projections
  <2>3. /\ 1 \in 1..(MaxAppends + 1) /\ 0 \in 0..0 /\ 0 \in 0..MaxAppends
        /\ 0 \in 0..MaxCrashes /\ 0 \in 0..MaxFailures
        /\ 0 \in 0..MaxTornWrites /\ 0 \in 0..MaxCheckpoints
    BY LogAssumption
  <2> QED
    BY <2>1, <2>2, <2>3 DEF TypeOK
<1>3. 1..Len(<<>>) = {} /\ DOMAIN <<>> = {}
  OBVIOUS
<1>4. ClaimedInOrder
  BY <1>1, <1>3 DEF ClaimedInOrder, Ordered, InOrder, Below
<1>5. AckedInOrder
  <2>1. Lost(acked, Kept) = {}
    BY <1>3 DEF Lost
  <2>2. Cardinality(Lost(acked, Kept)) = 0
    BY <2>1, FS_EmptySet
  <2> QED
    BY <1>3, <2>2 DEF AckedInOrder
<1>6. FollowerMissesNothing
  <2>1. SubSeq(<<>>, 1, 0) = <<>>
    BY SubSeqEmpty
  <2> QED
    BY <1>1, <2>1 DEF FollowerMissesNothing
<1>7. CheckpointsProject
  BY <1>3 DEF CheckpointsProject
<1> QED
  BY <1>2, <1>4, <1>5, <1>6, <1>7 DEF IInv

\* Every state the log, its process and its reader can be in satisfies IInv.
THEOREM Invariance == SafeSpec => []IInv
<1>1. Init => IInv
  BY InitHolds
<1>2. IInv /\ [Next]_vars => IInv'
  BY TypeStep, ClaimedStep, AckedStep, FollowerStep, CheckpointStep DEF IInv
<1> QED
  BY <1>1, <1>2, PTL DEF SafeSpec

\* Each variable keeps to its values; in particular the counter never passes
\* the number of calls, however many restarts set it back.
THEOREM TypeCorrect == SafeSpec => []TypeOK
<1>1. IInv => TypeOK
  BY DEF IInv
<1> QED
  BY <1>1, Invariance, PTL

\* EventLog.open and append: the file is in the order of its numbers, and none
\* is used twice, across any number of restarts.
THEOREM FileStaysInOrder == SafeSpec => []FileInOrder
<1>1. IInv => FileInOrder
  BY DEF IInv, ClaimedInOrder, Ordered, InOrder, Before, FileInOrder, Kept
<1> QED
  BY <1>1, Invariance, PTL

\* What append resolved is in the file and in order, but for one record for
\* each write that the disk cut short.
THEOREM AcksAreKept == SafeSpec => []AckedIsKept
<1>1. ASSUME IInv PROVE AckedIsKept
  <2> DEFINE ids == IdsIn(Kept)
  <2>1. Kept \in Seq(Records) /\ acked \in Seq(1..MaxAppends)
    BY <1>1, Types DEF IInv
  <2>2. DOMAIN ids = 1..Len(Kept) /\ \A m \in 1..Len(Kept) : ids[m] = Kept[m].id
    BY DEF IdsIn
  <2>3. ASSUME NEW m \in DOMAIN ids, NEW n \in DOMAIN ids,
               NEW i \in DOMAIN acked, NEW j \in DOMAIN acked,
               ids[m] = acked[i], ids[n] = acked[j], i < j
        PROVE  m < n
    <3>1. i \in 1..Len(acked) /\ j \in 1..Len(acked)
      BY <2>1
    <3>2. acked[i] < acked[j]
      BY <1>1, <2>3, <3>1 DEF IInv, AckedInOrder
    <3>3. /\ m \in 1..Len(Kept) /\ n \in 1..Len(Kept)
          /\ Kept[m].id < Kept[n].id
      BY <2>2, <2>3, <3>2
    <3>4. n < m => Kept[n].id < Kept[m].id
      BY <1>1, <3>3 DEF IInv, ClaimedInOrder, Ordered, InOrder, Before
    <3>5. Kept[m].id \in Nat /\ Kept[n].id \in Nat /\ m \in Nat /\ n \in Nat
      BY <2>1, <3>3, RecordTypes
    <3>6. m # n
      BY <3>3, <3>5
    <3> QED
      BY <3>3, <3>4, <3>5, <3>6
  <2>4. Cardinality({i \in DOMAIN acked : acked[i] \notin Range(ids)})
          <= tornWrites
    BY <1>1 DEF IInv, AckedInOrder, Lost
  <2> HIDE DEF ids
  <2>5. ids = IdsIn(Parsed(lines))
    BY DEF ids, Kept
  <2> QED
    BY <2>3, <2>4, <2>5 DEF AckedIsKept
<1> QED
  BY <1>1, Invariance, PTL

\* readFrom: a follower has what a reader from the start would find before its
\* offset, whatever happens to the writer between two reads.
THEOREM FollowerHasAll == SafeSpec => []FollowerMissesNothing
<1>1. IInv => FollowerMissesNothing
  BY DEF IInv
<1> QED
  BY <1>1, Invariance, PTL

\* SessionStore.load: the fold from any checkpoint holds every record of the
\* log once, in order.
THEOREM LoadIsWhole == SafeSpec => []LoadFoldsEachOnce
<1>1. ASSUME IInv PROVE LoadFoldsEachOnce
  <2>1. /\ lines \in Seq(Line) /\ Kept \in Seq(Records)
        /\ DOMAIN ckpts \subseteq 0..MaxAppends
    BY <1>1, Types DEF IInv, TypeOK
  <2>2. Projects(Load, Kept, Len(Kept))
    BY <1>1, <2>1, LoadProjects DEF IInv, ClaimedInOrder, Ordered
  <2>3. Load.folded = IdsIn(Kept)
    BY <2>1, <2>2, WholeProjection
  <2> QED
    BY <2>3 DEF LoadFoldsEachOnce, Kept
<1> QED
  BY <1>1, Invariance, PTL

----------------------------------------------------------------------------
(* The records of the file are an append-only log.                         *)

Known == Range(acked) \cap Range(IdsIn(Kept))

\* b is a with x at the end.
IsExtended(a, x, b) == b = Append(a, x)

\* One more id is acknowledged ...
LEMMA RangeOfAppend ==
  ASSUME NEW A, NEW a \in Seq(A), NEW x \in A, NEW b, IsExtended(a, x, b)
  PROVE  Range(b) = Range(a) \cup {x}
<1> DEFINE n == Len(a) + 1
<1>1. /\ DOMAIN b = 1..n /\ DOMAIN a = 1..Len(a) /\ Len(a) \in Nat
      /\ \A i \in 1..Len(a) : b[i] = a[i] /\ i \in 1..n
      /\ b[n] = x /\ n \in 1..n
  BY DEF IsExtended
<1>2. Range(b) \subseteq Range(a) \cup {x}
  <2>1. ASSUME NEW i \in 1..n PROVE b[i] \in Range(a) \cup {x}
    <3>1. CASE i = n
      BY <1>1, <3>1
    <3>2. CASE i # n
      <4>1. i \in 1..Len(a)
        BY <1>1, <3>2
      <4> QED
        BY <1>1, <4>1 DEF Range
    <3> QED
      BY <3>1, <3>2
  <2> QED
    BY <1>1, <2>1 DEF Range
<1>3. Range(a) \cup {x} \subseteq Range(b)
  BY <1>1 DEF Range
<1> QED
  BY <1>2, <1>3

\* ... and its record has landed.
LEMMA IdsOfAppend ==
  ASSUME NEW s \in Seq(Records), NEW r \in Records
  PROVE  Range(IdsIn(Append(s, r))) = Range(IdsIn(s)) \cup {r.id}
<1> DEFINE t == Append(s, r)
<1>1. /\ t \in Seq(Records) /\ Len(t) = Len(s) + 1 /\ Len(s) \in Nat
      /\ \A i \in 1..Len(s) : t[i] = s[i]
      /\ t[Len(s) + 1] = r
  BY AppendProperties
<1> HIDE DEF t
<1>2. ASSUME NEW x
      PROVE  x \in Range(IdsIn(t)) <=> x \in Range(IdsIn(s)) \cup {r.id}
  <2>1. x \in Range(IdsIn(t)) <=> \E i \in 1..Len(t) : t[i].id = x
    BY <1>1, IdsRange
  <2>2. x \in Range(IdsIn(s)) <=> \E i \in 1..Len(s) : s[i].id = x
    BY IdsRange
  <2>3. (\E i \in 1..Len(t) : t[i].id = x)
          <=> (\E i \in 1..Len(s) : s[i].id = x) \/ r.id = x
    <3>1. ASSUME NEW i \in 1..Len(t), t[i].id = x
          PROVE  (\E j \in 1..Len(s) : s[j].id = x) \/ r.id = x
      <4>1. i \in 1..Len(s) \/ i = Len(s) + 1
        BY <1>1
      <4> QED
        BY <1>1, <3>1, <4>1
    <3>2. ASSUME NEW i \in 1..Len(s), s[i].id = x
          PROVE  \E j \in 1..Len(t) : t[j].id = x
      <4>1. i \in 1..Len(t) /\ t[i].id = x
        BY <1>1, <3>2
      <4> QED
        BY <4>1
    <3>3. Len(s) + 1 \in 1..Len(t) /\ t[Len(s) + 1].id = r.id
      BY <1>1
    <3> QED
      BY <3>1, <3>2, <3>3
  <2> QED
    BY <2>1, <2>2, <2>3
<1> QED
  BY <1>2 DEF t

\* The refinement mapping, in the terms of this module.
LEMMA MappedState ==
  /\ Abstract!logVars = <<Kept, Known>>
  /\ Abstract!Init <=> Kept = <<>> /\ Known = {}
BY Zenon DEF Abstract!logVars, Abstract!Init, Kept, Known

\* A record of the chain lands: the log commits it.
LEMMA CommitStep ==
  ASSUME TypeOK, ClaimedInOrder, chain # <<>>, Kept' = Append(Kept, chain[1]),
         Known' \in {Known, Known \cup {chain[1].id}}
  PROVE  Abstract!Next
<1> DEFINE r == chain[1]
<1>1. Kept \in Seq(Records) /\ r \in Records /\ 1 \in 1..Len(chain)
  BY Types, HeadRemoved
<1>2. \A i \in 1..Len(Kept) : Before(Kept[i], r)
  BY <1>1 DEF ClaimedInOrder, Ordered
<1>3. \A i \in 1..Len(Kept) : Kept[i].seq < r.seq /\ Kept[i].id # r.id
  <2>1. /\ \A i \in 1..Len(Kept) : Kept[i].id \in Nat
        /\ r.id \in Nat
    BY <1>1, Types, RecordTypes
  <2> QED
    BY <1>2, <2>1 DEF Before
<1> HIDE DEF r
<1>4. Abstract!Commit(r)
  <2>1. r.id \notin {Kept[i].id : i \in 1..Len(Kept)}
    BY <1>3
  <2>2. Kept' = Append(Kept, r)
    BY DEF r
  <2> QED
    BY <1>3, <2>1, <2>2 DEF Abstract!Commit, Abstract!IdsOf, Kept
<1>5. Known' \in {Known, Known \cup {r.id}}
  BY DEF r
<1> QED
  BY <1>1, <1>4, <1>5, Zenon DEF Abstract!Next, Known, Kept

\* Every step commits a record or leaves the log and what is known of it alone.
LEMMA RefinedStep ==
  ASSUME TypeOK, ClaimedInOrder, AckedInOrder, [Next]_vars
  PROVE  [Abstract!Next]_(Abstract!logVars)
<1>1. /\ Kept \in Seq(Records) /\ chain \in Seq(Records)
      /\ acked \in Seq(1..MaxAppends) /\ torn \in BOOLEAN
  BY Types
<1>2. ASSUME Kept' = Kept, Known' = Known
      PROVE  [Abstract!Next]_(Abstract!logVars)
  <2>1. Abstract!logVars' = Abstract!logVars
    BY <1>2, Zenon DEF Abstract!logVars, Kept, Known
  <2> QED
    BY <2>1
<1>3. ASSUME UNCHANGED <<lines, acked>> PROVE [Abstract!Next]_(Abstract!logVars)
  BY <1>2, <1>3 DEF Kept, Known
<1>4. CASE AppendCalled
  BY <1>3, <1>4 DEF AppendCalled, diskVars
<1>5. CASE WriteDone
  <2> DEFINE x == chain[1].id
  <2>1. /\ HeadLands /\ chain # <<>> /\ acked' = Append(acked, x)
        /\ x \in 1..MaxAppends /\ chain[1] \in Records /\ 1 \in 1..Len(chain)
    BY <1>1, <1>5, DoneStep, HeadRemoved DEF HeadLands
  <2>2. Range(acked') = Range(acked) \cup {x}
    <3>1. acked' = Append(acked, x) /\ x \in 1..MaxAppends
      BY <2>1
    <3> DEFINE A == 1..MaxAppends
    <3>2. acked \in Seq(A) /\ x \in A /\ IsExtended(acked, x, acked')
      BY <1>1, <3>1 DEF IsExtended
    <3> HIDE DEF x, A
    <3>3. ASSUME NEW a \in Seq(A), NEW b, IsExtended(a, x, b)
          PROVE  Range(b) = Range(a) \cup {x}
      BY <3>2, <3>3, RangeOfAppend
    <3>4. \A b : IsExtended(acked, x, b) => Range(b) = Range(acked) \cup {x}
      BY <3>2, <3>3
    <3> QED
      BY <3>2, <3>4
  <2>3. CASE torn
    <3>1. Kept' = Kept
      BY <2>1, <2>3, HeadLandsInLog
    <3>2. x \notin Range(IdsIn(Kept))
      <4>1. \A i \in 1..Len(Kept) : Kept[i].id < x
        BY <2>1 DEF ClaimedInOrder, Ordered, Before
      <4>2. \A i \in 1..Len(Kept) : Kept[i].id \in Nat
        BY <1>1, RecordTypes
      <4>3. x \in Nat
        BY <2>1, LogAssumption
      <4>4. \A i \in 1..Len(Kept) : Kept[i].id # x
        BY <4>1, <4>2, <4>3
      <4> QED
        BY <1>1, <4>4, IdsRange
    <3>3. Known' = Known
      BY <2>2, <3>1, <3>2 DEF Known
    <3> QED
      BY <1>2, <3>1, <3>3
  <2>4. CASE ~torn
    <3>1. Kept' = Append(Kept, chain[1])
      BY <2>1, <2>4, HeadLandsInLog
    <3>2. Range(IdsIn(Append(Kept, chain[1]))) = Range(IdsIn(Kept)) \cup {x}
      BY <1>1, <2>1, IdsOfAppend
    <3>3. Known' = Known \cup {x}
      <4>1. Known' = Range(acked') \cap Range(IdsIn(Kept'))
        BY DEF Known, IdsIn, Range
      <4> HIDE DEF x
      <4> QED
        BY <2>2, <3>1, <3>2, <4>1 DEF Known
    <3> QED
      BY <2>1, <3>1, <3>3, CommitStep
  <2> QED
    BY <1>1, <2>3, <2>4
<1>6. CASE WriteFails
  BY <1>3, <1>6, FailStep
<1>7. CASE CheckpointStarts
  BY <1>3, <1>7 DEF CheckpointStarts, diskVars
<1>8. CASE CheckpointWritten
  BY <1>3, <1>8 DEF CheckpointWritten
<1>9. CASE Crash
  <2>1. /\ HeadLands \/ UNCHANGED lines
        /\ acked' = acked
    BY <1>9, CrashStep
  <2>2. CASE HeadLands
    <3> DEFINE x == chain[1].id
    <3>1. /\ chain # <<>> /\ chain[1] \in Records /\ 1 \in 1..Len(chain)
          /\ x \in 1..MaxAppends
      BY <1>1, <2>2, HeadRemoved, RecordTypes DEF HeadLands
    <3>2. x \notin Range(acked)
      <4>1. \A i \in 1..Len(acked) : acked[i] < x /\ acked[i] \in 1..MaxAppends
        BY <1>1, <3>1, ElementOfSeq DEF AckedInOrder
      <4>2. \A i \in 1..Len(acked) : acked[i] # x
        BY <3>1, <4>1, LogAssumption
      <4>3. DOMAIN acked = 1..Len(acked)
        BY <1>1
      <4> QED
        BY <4>2, <4>3 DEF Range
    <3>3. CASE torn
      <4>1. Kept' = Kept
        BY <2>2, <3>3, HeadLandsInLog
      <4>2. Known' = Known
        BY <2>1, <4>1 DEF Known
      <4> QED
        BY <1>2, <4>1, <4>2
    <3>4. CASE ~torn
      <4>1. Kept' = Append(Kept, chain[1])
        BY <2>2, <3>4, HeadLandsInLog
      <4>2. Range(IdsIn(Append(Kept, chain[1]))) = Range(IdsIn(Kept)) \cup {x}
        BY <1>1, <3>1, IdsOfAppend
      <4>3. Known' = Known
        <5>1. Known' = Range(acked) \cap Range(IdsIn(Kept'))
          BY <2>1 DEF Known, IdsIn, Range
        <5> HIDE DEF x
        <5> QED
          BY <3>2, <4>1, <4>2, <5>1 DEF Known
      <4> QED
        BY <3>1, <4>1, <4>3, CommitStep
    <3> QED
      BY <1>1, <3>3, <3>4
  <2> QED
    BY <1>3, <2>1, <2>2
<1>10. CASE Open
  BY <1>3, <1>10 DEF Open
<1>11. CASE Follow
  BY <1>3, <1>11 DEF Follow, diskVars, procVars
<1>12. CASE UNCHANGED vars
  BY <1>3, <1>12 DEF vars, diskVars, procVars
<1> QED
  BY <1>4, <1>5, <1>6, <1>7, <1>8, <1>9, <1>10, <1>11, <1>12 DEF Next

\* The file refines the append-only log: a step commits one record, after all
\* that are there and never before its writer is told, or it changes nothing
\* that a reader of the log sees.
THEOREM LogIsAppendOnly == SafeSpec => ImplementsAppendLog
<1>1. Init => Abstract!Init
  <2>1. ASSUME Init PROVE Kept = <<>> /\ Known = {}
    <3>1. Kept = <<>>
      BY <2>1, OnlyEmpty DEF Init, Kept, Parsed
    <3>2. Range(acked) = {}
      BY <2>1 DEF Init, Range
    <3> QED
      BY <3>1, <3>2 DEF Known
  <2> QED
    BY <2>1, MappedState
<1>2. IInv /\ [Next]_vars => [Abstract!Next]_(Abstract!logVars)
  BY RefinedStep DEF IInv
<1> QED
  BY <1>1, <1>2, Invariance, PTL
  DEF SafeSpec, ImplementsAppendLog, Abstract!Spec
=============================================================================
