---------------------------- MODULE DotRankProofs ----------------------------
(* Proofs about DotRank.                                                   *)
EXTENDS DotRank, ChainsProofs, SequenceTheorems, TLAPS

-----------------------------------------------------------------------------
(* Lists without repetition.                                               *)

\* L is a list of members of S, each of them once.
Once(L, S) == L \in Seq(Nat) /\ IsInjective(L) /\ Range(L) = S

\* M has the members of L up to the i-th, in their places.
Keeps(L, M, i) == \A j \in 1 .. i : j \in DOMAIN M /\ M[j] = L[j]

LEMMA OnceIs ==
  ASSUME NEW L, NEW S, Once(L, S)
  PROVE  /\ L \in Seq(Nat) /\ Len(L) \in Nat /\ DOMAIN L = 1 .. Len(L)
         /\ \A i, j \in 1 .. Len(L) : L[i] = L[j] => i = j
         /\ \A i \in 1 .. Len(L) : L[i] \in S
         /\ \A e \in S : e \in Nat /\ \E i \in 1 .. Len(L) : L[i] = e
BY DEF Once, IsInjective, Range

LEMMA OnceMade ==
  ASSUME NEW L \in Seq(Nat), NEW S,
         \A i, j \in 1 .. Len(L) : L[i] = L[j] => i = j,
         \A i \in 1 .. Len(L) : L[i] \in S,
         \A e \in S : \E i \in 1 .. Len(L) : L[i] = e
  PROVE  Once(L, S)
BY DEF Once, IsInjective, Range

LEMMA MinOne == ASSUME NEW i \in Nat PROVE Min({i}) = i
BY DEF Min

LEMMA ZapOut == ASSUME NEW L, NEW S, Once(L, S), NEW e, e \notin S PROVE Zap(L, e) = L
BY OnceIs DEF Zap

LEMMA ZapIs ==
  ASSUME NEW L, NEW S, Once(L, S), NEW i \in 1 .. Len(L)
  PROVE  /\ Once(Zap(L, L[i]), S \ {L[i]})
         /\ Len(Zap(L, L[i])) = Len(L) - 1
         /\ Keeps(L, Zap(L, L[i]), i - 1)
<1> DEFINE n == Len(L)
           M == [j \in 1 .. n - 1 |-> IF j = i THEN L[n] ELSE L[j]]
<1>1. /\ n \in Nat /\ DOMAIN L = 1 .. n /\ L \in Seq(Nat) /\ n >= 1 /\ i \in 1 .. n
      /\ \A j \in 1 .. n : L[j] \in Nat
  BY OnceIs
<1>2. Zap(L, L[i]) = M
  <2>1. {j \in DOMAIN L : L[j] = L[i]} = {i} /\ i \in Nat
    <3>1. \A j \in DOMAIN L : L[j] = L[i] => j = i
      BY <1>1, OnceIs
    <3> HIDE DEF n
    <3> QED BY <1>1, <3>1
  <2>2. Zap(L, L[i]) = Front(ReplaceAt(L, i, Last(L)))
    BY <2>1, MinOne DEF Zap
  <2>3. ReplaceAt(L, i, Last(L)) = [j \in 1 .. n |-> IF j = i THEN L[n] ELSE L[j]]
    BY <1>1 DEF ReplaceAt, Last
  <2>4. PICK R : R = [j \in 1 .. n |-> IF j = i THEN L[n] ELSE L[j]]
    OBVIOUS
  <2>5. R \in Seq(Nat) /\ Len(R) = n
    BY <1>1, <2>4
  <2>6. Front(R) = [j \in 1 .. n - 1 |-> R[j]]
    BY <1>1, <2>5 DEF Front
  <2>7. Front(R) = M
    <3>1. \A j \in 1 .. n - 1 : j \in 1 .. n
      BY <1>1
    <3>2. \A j \in 1 .. n - 1 : R[j] = IF j = i THEN L[n] ELSE L[j]
      BY <2>4, <3>1
    <3> QED BY <2>6, <3>2
  <2> HIDE DEF M, n
  <2> QED BY <2>2, <2>3, <2>4, <2>7
<1>3. PICK Z : Z = Zap(L, L[i])
  OBVIOUS
<1>4. Z \in Seq(Nat) /\ Len(Z) = n - 1 /\ \A j \in 1 .. n - 1 : Z[j] = IF j = i THEN L[n] ELSE L[j]
  BY <1>1, <1>2, <1>3
<1>5. \A j, k \in 1 .. n : L[j] = L[k] => j = k
  BY OnceIs
<1> HIDE DEF n, M
<1>6. \A j, k \in 1 .. Len(Z) : Z[j] = Z[k] => j = k
  <2> TAKE j, k \in 1 .. Len(Z)
  <2>1. j \in 1 .. n /\ k \in 1 .. n /\ j # n /\ k # n /\ n \in 1 .. n
    BY <1>1, <1>4
  <2>2. Z[j] = (IF j = i THEN L[n] ELSE L[j]) /\ Z[k] = IF k = i THEN L[n] ELSE L[k]
    BY <1>4
  <2> QED BY <1>5, <2>1, <2>2
<1>7. \A j \in 1 .. Len(Z) : Z[j] \in S \ {L[i]}
  <2> TAKE j \in 1 .. Len(Z)
  <2>1. j \in 1 .. n /\ n \in 1 .. n /\ j # n
    BY <1>1, <1>4
  <2>2. \A k \in 1 .. n : L[k] \in S
    BY OnceIs DEF n
  <2> QED BY <1>1, <1>4, <1>5, <2>1, <2>2
<1>8. ASSUME NEW e \in S \ {L[i]} PROVE \E j \in 1 .. Len(Z) : Z[j] = e
  <2>1. PICK k \in 1 .. n : L[k] = e
    BY OnceIs DEF n
  <2>2. k # i
    BY <2>1
  <2>3. CASE k = n
    <3>1. i \in 1 .. Len(Z) /\ Z[i] = e
      BY <1>1, <1>4, <2>1, <2>2, <2>3
    <3> QED BY <3>1
  <2>4. CASE k # n
    <3>1. k \in 1 .. Len(Z) /\ Z[k] = e
      BY <1>1, <1>4, <2>1, <2>2, <2>4
    <3> QED BY <3>1
  <2> QED BY <2>3, <2>4
<1>9. Once(Z, S \ {L[i]})
  <2>1. PICK T : T = S \ {L[i]}
    OBVIOUS
  <2> QED BY <2>1, <1>4, <1>6, <1>7, <1>8, OnceMade
<1>10. Keeps(L, Z, i - 1)
  <2> SUFFICES ASSUME NEW j \in 1 .. i - 1 PROVE j \in DOMAIN Z /\ Z[j] = L[j]
    BY DEF Keeps
  <2>1. j \in 1 .. n - 1 /\ j # i
    BY <1>1
  <2> QED BY <1>4, <2>1
<1> QED BY <1>3, <1>4, <1>9, <1>10 DEF n

LEMMA AppendIs ==
  ASSUME NEW L, NEW S, Once(L, S), NEW e \in Nat, e \notin S
  PROVE  /\ Once(Append(L, e), S \cup {e})
         /\ Len(Append(L, e)) = Len(L) + 1
         /\ Keeps(L, Append(L, e), Len(L)) /\ Append(L, e)[Len(L) + 1] = e
<1>1. PICK M : M = Append(L, e)
  OBVIOUS
<1>2. /\ L \in Seq(Nat) /\ Len(L) \in Nat /\ M \in Seq(Nat) /\ Len(M) = Len(L) + 1
      /\ \A j \in 1 .. Len(L) : j \in DOMAIN M /\ M[j] = L[j]
      /\ M[Len(L) + 1] = e
  BY <1>1, OnceIs
<1>3. \A j, k \in 1 .. Len(M) : M[j] = M[k] => j = k
  <2>1. \A j \in 1 .. Len(L) : L[j] # e
    BY OnceIs
  <2>2. \A j \in 1 .. Len(M) : j \in 1 .. Len(L) \/ j = Len(L) + 1
    BY <1>2
  <2>3. \A j, k \in 1 .. Len(L) : L[j] = L[k] => j = k
    BY OnceIs
  <2> QED BY <1>2, <2>1, <2>2, <2>3
<1>4. \A j \in 1 .. Len(M) : M[j] \in S \cup {e}
  <2>1. \A j \in 1 .. Len(M) : j \in 1 .. Len(L) \/ j = Len(L) + 1
    BY <1>2
  <2> QED BY <1>2, <2>1, OnceIs
<1>5. ASSUME NEW x \in S \cup {e} PROVE \E j \in 1 .. Len(M) : M[j] = x
  <2>1. CASE x = e
    <3>1. Len(L) + 1 \in 1 .. Len(M)
      BY <1>2
    <3> QED BY <1>2, <2>1, <3>1
  <2>2. CASE x # e
    <3>1. PICK j \in 1 .. Len(L) : L[j] = x
      BY <2>2, OnceIs
    <3>2. j \in 1 .. Len(M)
      BY <1>2
    <3> QED BY <1>2, <3>1, <3>2
  <2> QED BY <2>1, <2>2
<1>6. Once(M, S \cup {e})
  <2>1. PICK T : T = S \cup {e}
    OBVIOUS
  <2> QED BY <2>1, <1>2, <1>3, <1>4, <1>5, OnceMade
<1> QED BY <1>1, <1>2, <1>6 DEF Keeps

-----------------------------------------------------------------------------
(* The fast graph.  A is the set of the edges that are in the lists.       *)

Fast(N) == [tail : N, head : N, minlen : Nat, weight : Nat, virt : Nat]
FastGraph(N) == [fast : Seq(Fast(N)), out : [N -> Seq(Nat)], in : [N -> Seq(Nat)]]

From(f, A, n) == {e \in A : f[e].tail = n}
To(f, A, n) == {e \in A : f[e].head = n}

Lists(g, N, A) ==
  /\ g \in FastGraph(N)
  /\ A \subseteq DOMAIN g.fast
  /\ \A e \in DOMAIN g.fast : g.fast[e].tail # g.fast[e].head
  /\ \A n \in N : Once(g.out[n], From(g.fast, A, n)) /\ Once(g.in[n], To(g.fast, A, n))

Joins(f, e, u, v) == f[e].tail = u /\ f[e].head = v
NoneJoins(f, A, u, v) == \A e \in A : ~Joins(f, e, u, v)

\* no two edges go from one node to one other
Simple(f, A) == \A d, e \in A : f[d].tail = f[e].tail /\ f[d].head = f[e].head => d = e

SameEnds(f, h) ==
  /\ DOMAIN f = DOMAIN h
  /\ \A e \in DOMAIN f : f[e].tail = h[e].tail /\ f[e].head = h[e].head

LEMMA ListsIs ==
  ASSUME NEW g, NEW N, NEW A, Lists(g, N, A)
  PROVE  /\ g.fast \in Seq(Fast(N)) /\ g.out \in [N -> Seq(Nat)] /\ g.in \in [N -> Seq(Nat)]
         /\ g = [fast |-> g.fast, out |-> g.out, in |-> g.in]
         /\ Len(g.fast) \in Nat /\ DOMAIN g.fast = 1 .. Len(g.fast)
         /\ \A e \in DOMAIN g.fast : /\ g.fast[e] \in Fast(N) /\ g.fast[e].tail \in N
                                     /\ g.fast[e].head \in N /\ e \in Nat /\ e # NONE
                                     /\ g.fast[e].tail # g.fast[e].head
                                     /\ g.fast[e].minlen \in Nat /\ g.fast[e].weight \in Nat
                                     /\ g.fast[e].virt \in Nat
         /\ A \subseteq DOMAIN g.fast
<1>1. g \in FastGraph(N) /\ A \subseteq DOMAIN g.fast
  BY DEF Lists
<1>2. /\ g.fast \in Seq(Fast(N)) /\ g.out \in [N -> Seq(Nat)] /\ g.in \in [N -> Seq(Nat)]
      /\ g = [fast |-> g.fast, out |-> g.out, in |-> g.in]
  BY <1>1 DEF FastGraph
<1>3. PICK f : f = g.fast
  OBVIOUS
<1>4. f \in Seq(Fast(N)) /\ Len(f) \in Nat /\ DOMAIN f = 1 .. Len(f)
  BY <1>2, <1>3
<1>5. ASSUME NEW e \in DOMAIN f
      PROVE  /\ f[e] \in Fast(N) /\ e \in Nat /\ e # NONE
             /\ f[e].tail \in N /\ f[e].head \in N /\ f[e].tail # f[e].head
             /\ f[e].minlen \in Nat /\ f[e].weight \in Nat /\ f[e].virt \in Nat
  <2>1. f[e] \in Fast(N) /\ e \in Nat /\ e # NONE
    BY <1>4 DEF NONE
  <2>2. f[e].tail # f[e].head
    BY <1>3 DEF Lists
  <2> QED BY <2>1, <2>2 DEF Fast
<1> QED BY <1>1, <1>2, <1>3, <1>4, <1>5

\* Edges that keep their ends stay in their lists.
LEMMA Relabelled ==
  ASSUME NEW g, NEW N, NEW A, Lists(g, N, A), NEW f \in Seq(Fast(N)), SameEnds(g.fast, f)
  PROVE  /\ Lists([fast |-> f, out |-> g.out, in |-> g.in], N, A)
         /\ Simple(g.fast, A) => Simple(f, A)
<1>1. /\ DOMAIN f = DOMAIN g.fast /\ A \subseteq DOMAIN g.fast
      /\ \A e \in DOMAIN f : f[e].tail = g.fast[e].tail /\ f[e].head = g.fast[e].head
  BY DEF SameEnds, Lists
<1>2. \A n \in N : From(f, A, n) = From(g.fast, A, n) /\ To(f, A, n) = To(g.fast, A, n)
  BY <1>1 DEF From, To
<1>3. Simple(g.fast, A) => Simple(f, A)
  BY <1>1 DEF Simple
<1>4. [fast |-> f, out |-> g.out, in |-> g.in] \in FastGraph(N)
  BY ListsIs DEF FastGraph
<1>5. \A e \in DOMAIN f : f[e].tail # f[e].head
  BY <1>1, ListsIs
<1> QED BY <1>1, <1>2, <1>3, <1>4, <1>5 DEF Lists

LEMMA FindIs ==
  ASSUME NEW g, NEW N, NEW A, Lists(g, N, A), NEW u \in N, NEW v \in N
  PROVE  /\ Find(g, u, v) = NONE => NoneJoins(g.fast, A, u, v)
         /\ Find(g, u, v) # NONE => Find(g, u, v) \in A /\ Joins(g.fast, Find(g, u, v), u, v)
<1> DEFINE L == IF Len(g.out[u]) < Len(g.in[v]) THEN g.out[u] ELSE g.in[v]
           I == {i \in DOMAIN L : g.fast[L[i]].tail = u /\ g.fast[L[i]].head = v}
<1>1. Find(g, u, v) = IF I = {} THEN NONE ELSE L[Min(I)]
  BY DEF Find
<1>2. PICK S \in SUBSET A : Once(L, S) /\ \A e \in A : Joins(g.fast, e, u, v) => e \in S
  <2>1. Once(g.out[u], From(g.fast, A, u)) /\ Once(g.in[v], To(g.fast, A, v))
    BY DEF Lists
  <2>2. CASE Len(g.out[u]) < Len(g.in[v])
    BY <2>1, <2>2 DEF From, Joins
  <2>3. CASE ~(Len(g.out[u]) < Len(g.in[v]))
    BY <2>1, <2>3 DEF To, Joins
  <2> QED BY <2>2, <2>3
<1> HIDE DEF L
<1>3. DOMAIN L = 1 .. Len(L) /\ Len(L) \in Nat /\ \A i \in 1 .. Len(L) : L[i] \in A
  BY <1>2, OnceIs
<1>4. CASE I = {}
  <2>1. NoneJoins(g.fast, A, u, v)
    <3> SUFFICES ASSUME NEW e \in A, Joins(g.fast, e, u, v) PROVE FALSE
      BY DEF NoneJoins
    <3>1. PICK i \in 1 .. Len(L) : L[i] = e
      BY <1>2, OnceIs
    <3> QED BY <1>3, <1>4, <3>1 DEF Joins
  <2> QED BY <1>1, <1>4, <2>1
<1>5. CASE I # {}
  <2>1. I \subseteq Nat
    BY <1>3
  <2>2. Min(I) \in I
    <3> HIDE DEF I
    <3>1. \E x \in I : \A y \in I : x <= y
      BY <1>5, <2>1, NatLeast
    <3> QED BY <3>1 DEF Min
  <2>3. Find(g, u, v) = L[Min(I)] /\ Find(g, u, v) \in A
    BY <1>1, <1>3, <1>5, <2>2
  <2>4. Find(g, u, v) # NONE
    BY <2>3, ListsIs
  <2> QED BY <2>2, <2>3, <2>4 DEF Joins
<1> QED BY <1>4, <1>5

\* A new edge is at the end of the lists of its ends.
Gained(g, h, N, A, u, v, minlen, weight) ==
  /\ Lists(h, N, A \cup {Len(g.fast) + 1})
  /\ h.fast = Append(g.fast, [tail |-> u, head |-> v, minlen |-> minlen,
                              weight |-> weight, virt |-> NONE])
  /\ Simple(g.fast, A) /\ NoneJoins(g.fast, A, u, v) =>
       Simple(h.fast, A \cup {Len(g.fast) + 1})

LEMMA LongerBy ==
  ASSUME NEW S, NEW s \in Seq(S), NEW x \in S
  PROVE  /\ Append(s, x) \in Seq(S) /\ DOMAIN Append(s, x) = DOMAIN s \cup {Len(s) + 1}
         /\ Append(s, x)[Len(s) + 1] = x /\ \A d \in DOMAIN s : Append(s, x)[d] = s[d]
OBVIOUS

LEMMA AddIs ==
  ASSUME NEW g, NEW N, NEW A, Lists(g, N, A), NEW u \in N, NEW v \in N, u # v,
         NEW minlen \in Nat, NEW weight \in Nat
  PROVE  Gained(g, Add(g, u, v, minlen, weight), N, A, u, v, minlen, weight)
<1> DEFINE e == Len(g.fast) + 1
           x == [tail |-> u, head |-> v, minlen |-> minlen, weight |-> weight, virt |-> NONE]
<1>1. PICK h : h = Add(g, u, v, minlen, weight)
  OBVIOUS
<1>2. PICK B : B = A \cup {e}
  OBVIOUS
<1>3. /\ h = [fast |-> Append(g.fast, x), out |-> [g.out EXCEPT ![u] = Append(@, e)],
              in |-> [g.in EXCEPT ![v] = Append(@, e)]]
      /\ h.fast = Append(g.fast, x)
      /\ h.out = [g.out EXCEPT ![u] = Append(@, e)] /\ h.in = [g.in EXCEPT ![v] = Append(@, e)]
  BY <1>1 DEF Add
<1>4. /\ e \in Nat /\ e \notin DOMAIN g.fast /\ e \notin A /\ A \subseteq DOMAIN g.fast
      /\ g.fast \in Seq(Fast(N)) /\ g.out \in [N -> Seq(Nat)] /\ g.in \in [N -> Seq(Nat)]
  BY ListsIs
<1>5. x \in Fast(N) /\ x.tail = u /\ x.head = v
  BY DEF Fast, NONE
<1>6. /\ h.fast \in Seq(Fast(N)) /\ DOMAIN h.fast = DOMAIN g.fast \cup {e}
      /\ h.fast[e] = x /\ \A d \in DOMAIN g.fast : h.fast[d] = g.fast[d]
  <2> HIDE DEF x
  <2>1. PICK y \in Fast(N) : y = x
    BY <1>5
  <2> QED BY ONLY <1>3, <1>4, <2>1, LongerBy DEF e
<1>7. \A d \in A : d # e /\ h.fast[d] = g.fast[d]
  BY <1>4, <1>6
<1>8. /\ From(h.fast, B, u) = From(g.fast, A, u) \cup {e}
      /\ \A n \in N : n # u => From(h.fast, B, n) = From(g.fast, A, n)
  BY <1>2, <1>5, <1>6, <1>7 DEF From
<1>9. /\ To(h.fast, B, v) = To(g.fast, A, v) \cup {e}
      /\ \A n \in N : n # v => To(h.fast, B, n) = To(g.fast, A, n)
  BY <1>2, <1>5, <1>6, <1>7 DEF To
<1> HIDE DEF x, e
<1>10. ASSUME NEW n \in N PROVE Once(h.out[n], From(h.fast, B, n))
  <2>1. Once(g.out[n], From(g.fast, A, n)) /\ e \notin From(g.fast, A, n)
    BY <1>4 DEF Lists, From
  <2>2. CASE n = u
    <3>1. h.out[n] = Append(g.out[n], e)
      BY <1>3, <1>4, <2>2
    <3>2. Once(Append(g.out[n], e), From(g.fast, A, n) \cup {e})
      BY <1>4, <2>1, AppendIs
    <3> QED BY <1>8, <2>2, <3>1, <3>2
  <2>3. CASE n # u
    <3>1. h.out[n] = g.out[n]
      BY <1>3, <1>4, <2>3
    <3> QED BY <1>8, <2>1, <2>3, <3>1
  <2> QED BY <2>2, <2>3
<1>11. ASSUME NEW n \in N PROVE Once(h.in[n], To(h.fast, B, n))
  <2>1. Once(g.in[n], To(g.fast, A, n)) /\ e \notin To(g.fast, A, n)
    BY <1>4 DEF Lists, To
  <2>2. CASE n = v
    <3>1. h.in[n] = Append(g.in[n], e)
      BY <1>3, <1>4, <2>2
    <3>2. Once(Append(g.in[n], e), To(g.fast, A, n) \cup {e})
      BY <1>4, <2>1, AppendIs
    <3> QED BY <1>9, <2>2, <3>1, <3>2
  <2>3. CASE n # v
    <3>1. h.in[n] = g.in[n]
      BY <1>3, <1>4, <2>3
    <3> QED BY <1>9, <2>1, <2>3, <3>1
  <2> QED BY <2>2, <2>3
<1>12. h \in FastGraph(N)
  <2>1. \A n \in N : h.out[n] \in Seq(Nat) /\ h.in[n] \in Seq(Nat)
    BY <1>10, <1>11 DEF Once
  <2>2. DOMAIN h.out = N /\ DOMAIN h.in = N
    BY <1>3, <1>4
  <2>3. h.out \in [N -> Seq(Nat)] /\ h.in \in [N -> Seq(Nat)]
    BY <1>3, <1>4, <2>1, <2>2
  <2> QED BY <1>3, <1>6, <2>3 DEF FastGraph
<1>13. \A d \in DOMAIN h.fast : h.fast[d].tail # h.fast[d].head
  BY <1>5, <1>6, ListsIs
<1>14. Lists(h, N, B)
  BY <1>2, <1>4, <1>6, <1>10, <1>11, <1>12, <1>13 DEF Lists
<1>15. Simple(g.fast, A) /\ NoneJoins(g.fast, A, u, v) => Simple(h.fast, B)
  <2> SUFFICES ASSUME Simple(g.fast, A), NoneJoins(g.fast, A, u, v), NEW c \in B, NEW d \in B,
                      h.fast[c].tail = h.fast[d].tail, h.fast[c].head = h.fast[d].head
               PROVE  c = d
    BY DEF Simple
  <2>1. c \in A /\ d \in A => c = d
    BY <1>7 DEF Simple
  <2>2. c \in A /\ d = e => FALSE
    BY <1>5, <1>6, <1>7 DEF NoneJoins, Joins
  <2>3. d \in A /\ c = e => FALSE
    BY <1>5, <1>6, <1>7 DEF NoneJoins, Joins
  <2> QED BY <1>2, <2>1, <2>2, <2>3
<1> QED BY <1>1, <1>2, <1>3, <1>14, <1>15 DEF e, x, Gained

\* Zap takes an edge out of the list of its end.
LEMMA ZapAt ==
  ASSUME NEW L, NEW S, Once(L, S), NEW e \in S
  PROVE  Once(Zap(L, e), S \ {e})
<1>1. PICK i \in 1 .. Len(L) : L[i] = e
  BY OnceIs
<1> QED BY <1>1, ZapIs

LEMMA DeleteIs ==
  ASSUME NEW g, NEW N, NEW A, Lists(g, N, A), NEW e \in A
  PROVE  /\ Lists(Delete(g, e), N, A \ {e}) /\ Delete(g, e).fast = g.fast
         /\ Simple(g.fast, A) => Simple(g.fast, A \ {e})
<1> DEFINE u == g.fast[e].tail
           v == g.fast[e].head
<1>1. PICK h : h = Delete(g, e)
  OBVIOUS
<1>2. PICK B : B = A \ {e}
  OBVIOUS
<1>3. /\ u \in N /\ v \in N /\ g.fast \in Seq(Fast(N)) /\ A \subseteq DOMAIN g.fast
      /\ g.out \in [N -> Seq(Nat)] /\ g.in \in [N -> Seq(Nat)]
      /\ g = [fast |-> g.fast, out |-> g.out, in |-> g.in]
  BY ListsIs
<1>4. /\ h = [fast |-> g.fast, out |-> [g.out EXCEPT ![u] = Zap(@, e)],
              in |-> [g.in EXCEPT ![v] = Zap(@, e)]]
      /\ h.fast = g.fast
      /\ h.out = [g.out EXCEPT ![u] = Zap(@, e)] /\ h.in = [g.in EXCEPT ![v] = Zap(@, e)]
  BY <1>1, <1>3 DEF Delete
<1>5. /\ From(h.fast, B, u) = From(g.fast, A, u) \ {e} /\ e \in From(g.fast, A, u)
      /\ \A n \in N : n # u => From(h.fast, B, n) = From(g.fast, A, n)
  BY <1>2, <1>4 DEF From
<1>6. /\ To(h.fast, B, v) = To(g.fast, A, v) \ {e} /\ e \in To(g.fast, A, v)
      /\ \A n \in N : n # v => To(h.fast, B, n) = To(g.fast, A, n)
  BY <1>2, <1>4 DEF To
<1> HIDE DEF u, v
<1>7. ASSUME NEW n \in N PROVE Once(h.out[n], From(h.fast, B, n))
  <2>1. Once(g.out[n], From(g.fast, A, n))
    BY DEF Lists
  <2>2. CASE n = u
    <3>1. h.out[n] = Zap(g.out[n], e)
      BY <1>3, <1>4, <2>2
    <3> QED BY <1>5, <2>1, <2>2, <3>1, ZapAt
  <2>3. CASE n # u
    <3>1. h.out[n] = g.out[n]
      BY <1>3, <1>4, <2>3
    <3> QED BY <1>5, <2>1, <2>3, <3>1
  <2> QED BY <2>2, <2>3
<1>8. ASSUME NEW n \in N PROVE Once(h.in[n], To(h.fast, B, n))
  <2>1. Once(g.in[n], To(g.fast, A, n))
    BY DEF Lists
  <2>2. CASE n = v
    <3>1. h.in[n] = Zap(g.in[n], e)
      BY <1>3, <1>4, <2>2
    <3> QED BY <1>6, <2>1, <2>2, <3>1, ZapAt
  <2>3. CASE n # v
    <3>1. h.in[n] = g.in[n]
      BY <1>3, <1>4, <2>3
    <3> QED BY <1>6, <2>1, <2>3, <3>1
  <2> QED BY <2>2, <2>3
<1>9. h \in FastGraph(N)
  <2>1. \A n \in N : h.out[n] \in Seq(Nat) /\ h.in[n] \in Seq(Nat)
    BY <1>7, <1>8 DEF Once
  <2>2. DOMAIN h.out = N /\ DOMAIN h.in = N
    BY <1>3, <1>4
  <2>3. h.out \in [N -> Seq(Nat)] /\ h.in \in [N -> Seq(Nat)]
    BY <1>3, <1>4, <2>1, <2>2
  <2> QED BY <1>3, <1>4, <2>3 DEF FastGraph
<1>10. \A d \in DOMAIN h.fast : h.fast[d].tail # h.fast[d].head
  BY <1>4, ListsIs
<1>11. Lists(h, N, B)
  BY <1>2, <1>3, <1>4, <1>7, <1>8, <1>9, <1>10 DEF Lists
<1> QED BY <1>1, <1>2, <1>4, <1>11 DEF Simple

\* What was an edge still is, with the same ends.
Extends(f, h) ==
  /\ DOMAIN f \subseteq DOMAIN h
  /\ \A e \in DOMAIN f : h[e].tail = f[e].tail /\ h[e].head = f[e].head

\* Each edge of h stands for what it stood for in f, or for an edge of h.
VirtKept(f, h) ==
  /\ DOMAIN f \subseteq DOMAIN h
  /\ \A e \in DOMAIN h : \/ e \in DOMAIN f /\ h[e].virt = f[e].virt
                         \/ h[e].virt \in DOMAIN h \cup {NONE}

LEMMA MergeIs ==
  ASSUME NEW g, NEW N, NEW A, Lists(g, N, A), NEW minlen \in Nat, NEW weight \in Nat, NEW rep
  PROVE  /\ Lists(Merge(g, minlen, weight, rep), N, A)
         /\ SameEnds(g.fast, Merge(g, minlen, weight, rep).fast)
         /\ VirtKept(g.fast, Merge(g, minlen, weight, rep).fast)
         /\ Merge(g, minlen, weight, rep).out = g.out /\ Merge(g, minlen, weight, rep).in = g.in
         /\ Simple(g.fast, A) => Simple(Merge(g, minlen, weight, rep).fast, A)
<1> DEFINE f == [e \in DOMAIN g.fast |->
                   [g.fast[e] EXCEPT
                      !.weight = @ + IF e \in Chain(g.fast, rep) THEN weight ELSE 0,
                      !.minlen = IF e = rep /\ @ < minlen THEN minlen ELSE @]]
<1>1. PICK h : h = Merge(g, minlen, weight, rep)
  OBVIOUS
<1>2. /\ g = [fast |-> g.fast, out |-> g.out, in |-> g.in]
      /\ Len(g.fast) \in Nat /\ DOMAIN g.fast = 1 .. Len(g.fast)
  BY ListsIs
<1>3. h = [g EXCEPT !.fast = f]
  BY <1>1 DEF Merge
<1>4. h = [fast |-> f, out |-> g.out, in |-> g.in]
  <2> HIDE DEF f
  <2>1. PICK c, o, i : c = g.fast /\ o = g.out /\ i = g.in
    OBVIOUS
  <2>2. h = [[fast |-> c, out |-> o, in |-> i] EXCEPT !.fast = f]
    BY <1>2, <1>3, <2>1
  <2> QED BY <2>1, <2>2
<1>5. ASSUME NEW e \in DOMAIN g.fast
      PROVE  /\ f[e] \in Fast(N) /\ f[e].tail = g.fast[e].tail /\ f[e].head = g.fast[e].head
             /\ f[e].virt = g.fast[e].virt
  <2>1. PICK more \in Nat : more = IF e \in Chain(g.fast, rep) THEN weight ELSE 0
    OBVIOUS
  <2>2. PICK x \in Fast(N) : x = g.fast[e]
    BY ListsIs
  <2>3. PICK y, z \in Nat : /\ y = x.weight + more
                            /\ z = IF e = rep /\ x.minlen < minlen THEN minlen ELSE x.minlen
    BY DEF Fast
  <2>4. f[e] = [x EXCEPT !.weight = y, !.minlen = z]
    <3>1. f[e] = [x EXCEPT !.weight = x.weight + more,
                           !.minlen = IF e = rep /\ x.minlen < minlen THEN minlen ELSE x.minlen]
      BY <2>1, <2>2
    <3> HIDE DEF f
    <3> QED BY <2>3, <3>1
  <2> HIDE DEF f
  <2> QED BY <2>2, <2>4 DEF Fast
<1>6. DOMAIN f = 1 .. Len(g.fast) /\ f = [e \in DOMAIN f |-> f[e]]
  BY <1>2
<1> HIDE DEF f
<1>7. f \in Seq(Fast(N))
  BY <1>2, <1>5, <1>6
<1>8. SameEnds(g.fast, f) /\ VirtKept(g.fast, f)
  BY <1>2, <1>5, <1>6 DEF SameEnds, VirtKept
<1>9. h.fast = f /\ h.out = g.out /\ h.in = g.in
  BY <1>4
<1>10. f \in Seq(Fast(N)) /\ SameEnds(g.fast, f)
  BY <1>7, <1>8
<1> QED BY <1>1, <1>4, <1>7, <1>8, <1>9, Relabelled

\* The edge of which e makes way is the one that stands for it.
LEMMA StandsIs ==
  ASSUME NEW g, NEW N, NEW A, Lists(g, N, A), NEW e \in DOMAIN g.fast, NEW x \in Nat
  PROVE  /\ Lists([g EXCEPT !.fast[e].virt = x], N, A)
         /\ SameEnds(g.fast, [g EXCEPT !.fast[e].virt = x].fast)
         /\ x \in DOMAIN g.fast => VirtKept(g.fast, [g EXCEPT !.fast[e].virt = x].fast)
         /\ [g EXCEPT !.fast[e].virt = x].out = g.out /\ [g EXCEPT !.fast[e].virt = x].in = g.in
         /\ Simple(g.fast, A) => Simple([g EXCEPT !.fast[e].virt = x].fast, A)
<1>1. PICK h, f : h = [g EXCEPT !.fast[e].virt = x] /\ f = [g.fast EXCEPT ![e].virt = x]
  OBVIOUS
<1>2. PICK c, o, i : /\ c = g.fast /\ o = g.out /\ i = g.in
                     /\ g = [fast |-> c, out |-> o, in |-> i]
                     /\ c \in Seq(Fast(N)) /\ e \in DOMAIN c
  BY ListsIs
<1>3. h = [fast |-> f, out |-> o, in |-> i]
  BY <1>1, <1>2
<1>4. DOMAIN f = DOMAIN c /\ \A d \in DOMAIN c : f[d] = IF d = e THEN [c[d] EXCEPT !.virt = x] ELSE c[d]
  BY <1>1, <1>2
<1>5. ASSUME NEW d \in DOMAIN c
      PROVE  /\ f[d] \in Fast(N) /\ f[d].tail = c[d].tail /\ f[d].head = c[d].head
             /\ f[d].virt = c[d].virt \/ f[d].virt = x
  <2>1. c[d] \in Fast(N)
    BY <1>2
  <2> QED BY <1>4, <2>1 DEF Fast
<1>6. f \in Seq(Fast(N))
  <2>1. Len(c) \in Nat /\ DOMAIN c = 1 .. Len(c)
    BY <1>2
  <2>2. f = [d \in DOMAIN f |-> f[d]]
    BY <1>1
  <2> QED BY <1>4, <1>5, <2>1, <2>2
<1>7. SameEnds(c, f) /\ (x \in DOMAIN c => VirtKept(c, f))
  BY <1>4, <1>5 DEF SameEnds, VirtKept
<1>8. h.fast = f /\ h.out = g.out /\ h.in = g.in /\ h = [fast |-> f, out |-> g.out, in |-> g.in]
  BY <1>2, <1>3
<1>9. SameEnds(g.fast, f) /\ (x \in DOMAIN g.fast => VirtKept(g.fast, f))
  BY <1>2, <1>7
<1>10. Lists(h, N, A) /\ (Simple(g.fast, A) => Simple(h.fast, A))
  BY <1>6, <1>8, <1>9, Relabelled
<1> QED BY <1>1, <1>8, <1>9, <1>10

\* Merging makes no edge shorter, and rep at least as long as asked for.
LEMMA MergeLong ==
  ASSUME NEW g, NEW N, NEW A, Lists(g, N, A), NEW minlen \in Nat, NEW weight \in Nat, NEW rep,
         NEW h, h = Merge(g, minlen, weight, rep)
  PROVE  /\ DOMAIN h.fast = DOMAIN g.fast
         /\ \A d \in DOMAIN g.fast : /\ h.fast[d].minlen \in Nat /\ h.fast[d].minlen >= g.fast[d].minlen
                                     /\ d # rep => h.fast[d].minlen = g.fast[d].minlen
                                     /\ d = rep => h.fast[d].minlen >= minlen
<1> DEFINE f == [e \in DOMAIN g.fast |->
                   [g.fast[e] EXCEPT
                      !.weight = @ + IF e \in Chain(g.fast, rep) THEN weight ELSE 0,
                      !.minlen = IF e = rep /\ @ < minlen THEN minlen ELSE @]]
<1>1. h = [g EXCEPT !.fast = f]
  BY DEF Merge
<1>2. h.fast = f
  <2> HIDE DEF f
  <2>1. PICK c, o, i : c = g.fast /\ o = g.out /\ i = g.in /\ g = [fast |-> c, out |-> o, in |-> i]
    BY ListsIs
  <2> QED BY <1>1, <2>1
<1>3. ASSUME NEW e \in DOMAIN g.fast
      PROVE  /\ f[e].minlen \in Nat /\ f[e].minlen >= g.fast[e].minlen
             /\ e # rep => f[e].minlen = g.fast[e].minlen
             /\ e = rep => f[e].minlen >= minlen
  <2>1. PICK x \in Fast(N) : x = g.fast[e]
    BY ListsIs
  <2>2. PICK y, z : /\ y = x.weight + IF e \in Chain(g.fast, rep) THEN weight ELSE 0
                    /\ z = IF e = rep /\ x.minlen < minlen THEN minlen ELSE x.minlen
    OBVIOUS
  <2>3. f[e] = [x EXCEPT !.weight = y, !.minlen = z]
    <3>1. f[e] = [x EXCEPT !.weight = x.weight + IF e \in Chain(g.fast, rep) THEN weight ELSE 0,
                           !.minlen = IF e = rep /\ x.minlen < minlen THEN minlen ELSE x.minlen]
      BY <2>1
    <3> HIDE DEF f
    <3> QED BY <2>2, <3>1
  <2> HIDE DEF f
  <2>4. f[e].minlen = z /\ x.minlen \in Nat
    BY <2>1, <2>3 DEF Fast
  <2> QED BY <2>1, <2>2, <2>4
<1>4. DOMAIN f = DOMAIN g.fast
  OBVIOUS
<1> HIDE DEF f
<1> QED BY <1>2, <1>3, <1>4

LEMMA StandsLong ==
  ASSUME NEW g, NEW N, NEW A, Lists(g, N, A), NEW e \in DOMAIN g.fast, NEW x,
         NEW h, h = [g EXCEPT !.fast[e].virt = x]
  PROVE  /\ DOMAIN h.fast = DOMAIN g.fast
         /\ \A d \in DOMAIN g.fast : h.fast[d].minlen = g.fast[d].minlen
<1>1. PICK f : f = [g.fast EXCEPT ![e].virt = x]
  OBVIOUS
<1>2. PICK c, o, i : /\ c = g.fast /\ o = g.out /\ i = g.in
                     /\ g = [fast |-> c, out |-> o, in |-> i]
                     /\ c \in Seq(Fast(N)) /\ e \in DOMAIN c
  BY ListsIs
<1>3. h.fast = f
  BY <1>1, <1>2
<1>4. DOMAIN f = DOMAIN c /\ \A d \in DOMAIN c : f[d] = IF d = e THEN [c[d] EXCEPT !.virt = x] ELSE c[d]
  BY <1>1, <1>2
<1>5. ASSUME NEW d \in DOMAIN c PROVE f[d].minlen = c[d].minlen
  <2>1. c[d] \in Fast(N)
    BY <1>2
  <2> QED BY <1>4, <2>1 DEF Fast
<1> QED BY <1>2, <1>3, <1>4, <1>5

\* The chain of an edge that makes way for no other is the edge.
LEMMA ChainOne ==
  ASSUME NEW n \in Nat, NEW f, DOMAIN f = 1 .. n, Len(f) = n, NEW x \in DOMAIN f, f[x].virt = NONE
  PROVE  Chain(f, x) = {x}
<1>1. PICK onward : onward = [e \in 0 .. Len(f) |-> IF e = NONE THEN NONE ELSE f[e].virt]
  OBVIOUS
<1>2. PICK q : q = <<x>>
  OBVIOUS
<1>3. x \in 1 .. n /\ x # NONE /\ x \in 0 .. n /\ NONE \in 0 .. n /\ NONE \notin 1 .. n
  BY DEF NONE
<1>4. q \in Seq(1 .. n) /\ Len(q) = 1 /\ q # <<>> /\ q[1] = x /\ Range(q) = {x}
  BY <1>2, <1>3 DEF Range
<1>5. onward[NONE] = NONE /\ onward[x] = NONE
  BY <1>1, <1>3
<1>6. Listed(n, x, onward, NONE) = q
  <2>1. Len(q) <= n
    BY <1>3, <1>4
  <2>2. \A i \in 1 .. Len(q) - 1 : onward[q[i]] = q[i + 1]
    BY <1>4
  <2>3. q # <<>> => onward[q[Len(q)]] = NONE
    BY <1>4, <1>5
  <2>4. (q = <<>> => x = NONE) /\ (q # <<>> => x = q[1])
    BY <1>4
  <2>5. PICK S : S = 1 .. n
    OBVIOUS
  <2>6. NONE \notin S /\ q \in Seq(S)
    BY <1>3, <1>4, <2>5
  <2> QED BY <1>5, <2>1, <2>2, <2>3, <2>4, <2>6, ListIs
<1> QED BY <1>1, <1>4, <1>6 DEF Chain

\* Merging into an edge that makes way for no other adds to its weight.
LEMMA MergeWeight ==
  ASSUME NEW g, NEW N, NEW A, Lists(g, N, A), NEW minlen \in Nat, NEW weight \in Nat,
         NEW rep \in DOMAIN g.fast, g.fast[rep].virt = NONE,
         NEW h, h = Merge(g, minlen, weight, rep)
  PROVE  /\ DOMAIN h.fast = DOMAIN g.fast
         /\ \A d \in DOMAIN g.fast : /\ h.fast[d].virt = g.fast[d].virt
                                     /\ d # rep => h.fast[d].weight = g.fast[d].weight
         /\ h.fast[rep].weight = g.fast[rep].weight + weight
<1> DEFINE f == [e \in DOMAIN g.fast |->
                   [g.fast[e] EXCEPT
                      !.weight = @ + IF e \in Chain(g.fast, rep) THEN weight ELSE 0,
                      !.minlen = IF e = rep /\ @ < minlen THEN minlen ELSE @]]
<1>1. h = [g EXCEPT !.fast = f]
  BY DEF Merge
<1>2. h.fast = f
  <2> HIDE DEF f
  <2>1. PICK c, o, i : c = g.fast /\ o = g.out /\ i = g.in /\ g = [fast |-> c, out |-> o, in |-> i]
    BY ListsIs
  <2> QED BY <1>1, <2>1
<1>3. Chain(g.fast, rep) = {rep}
  <2>1. PICK c : c = g.fast
    OBVIOUS
  <2>2. Len(c) \in Nat /\ DOMAIN c = 1 .. Len(c) /\ rep \in DOMAIN c /\ c[rep].virt = NONE
    BY <2>1, ListsIs
  <2> QED BY <2>1, <2>2, ChainOne
<1>4. ASSUME NEW e \in DOMAIN g.fast
      PROVE  /\ f[e].virt = g.fast[e].virt
             /\ e # rep => f[e].weight = g.fast[e].weight
             /\ e = rep => f[e].weight = g.fast[e].weight + weight
  <2>1. PICK x \in Fast(N) : x = g.fast[e]
    BY ListsIs
  <2>2. PICK y, z : /\ y = x.weight + IF e \in Chain(g.fast, rep) THEN weight ELSE 0
                    /\ z = IF e = rep /\ x.minlen < minlen THEN minlen ELSE x.minlen
    OBVIOUS
  <2>3. f[e] = [x EXCEPT !.weight = y, !.minlen = z]
    <3>1. f[e] = [x EXCEPT !.weight = x.weight + IF e \in Chain(g.fast, rep) THEN weight ELSE 0,
                           !.minlen = IF e = rep /\ x.minlen < minlen THEN minlen ELSE x.minlen]
      BY <2>1
    <3> HIDE DEF f
    <3> QED BY <2>2, <3>1
  <2> HIDE DEF f
  <2>4. f[e].virt = x.virt /\ f[e].weight = y /\ x.weight \in Nat
    BY <2>1, <2>3 DEF Fast
  <2>5. e # rep => y = x.weight
    BY <1>3, <2>2, <2>4
  <2>6. e = rep => y = x.weight + weight
    BY <1>3, <2>2
  <2> QED BY <2>1, <2>4, <2>5, <2>6
<1>5. DOMAIN f = DOMAIN g.fast
  OBVIOUS
<1> HIDE DEF f
<1> QED BY <1>2, <1>4, <1>5

LEMMA StandsWeight ==
  ASSUME NEW g, NEW N, NEW A, Lists(g, N, A), NEW e \in DOMAIN g.fast, NEW x,
         NEW h, h = [g EXCEPT !.fast[e].virt = x]
  PROVE  /\ DOMAIN h.fast = DOMAIN g.fast
         /\ \A d \in DOMAIN g.fast : /\ h.fast[d].weight = g.fast[d].weight
                                     /\ d # e => h.fast[d].virt = g.fast[d].virt
         /\ h.fast[e].virt = x
<1>1. PICK f : f = [g.fast EXCEPT ![e].virt = x]
  OBVIOUS
<1>2. PICK c, o, i : /\ c = g.fast /\ o = g.out /\ i = g.in
                     /\ g = [fast |-> c, out |-> o, in |-> i]
                     /\ c \in Seq(Fast(N)) /\ e \in DOMAIN c
  BY ListsIs
<1>3. h.fast = f
  BY <1>1, <1>2
<1>4. DOMAIN f = DOMAIN c /\ \A d \in DOMAIN c : f[d] = IF d = e THEN [c[d] EXCEPT !.virt = x] ELSE c[d]
  BY <1>1, <1>2
<1>5. ASSUME NEW d \in DOMAIN c
      PROVE f[d].weight = c[d].weight /\ (d # e => f[d].virt = c[d].virt) /\ (d = e => f[d].virt = x)
  <2>1. c[d] \in Fast(N)
    BY <1>2
  <2> QED BY <1>4, <2>1 DEF Fast
<1> QED BY <1>2, <1>3, <1>4, <1>5

\* From f to h, edge e makes way for x, which takes on its weight.
Bears(f, h, A, e, x) ==
  /\ x # e /\ (x \in A \/ x \notin DOMAIN f) /\ DOMAIN h = DOMAIN f \cup {x}
  /\ h[e].virt = x /\ h[x].virt = NONE
  /\ \A d \in DOMAIN f : d # e => h[d].virt = f[d].virt
  /\ \A d \in DOMAIN f : d # x => h[d].weight = f[d].weight
  /\ x \in A => h[x].weight = f[x].weight + f[e].weight
  /\ x \notin DOMAIN f => h[x].weight = f[e].weight

\* The edges in the lists make way for no other.
Unreplaced(f, A) == \A d \in A : f[d].virt = NONE

\* The lists of out-edges when e has been taken out and f joins its head to its tail.
OutAfter(g, h, e, f) ==
  LET u == g.fast[e].tail
      v == g.fast[e].head
  IN  h.out = [g.out EXCEPT ![u] = Zap(@, e)]
      \/ h.out = [g.out EXCEPT ![u] = Zap(@, e), ![v] = Append(@, f)]

\* No edge is shorter than it was, and f is as long as e.
LongAfter(g, h, e, f) ==
  /\ \A d \in DOMAIN g.fast : h.fast[d].minlen >= g.fast[d].minlen
  /\ h.fast[f].minlen >= g.fast[e].minlen

Turned(g, h, A, B, e, f) ==
  /\ B = (A \ {e}) \cup {f} /\ f \in DOMAIN h.fast
  /\ Joins(h.fast, f, g.fast[e].head, g.fast[e].tail)
  /\ Extends(g.fast, h.fast) /\ VirtKept(g.fast, h.fast)
  /\ OutAfter(g, h, e, f) /\ LongAfter(g, h, e, f)
  /\ Unreplaced(g.fast, A) => Bears(g.fast, h.fast, A, e, f)

LEMMA VirtKeptOn ==
  ASSUME NEW f, NEW h, NEW k, VirtKept(f, h), VirtKept(h, k)
  PROVE  VirtKept(f, k)
BY DEF VirtKept

LEMMA ReversedIs ==
  ASSUME NEW g, NEW N, NEW A, Lists(g, N, A), Simple(g.fast, A), NEW e \in A
  PROVE  \E B, f : /\ Lists(Reversed(g, e), N, B) /\ Simple(Reversed(g, e).fast, B)
                   /\ Turned(g, Reversed(g, e), A, B, e, f)
<1>1. PICK x, u, v : x = g.fast[e] /\ u = x.tail /\ v = x.head
  OBVIOUS
<1>2. /\ e \in DOMAIN g.fast /\ u \in N /\ v \in N /\ u # v /\ x.minlen \in Nat /\ x.weight \in Nat
      /\ g.out \in [N -> Seq(Nat)]
  BY <1>1, ListsIs
<1>3. PICK d : d = Delete(g, e)
  OBVIOUS
<1>4. Lists(d, N, A \ {e}) /\ d.fast = g.fast /\ Simple(d.fast, A \ {e})
  BY <1>3, DeleteIs
<1>5. d.out = [g.out EXCEPT ![u] = Zap(@, e)]
  <2>1. PICK c, o, i : c = g.fast /\ o = g.out /\ i = g.in /\ g = [fast |-> c, out |-> o, in |-> i]
    BY ListsIs
  <2>2. d = [fast |-> c, out |-> [o EXCEPT ![u] = Zap(@, e)], in |-> [i EXCEPT ![v] = Zap(@, e)]]
    BY <1>1, <1>3, <2>1 DEF Delete
  <2> QED BY <2>1, <2>2
<1>6. PICK f0 : f0 = Find(d, v, u)
  OBVIOUS
<1>7. PICK h : h = Reversed(g, e)
  OBVIOUS
<1>8. e \in DOMAIN d.fast
  BY <1>2, <1>4
<1>9. CASE f0 = NONE
  <2>1. PICK a, f : a = Add(d, v, u, x.minlen, x.weight) /\ f = Len(a.fast)
    OBVIOUS
  <2>2. h = [a EXCEPT !.fast[e].virt = f]
    BY <1>1, <1>3, <1>6, <1>7, <1>9, <2>1 DEF Reversed
  <2>3. NoneJoins(d.fast, A \ {e}, v, u)
    BY <1>2, <1>4, <1>6, <1>9, FindIs
  <2>4. PICK n : n = Len(d.fast) + 1
    OBVIOUS
  <2>5. PICK B : B = (A \ {e}) \cup {n}
    OBVIOUS
  <2>6. PICK y : y = [tail |-> v, head |-> u, minlen |-> x.minlen, weight |-> x.weight, virt |-> NONE]
    OBVIOUS
  <2>7. Lists(a, N, B) /\ a.fast = Append(d.fast, y) /\ Simple(a.fast, B)
    <3>1. PICK C : C = A \ {e}
      OBVIOUS
    <3>2. B = C \cup {n}
      BY <2>5, <3>1
    <3>3. Lists(d, N, C) /\ Simple(d.fast, C) /\ NoneJoins(d.fast, C, v, u)
      BY <1>4, <2>3, <3>1
    <3>4. PICK m, w \in Nat : m = x.minlen /\ w = x.weight
      BY <1>2
    <3>5. a = Add(d, v, u, m, w) /\ v # u
      BY <1>2, <2>1, <3>4
    <3>6. Gained(d, a, N, C, v, u, m, w)
      BY <1>2, <3>3, <3>5, AddIs
    <3> QED BY <2>4, <2>6, <3>2, <3>3, <3>4, <3>6 DEF Gained
  <2>8. d.fast \in Seq(Fast(N)) /\ Len(d.fast) \in Nat /\ DOMAIN d.fast = 1 .. Len(d.fast)
    BY <1>4, ListsIs
  <2>9. /\ Len(a.fast) = n /\ f = n /\ DOMAIN a.fast = DOMAIN d.fast \cup {n}
        /\ a.fast[n] = y /\ \A c \in DOMAIN d.fast : a.fast[c] = d.fast[c]
    <3>1. y \in Fast(N)
      BY <1>2, <2>6 DEF Fast, NONE
    <3>2. PICK D : D = d.fast
      OBVIOUS
    <3>3. D \in Seq(Fast(N))
      BY <2>8, <3>2
    <3>4. PICK z : z = Append(D, y)
      OBVIOUS
    <3>5. /\ DOMAIN z = DOMAIN D \cup {Len(D) + 1} /\ z[Len(D) + 1] = y
          /\ \A c \in DOMAIN D : z[c] = D[c]
      BY ONLY <3>1, <3>3, <3>4, LongerBy
    <3>6. Len(z) = Len(D) + 1
      BY ONLY <3>1, <3>3, <3>4
    <3>7. a.fast = z
      BY <2>7, <3>2, <3>4
    <3> QED BY ONLY <2>1, <2>4, <3>2, <3>5, <3>6, <3>7
  <2>10. Joins(a.fast, n, v, u) /\ Extends(g.fast, a.fast) /\ VirtKept(g.fast, a.fast)
    BY <1>4, <2>6, <2>9 DEF Joins, Extends, VirtKept
  <2>11. a.out = [d.out EXCEPT ![v] = Append(@, n)]
    BY <2>1, <2>4 DEF Add
  <2>12. a.out = [g.out EXCEPT ![u] = Zap(@, e), ![v] = Append(@, n)]
    BY <1>2, <1>5, <2>11
  <2>13. /\ Lists(h, N, B) /\ Simple(h.fast, B) /\ SameEnds(a.fast, h.fast)
         /\ h.out = a.out /\ VirtKept(a.fast, h.fast)
    <3>1. e \in DOMAIN a.fast /\ f \in Nat /\ f \in DOMAIN a.fast
      BY <1>8, <2>4, <2>8, <2>9
    <3>2. /\ Lists(h, N, B) /\ SameEnds(a.fast, h.fast) /\ (f \in DOMAIN a.fast => VirtKept(a.fast, h.fast))
          /\ h.out = a.out /\ (Simple(a.fast, B) => Simple(h.fast, B))
      BY ONLY <2>2, <2>7, <3>1, StandsIs
    <3> QED BY ONLY <2>7, <3>1, <3>2
  <2>14. LongAfter(g, h, e, n)
    <3>1. DOMAIN h.fast = DOMAIN a.fast /\ \A c \in DOMAIN a.fast : h.fast[c].minlen = a.fast[c].minlen
      <4>1. Lists(a, N, B) /\ e \in DOMAIN a.fast
        BY <1>8, <2>7, <2>9
      <4> QED BY ONLY <2>2, <4>1, StandsLong
    <3>2. \A c \in DOMAIN g.fast : g.fast[c].minlen \in Nat
      BY ListsIs
    <3>3. \A c \in DOMAIN g.fast : h.fast[c].minlen = g.fast[c].minlen
      BY <1>4, <2>9, <3>1
    <3>4. h.fast[n].minlen = x.minlen
      BY <2>6, <2>9, <3>1
    <3> QED BY <1>1, <1>2, <3>2, <3>3, <3>4 DEF LongAfter
  <2>16. Bears(g.fast, h.fast, A, e, n)
    <3>1. Lists(a, N, B) /\ e \in DOMAIN a.fast
      BY <1>8, <2>7, <2>9
    <3>2. /\ DOMAIN h.fast = DOMAIN a.fast
          /\ \A c \in DOMAIN a.fast : /\ h.fast[c].weight = a.fast[c].weight
                                      /\ c # e => h.fast[c].virt = a.fast[c].virt
          /\ h.fast[e].virt = f
      BY ONLY <2>2, <3>1, StandsWeight
    <3>3. n \notin DOMAIN d.fast /\ e # n
      BY <1>8, <2>4, <2>8
    <3>4. n \in DOMAIN a.fast /\ a.fast[n].virt = NONE /\ a.fast[n].weight = x.weight
      BY <2>6, <2>9
    <3>5. A \subseteq DOMAIN g.fast
      BY ListsIs
    <3>6. /\ DOMAIN h.fast = DOMAIN g.fast \cup {n} /\ h.fast[e].virt = n
          /\ h.fast[n].virt = NONE /\ h.fast[n].weight = g.fast[e].weight
      BY <1>1, <1>4, <2>9, <3>2, <3>3, <3>4
    <3>7. \A c \in DOMAIN g.fast : /\ c # e => h.fast[c].virt = g.fast[c].virt
                                   /\ h.fast[c].weight = g.fast[c].weight
      BY <1>4, <2>9, <3>2
    <3> QED BY <1>4, <3>3, <3>5, <3>6, <3>7 DEF Bears
  <2>15. Turned(g, h, A, B, e, n)
    BY <1>1, <2>5, <2>9, <2>10, <2>12, <2>13, <2>14, <2>16, VirtKeptOn
       DEF Turned, SameEnds, Joins, Extends, OutAfter
  <2> QED BY <1>7, <2>13, <2>15
<1>10. CASE f0 # NONE
  <2>1. PICK s : s = [d EXCEPT !.fast[e].virt = f0]
    OBVIOUS
  <2>2. h = Merge(s, x.minlen, x.weight, f0)
    BY <1>1, <1>3, <1>6, <1>7, <1>10, <2>1 DEF Reversed
  <2>3. f0 \in A \ {e} /\ Joins(d.fast, f0, v, u)
    BY <1>2, <1>4, <1>6, <1>10, FindIs
  <2>4. f0 \in Nat /\ f0 \in DOMAIN d.fast
    BY <1>4, <2>3, ListsIs
  <2>5. PICK B : B = (A \ {e}) \cup {f0}
    OBVIOUS
  <2>6. B = A \ {e}
    BY <2>3, <2>5
  <2>7. /\ Lists(s, N, B) /\ Simple(s.fast, B) /\ SameEnds(d.fast, s.fast)
        /\ s.out = d.out /\ VirtKept(d.fast, s.fast)
    BY <1>4, <1>8, <2>1, <2>4, <2>6, StandsIs
  <2>8. /\ Lists(h, N, B) /\ Simple(h.fast, B) /\ SameEnds(s.fast, h.fast)
        /\ h.out = s.out /\ VirtKept(s.fast, h.fast)
    BY <1>2, <2>2, <2>7, MergeIs
  <2>9. SameEnds(g.fast, h.fast) /\ VirtKept(g.fast, h.fast)
    BY <1>4, <2>7, <2>8, VirtKeptOn DEF SameEnds
  <2>10. LongAfter(g, h, e, f0)
    <3>1. DOMAIN s.fast = DOMAIN d.fast /\ \A c \in DOMAIN d.fast : s.fast[c].minlen = d.fast[c].minlen
      BY ONLY <1>4, <1>8, <2>1, StandsLong
    <3>2. /\ DOMAIN h.fast = DOMAIN s.fast
          /\ \A c \in DOMAIN s.fast : /\ h.fast[c].minlen \in Nat /\ h.fast[c].minlen >= s.fast[c].minlen
                                      /\ c # f0 => h.fast[c].minlen = s.fast[c].minlen
                                      /\ c = f0 => h.fast[c].minlen >= x.minlen
      BY ONLY <1>2, <2>2, <2>7, MergeLong
    <3>3. f0 \in DOMAIN s.fast /\ DOMAIN s.fast = DOMAIN g.fast
      BY <1>4, <2>4, <3>1
    <3>4. h.fast[f0].minlen >= x.minlen /\ h.fast[f0].minlen >= g.fast[f0].minlen
      BY <1>4, <2>4, <3>1, <3>2, <3>3
    <3>5. \A c \in DOMAIN g.fast : h.fast[c].minlen >= g.fast[c].minlen
      BY <1>4, <3>1, <3>2, <3>3
    <3> QED BY <1>1, <3>4, <3>5 DEF LongAfter
  <2>12. ASSUME Unreplaced(g.fast, A) PROVE Bears(g.fast, h.fast, A, e, f0)
    <3>1. /\ DOMAIN s.fast = DOMAIN d.fast
          /\ \A c \in DOMAIN d.fast : /\ s.fast[c].weight = d.fast[c].weight
                                      /\ c # e => s.fast[c].virt = d.fast[c].virt
          /\ s.fast[e].virt = f0
      BY ONLY <1>4, <1>8, <2>1, StandsWeight
    <3>2. f0 \in A /\ f0 # e /\ f0 \in DOMAIN g.fast /\ g.fast[f0].virt = NONE
      BY <1>4, <2>3, <2>4, <2>12 DEF Unreplaced
    <3>3. f0 \in DOMAIN s.fast /\ s.fast[f0].virt = NONE
      BY <1>4, <3>1, <3>2
    <3>4. /\ DOMAIN h.fast = DOMAIN s.fast
          /\ \A c \in DOMAIN s.fast : /\ h.fast[c].virt = s.fast[c].virt
                                      /\ c # f0 => h.fast[c].weight = s.fast[c].weight
          /\ h.fast[f0].weight = s.fast[f0].weight + x.weight
      BY ONLY <1>2, <2>2, <2>7, <3>3, MergeWeight
    <3>5. DOMAIN h.fast = DOMAIN g.fast \cup {f0} /\ h.fast[e].virt = f0 /\ h.fast[f0].virt = NONE
      BY <1>2, <1>4, <3>1, <3>2, <3>3, <3>4
    <3>6. \A c \in DOMAIN g.fast : /\ c # e => h.fast[c].virt = g.fast[c].virt
                                   /\ c # f0 => h.fast[c].weight = g.fast[c].weight
      BY <1>4, <3>1, <3>4
    <3>7. h.fast[f0].weight = g.fast[f0].weight + g.fast[e].weight
      BY <1>1, <1>4, <3>1, <3>2, <3>4
    <3> QED BY <3>2, <3>5, <3>6, <3>7 DEF Bears
  <2>11. Turned(g, h, A, B, e, f0)
    BY <1>1, <1>4, <1>5, <2>3, <2>4, <2>5, <2>7, <2>8, <2>9, <2>10, <2>12
       DEF Turned, SameEnds, Joins, Extends, OutAfter
  <2> QED BY <1>7, <2>8, <2>11
<1> QED BY <1>9, <1>10

-----------------------------------------------------------------------------
(* Loops.                                                                  *)

\* What the first stage has, and each stage if the one before it has, all have.
LEMMA Kept ==
  ASSUME NEW n \in Nat, NEW at_, NEW Q, at_[0] \in Q[0],
         \A i \in 1 .. n : at_[i - 1] \in Q[i - 1] => at_[i] \in Q[i]
  PROVE  \A i \in 0 .. n : at_[i] \in Q[i]
<1> DEFINE T == {i \in 0 .. n : at_[i] \notin Q[i]}
<1> SUFFICES ASSUME T # {} PROVE FALSE
  OBVIOUS
<1>1. T \in SUBSET Nat
  OBVIOUS
<1>2. PICK i \in T : \A j \in T : i <= j
  BY <1>1, NatLeast
<1>3. i \in 1 .. n /\ i - 1 \in 0 .. n /\ i - 1 \notin T
  BY <1>1, <1>2
<1> QED BY <1>2, <1>3

-----------------------------------------------------------------------------
(* The search for a component.                                             *)

Near(m) == {o \in Node : \E e \in AllLive : Joins(fast, e, m, o) \/ Joins(fast, e, o, m)}

Marked(r) == {x \in Node : r.mark[x] = NextMark}
Left(r) == Cardinality(Node \ Marked(r))
Distinct(r) == IsInjective(r.nodes) /\ Range(r.nodes) \subseteq Marked(r)

\* Nodes of v beyond those of r are leaders that are marked, and the only ones.
Further(r, v) ==
  /\ v \in Found
  /\ Marked(r) \subseteq Marked(v) /\ Marked(v) \ Marked(r) \subseteq Leaders
  /\ \A x \in Node \ Marked(v) : v.mark[x] = r.mark[x]
  /\ Range(v.nodes) = Range(r.nodes) \cup (Marked(v) \ Marked(r))
  /\ Distinct(r) => Distinct(v)

\* m has been searched from.
Closed(r, v, S) == \A x \in Marked(v) \ (Marked(r) \cup S) : Near(x) \subseteq Marked(v)
Done(r, m, v) == Further(r, v) /\ m \in Marked(v) /\ Closed(r, v, {})

Seekers == [Found -> [Node -> Found]]
Searches(k, f) ==
  /\ f \in Seekers
  /\ \A r \in Found, m \in Leaders : m \notin Marked(r) /\ Left(r) <= k => Done(r, m, f[r][m])

\* Edges join leaders.
LeadersJoined(f, A) == \A e \in A : f[e].tail \in Leaders /\ f[e].head \in Leaders

Ready ==
  /\ job.n \in Nat /\ Cmark \in 0 .. 255 /\ leader \in [Node -> Node]
  /\ Lists(G, Node, AllLive) /\ LeadersJoined(fast, AllLive)

LEMMA NextMarkType == ASSUME Cmark \in 0 .. 255 PROVE NextMark \in 1 .. 255
BY DEF NextMark

LEMMA Joint ==
  ASSUME NEW O \in Seq(Nat), NEW I \in Seq(Nat)
  PROVE  /\ Len(O) \in Nat /\ Len(I) \in Nat
         /\ Len(O \o I) = Len(O) + Len(I)
         /\ \A i \in 1 .. Len(O \o I) : (O \o I)[i] = IF i <= Len(O) THEN O[i] ELSE I[i - Len(O)]
OBVIOUS

LEMMA NearList ==
  ASSUME Ready, NEW m \in Node
  PROVE  /\ Len(out[m] \o in[m]) \in Nat
         /\ \A i \in 1 .. Len(out[m] \o in[m]) : Other((out[m] \o in[m])[i], m) \in Near(m) \cap Leaders
         /\ \A o \in Near(m) : \E i \in 1 .. Len(out[m] \o in[m]) : Other((out[m] \o in[m])[i], m) = o
<1>1. PICK L, O, I : L = O \o I /\ O = out[m] /\ I = in[m]
  OBVIOUS
<1>2. Once(O, From(fast, AllLive, m)) /\ Once(I, To(fast, AllLive, m))
  BY <1>1 DEF Ready, Lists, G
<1>3. /\ Len(O) \in Nat /\ Len(I) \in Nat
      /\ Len(L) = Len(O) + Len(I)
      /\ \A i \in 1 .. Len(L) : L[i] = IF i <= Len(O) THEN O[i] ELSE I[i - Len(O)]
  <2>1. O \in Seq(Nat) /\ I \in Seq(Nat)
    BY <1>2 DEF Once
  <2>2. L = O \o I
    BY <1>1
  <2> QED BY ONLY <2>1, <2>2, Joint
<1>4. \A e \in AllLive : /\ fast[e].tail \in Node /\ fast[e].head \in Node
                         /\ fast[e].tail # fast[e].head
                         /\ fast[e].tail \in Leaders /\ fast[e].head \in Leaders
  BY ListsIs DEF Ready, LeadersJoined, G
<1>5. ASSUME NEW e \in AllLive, fast[e].tail = m \/ fast[e].head = m
      PROVE  Other(e, m) \in Near(m) \cap Leaders
  BY <1>4, <1>5 DEF Other, Near, Joins
<1>6. ASSUME NEW i \in 1 .. Len(L) PROVE Other(L[i], m) \in Near(m) \cap Leaders
  <2>1. CASE i <= Len(O)
    <3>1. i \in 1 .. Len(O) /\ L[i] = O[i]
      BY <1>3, <2>1
    <3>2. L[i] \in From(fast, AllLive, m)
      BY <1>2, <3>1, OnceIs
    <3> QED BY <1>5, <3>2 DEF From
  <2>2. CASE ~(i <= Len(O))
    <3>1. i - Len(O) \in 1 .. Len(I) /\ L[i] = I[i - Len(O)]
      BY <1>3, <2>2
    <3>2. L[i] \in To(fast, AllLive, m)
      BY <1>2, <3>1, OnceIs
    <3> QED BY <1>5, <3>2 DEF To
  <2> QED BY <2>1, <2>2
<1>7. ASSUME NEW o \in Near(m) PROVE \E i \in 1 .. Len(L) : Other(L[i], m) = o
  <2>1. PICK e \in AllLive : Joins(fast, e, m, o) \/ Joins(fast, e, o, m)
    BY DEF Near
  <2>2. Other(e, m) = o
    BY <1>4, <2>1 DEF Other, Joins
  <2>3. CASE Joins(fast, e, m, o)
    <3>1. e \in From(fast, AllLive, m)
      BY <2>3 DEF From, Joins
    <3>2. PICK i \in 1 .. Len(O) : O[i] = e
      BY <1>2, <3>1, OnceIs
    <3>3. i \in 1 .. Len(L) /\ L[i] = e
      BY <1>3, <3>2
    <3> QED BY <2>2, <3>3
  <2>4. CASE Joins(fast, e, o, m)
    <3>1. e \in To(fast, AllLive, m)
      BY <2>4 DEF To, Joins
    <3>2. PICK i \in 1 .. Len(I) : I[i] = e
      BY <1>2, <3>1, OnceIs
    <3>3. Len(O) + i \in 1 .. Len(L) /\ L[Len(O) + i] = e
      BY <1>3, <3>2
    <3> QED BY <2>2, <3>3
  <2> QED BY <2>1, <2>3, <2>4
<1>8. L = out[m] \o in[m]
  BY ONLY <1>1
<1>9. Len(L) \in Nat
  BY <1>3
<1> QED BY <1>6, <1>7, <1>8, <1>9

LEMMA FurtherSame == ASSUME NEW r \in Found PROVE Further(r, r)
BY DEF Further

LEMMA FurtherOn ==
  ASSUME NEW r, NEW v, NEW w, Further(r, v), Further(v, w)
  PROVE  Further(r, w)
<1>1. Marked(w) \ Marked(r) = (Marked(w) \ Marked(v)) \cup (Marked(v) \ Marked(r))
  BY DEF Further
<1>2. \A x \in Node \ Marked(w) : x \notin Marked(v)
  BY DEF Further
<1> QED BY <1>1, <1>2 DEF Further

LEMMA LeftLess ==
  ASSUME job.n \in Nat, NEW r, NEW v, Marked(r) \subseteq Marked(v)
  PROVE  /\ Left(r) \in Nat /\ Left(v) \in Nat /\ Left(v) <= Left(r) /\ Left(r) <= job.n
         /\ \A m \in Node : m \in Marked(v) /\ m \notin Marked(r) => Left(v) < Left(r)
<1>1. IsFiniteSet(Node) /\ Cardinality(Node) = job.n
  <2>1. PICK n \in Int, z \in Int : n = job.n /\ z = 1
    OBVIOUS
  <2>2. IsFiniteSet(z .. n) /\ Cardinality(z .. n) = IF z > n THEN 0 ELSE n - z + 1
    BY FS_Interval
  <2>3. (IF z > n THEN 0 ELSE n - z + 1) = n
    BY <2>1
  <2>4. Node = z .. n
    BY <2>1 DEF Node
  <2> QED BY ONLY <2>1, <2>2, <2>3, <2>4
<1>2. IsFiniteSet(Node \ Marked(r)) /\ IsFiniteSet(Node \ Marked(v))
  BY <1>1, FS_Subset
<1>3. Left(r) \in Nat /\ Left(v) \in Nat
  BY <1>2, FS_CardinalityType DEF Left
<1>4. Left(r) <= job.n
  BY <1>1, FS_Subset DEF Left
<1>5. Left(v) <= Left(r)
  <2>1. Node \ Marked(v) \subseteq Node \ Marked(r)
    OBVIOUS
  <2> QED BY <1>2, <2>1, FS_Subset DEF Left
<1>6. ASSUME NEW m \in Node, m \in Marked(v), m \notin Marked(r) PROVE Left(v) < Left(r)
  <2>1. Node \ Marked(v) \subseteq Node \ Marked(r) /\ m \in Node \ Marked(r) /\ m \notin Node \ Marked(v)
    BY <1>6
  <2>2. Cardinality(Node \ Marked(v)) # Cardinality(Node \ Marked(r))
    BY <1>2, <2>1, FS_Subset
  <2> QED BY <1>3, <1>5, <2>2 DEF Left
<1> QED BY <1>3, <1>4, <1>5, <1>6

\* One mark more.
Begun(r, m) == [mark |-> [r.mark EXCEPT ![m] = NextMark], nodes |-> Append(r.nodes, m)]

LEMMA BegunIs ==
  ASSUME Ready, NEW r \in Found, NEW m \in Node
  PROVE  /\ Begun(r, m) \in Found
         /\ Marked(Begun(r, m)) = Marked(r) \cup {m}
         /\ m \in Leaders /\ m \notin Marked(r) => Further(r, Begun(r, m))
<1>1. PICK v : v = Begun(r, m)
  OBVIOUS
<1>2. r.mark \in [Node -> 0 .. 255] /\ r.nodes \in Seq(Node) /\ NextMark \in 0 .. 255
  <2>1. r.mark \in [Node -> 0 .. 255] /\ r.nodes \in Seq(Node)
    BY DEF Found
  <2>2. NextMark \in 1 .. 255
    BY NextMarkType DEF Ready
  <2> QED BY <2>1, <2>2
<1>3. PICK a, b, K : a = r.mark /\ b = r.nodes /\ K = NextMark
  OBVIOUS
<1>4. v.mark = [a EXCEPT ![m] = K] /\ v.nodes = Append(b, m) /\ v \in Found
  BY <1>1, <1>2, <1>3 DEF Begun, Found
<1>5. \A x \in Node : v.mark[x] = IF x = m THEN K ELSE a[x]
  BY <1>2, <1>3, <1>4
<1>6. Marked(v) = Marked(r) \cup {m}
  BY <1>3, <1>5 DEF Marked
<1>7. ASSUME m \in Leaders, m \notin Marked(r) PROVE Further(r, v)
  <2>1. Marked(v) \ Marked(r) = {m}
    BY <1>6, <1>7
  <2>2. \A x \in Node \ Marked(v) : v.mark[x] = r.mark[x]
    BY <1>3, <1>5, <1>6
  <2>3. /\ Len(v.nodes) = Len(b) + 1 /\ Len(b) \in Nat /\ DOMAIN b = 1 .. Len(b)
        /\ DOMAIN v.nodes = 1 .. Len(b) + 1 /\ v.nodes[Len(b) + 1] = m
        /\ \A i \in 1 .. Len(b) : v.nodes[i] = b[i]
    BY <1>2, <1>3, <1>4
  <2>4. Range(v.nodes) = Range(b) \cup {m}
    BY <2>3 DEF Range
  <2>5. Distinct(r) => Distinct(v)
    <3> SUFFICES ASSUME Distinct(r) PROVE Distinct(v)
      OBVIOUS
    <3>1. \A i \in 1 .. Len(b) : b[i] # m
      BY <1>3, <1>7, <2>3 DEF Distinct, Range
    <3>2. IsInjective(b)
      BY <1>3 DEF Distinct
    <3>3. IsInjective(v.nodes)
      BY <2>3, <3>1, <3>2 DEF IsInjective
    <3> QED BY <1>3, <1>6, <2>4, <3>3 DEF Distinct
  <2> QED BY <1>3, <1>4, <1>6, <1>7, <2>1, <2>2, <2>4, <2>5 DEF Further
<1> QED BY <1>1, <1>4, <1>6, <1>7

-----------------------------------------------------------------------------
\* Spread, as its loop goes.
Visit(e, m, v, search) ==
  IF v.mark[Other(e, m)] # NextMark /\ leader[Other(e, m)] = Other(e, m)
  THEN search[v][Other(e, m)] ELSE v

Visiting(r, m, search, f) ==
  f = [i \in 0 .. Len(out[m] \o in[m]) |->
         IF i = 0 THEN Begun(r, m) ELSE Visit((out[m] \o in[m])[i], m, f[i - 1], search)]

LEMMA VisitType ==
  ASSUME NEW e, NEW m, Other(e, m) \in Node, NEW v \in Found, NEW search \in Seekers
  PROVE  Visit(e, m, v, search) \in Found
BY DEF Visit, Seekers

LEMMA VisitingExists ==
  ASSUME Ready, NEW r \in Found, NEW m \in Node, NEW search \in Seekers
  PROVE  \E f : Visiting(r, m, search, f)
<1>1. PICK L : L = out[m] \o in[m]
  OBVIOUS
<1>2. PICK n \in Nat : n = Len(L)
  BY <1>1, NearList
<1>3. PICK b : b = Begun(r, m)
  OBVIOUS
<1>4. PICK step : step = [i \in 1 .. n |-> [v \in Found |-> Visit(L[i], m, v, search)]]
  OBVIOUS
<1>5. PICK f : Stages(f, n, b, step)
  BY StagesExist
<1>6. /\ f = [i \in 0 .. n |-> IF i = 0 THEN b ELSE step[i][f[i - 1]]]
      /\ f[0] = b /\ \A i \in 1 .. n : f[i] = step[i][f[i - 1]]
  <2>1. f = [i \in 0 .. n |-> IF i = 0 THEN b ELSE step[i][f[i - 1]]]
    BY <1>5 DEF Stages
  <2>2. 0 \in 0 .. n /\ \A i \in 1 .. n : i \in 0 .. n /\ i # 0
    OBVIOUS
  <2>3. \A i \in 0 .. n : f[i] = IF i = 0 THEN b ELSE step[i][f[i - 1]]
    BY <2>1
  <2> QED BY <2>1, <2>2, <2>3
<1>7. \A i \in 0 .. n : f[i] \in Found
  <2>1. PICK Q : Q = [i \in 0 .. n |-> Found]
    OBVIOUS
  <2>2. f[0] \in Q[0]
    BY <1>3, <1>6, <2>1, BegunIs
  <2>3. ASSUME NEW i \in 1 .. n, f[i - 1] \in Q[i - 1] PROVE f[i] \in Q[i]
    <3>1. i - 1 \in 0 .. n /\ i \in 0 .. n
      OBVIOUS
    <3>2. f[i - 1] \in Found
      BY <2>1, <2>3, <3>1
    <3>3. f[i] = Visit(L[i], m, f[i - 1], search)
      BY <1>4, <1>6, <3>2
    <3>4. Other(L[i], m) \in Node
      BY <1>1, <1>2, NearList DEF Near
    <3>5. f[i] \in Found
      BY <3>2, <3>3, <3>4, VisitType
    <3> QED BY <2>1, <3>1, <3>5
  <2>4. \A i \in 0 .. n : f[i] \in Q[i]
    BY <2>2, <2>3, Kept
  <2> QED BY <2>1, <2>4
<1>8. \A i \in 0 .. n : f[i] = IF i = 0 THEN b ELSE Visit(L[i], m, f[i - 1], search)
  <2> TAKE i \in 0 .. n
  <2>1. CASE i = 0
    BY <1>6, <2>1
  <2>2. CASE i # 0
    <3>1. i \in 1 .. n /\ i - 1 \in 0 .. n
      BY <2>2
    <3> QED BY <1>4, <1>6, <1>7, <2>2, <3>1
  <2> QED BY <2>1, <2>2
<1>9. f = [i \in 0 .. n |-> f[i]]
  BY <1>6
<1>10. f = [i \in 0 .. n |-> IF i = 0 THEN b ELSE Visit(L[i], m, f[i - 1], search)]
  BY <1>8, <1>9
<1> QED BY <1>1, <1>2, <1>3, <1>10 DEF Visiting

LEMMA SpreadVisits ==
  ASSUME Ready, NEW r \in Found, NEW m \in Node, NEW search \in Seekers
  PROVE  \E f : /\ Visiting(r, m, search, f)
                /\ Spread(r, m, search) = f[Len(out[m] \o in[m])]
<1> DEFINE near == out[m] \o in[m]
<1>1. PICK f : f = CHOOSE g : Visiting(r, m, search, g)
  OBVIOUS
<1>2. Visiting(r, m, search, f)
  BY <1>1, VisitingExists
<1>3. Spread(r, m, search) = f[Len(near)]
  BY <1>1 DEF Spread, Visiting, Visit, Begun
<1> QED BY <1>2, <1>3

\* What the loop of Spread has done after i edges, if r and m were as they should be.
Far(k, r, m, search, i, v) ==
  m \in Leaders /\ m \notin Marked(r) /\ Left(r) <= k + 1 /\ Searches(k, search) =>
    /\ Further(r, v) /\ m \in Marked(v) /\ Closed(r, v, {m})
    /\ \A j \in 1 .. i : Other((out[m] \o in[m])[j], m) \in Marked(v)

LEMMA FarOn ==
  ASSUME Ready, NEW k \in Nat, NEW r \in Found, NEW m \in Node, NEW search \in Seekers,
         NEW i \in 1 .. Len(out[m] \o in[m]), NEW v \in Found, Far(k, r, m, search, i - 1, v)
  PROVE  Far(k, r, m, search, i, Visit((out[m] \o in[m])[i], m, v, search))
<1> SUFFICES ASSUME m \in Leaders, m \notin Marked(r), Left(r) <= k + 1, Searches(k, search)
             PROVE  Far(k, r, m, search, i, Visit((out[m] \o in[m])[i], m, v, search))
  BY DEF Far
<1>1. PICK L : L = out[m] \o in[m]
  OBVIOUS
<1>2. PICK n \in Nat : n = Len(L) /\ i \in 1 .. n
  BY <1>1, NearList
<1>3. /\ Further(r, v) /\ m \in Marked(v) /\ Closed(r, v, {m})
      /\ \A j \in 1 .. i - 1 : Other(L[j], m) \in Marked(v)
  BY <1>1 DEF Far
<1>4. PICK o : o = Other(L[i], m)
  OBVIOUS
<1>5. o \in Near(m) /\ o \in Leaders /\ o \in Node /\ leader[o] = o
  BY <1>1, <1>4, NearList DEF Leaders
<1>6. PICK w : w = Visit(L[i], m, v, search)
  OBVIOUS
<1>7. /\ Further(r, w) /\ Marked(v) \subseteq Marked(w) /\ o \in Marked(w) /\ Closed(r, w, {m})
  <2>1. CASE o \in Marked(v)
    <3>1. w = v
      BY <1>4, <1>6, <2>1 DEF Visit, Marked
    <3> QED BY <1>3, <2>1, <3>1
  <2>2. CASE o \notin Marked(v)
    <3>1. w = search[v][o]
      BY <1>4, <1>5, <1>6, <2>2 DEF Visit, Marked
    <3>2. Left(v) <= k
      <4>1. Left(v) \in Nat /\ Left(r) \in Nat /\ Left(v) < Left(r)
        BY <1>3, LeftLess DEF Further, Ready
      <4> QED BY <4>1
    <3>3. Done(v, o, w)
      BY <1>5, <2>2, <3>1, <3>2 DEF Searches
    <3>4. Further(v, w) /\ o \in Marked(w) /\ Closed(v, w, {})
      BY <3>3 DEF Done
    <3>5. Further(r, w)
      BY <1>3, <3>4, FurtherOn
    <3>6. Marked(v) \subseteq Marked(w)
      BY <3>4 DEF Further
    <3>7. Closed(r, w, {m})
      BY <1>3, <3>4, <3>6 DEF Closed
    <3> QED BY <3>4, <3>5, <3>6, <3>7
  <2> QED BY <2>1, <2>2
<1>8. \A j \in 1 .. i : Other(L[j], m) \in Marked(w)
  <2> TAKE j \in 1 .. i
  <2>1. j \in 1 .. i - 1 \/ j = i
    BY <1>2
  <2> QED BY <1>3, <1>4, <1>7, <2>1
<1>9. Far(k, r, m, search, i, w)
  BY <1>1, <1>3, <1>7, <1>8 DEF Far
<1> QED BY <1>1, <1>6, <1>9

LEMMA SpreadIs ==
  ASSUME Ready, NEW k \in Nat, NEW r \in Found, NEW m \in Node, NEW search \in Seekers
  PROVE  /\ Spread(r, m, search) \in Found
         /\ m \in Leaders /\ m \notin Marked(r) /\ Left(r) <= k + 1 /\ Searches(k, search) =>
              Done(r, m, Spread(r, m, search))
<1>1. PICK L : L = out[m] \o in[m]
  OBVIOUS
<1>2. PICK n \in Nat : n = Len(L)
  BY <1>1, NearList
<1>3. PICK f : Visiting(r, m, search, f) /\ Spread(r, m, search) = f[n]
  BY <1>1, <1>2, SpreadVisits
<1>4. f[0] = Begun(r, m) /\ \A i \in 1 .. n : f[i] = Visit(L[i], m, f[i - 1], search)
  <2>1. f = [i \in 0 .. n |-> IF i = 0 THEN Begun(r, m) ELSE Visit(L[i], m, f[i - 1], search)]
    BY <1>1, <1>2, <1>3 DEF Visiting
  <2>2. \A i \in 0 .. n : f[i] = IF i = 0 THEN Begun(r, m) ELSE Visit(L[i], m, f[i - 1], search)
    BY <2>1
  <2>3. 0 \in 0 .. n /\ \A i \in 1 .. n : i \in 0 .. n /\ i # 0
    OBVIOUS
  <2> QED BY <2>2, <2>3
<1>5. PICK Q : Q = [i \in 0 .. n |-> {v \in Found : Far(k, r, m, search, i, v)}]
  OBVIOUS
<1>6. f[0] \in Q[0]
  <2>1. Far(k, r, m, search, 0, f[0])
    <3> SUFFICES ASSUME m \in Leaders, m \notin Marked(r)
                 PROVE  Far(k, r, m, search, 0, f[0])
      BY DEF Far
    <3>1. Further(r, f[0]) /\ Marked(f[0]) = Marked(r) \cup {m}
      BY <1>4, BegunIs
    <3>2. Closed(r, f[0], {m})
      BY <3>1 DEF Closed
    <3> QED BY <3>1, <3>2 DEF Far
  <2> QED BY <1>4, <1>5, <2>1, BegunIs
<1>7. ASSUME NEW i \in 1 .. n, f[i - 1] \in Q[i - 1] PROVE f[i] \in Q[i]
  <2>1. i - 1 \in 0 .. n /\ i \in 0 .. n
    OBVIOUS
  <2>2. PICK v : v = f[i - 1]
    OBVIOUS
  <2>3. v \in Found /\ Far(k, r, m, search, i - 1, v) /\ f[i] = Visit(L[i], m, v, search)
    BY <1>4, <1>5, <1>7, <2>1, <2>2
  <2>4. Far(k, r, m, search, i, f[i])
    BY <1>1, <1>2, <2>3, FarOn
  <2>5. Other(L[i], m) \in Node
    BY <1>1, <1>2, NearList DEF Near
  <2>6. f[i] \in Found
    BY <2>3, <2>5, VisitType
  <2> QED BY <1>5, <2>1, <2>4, <2>6
<1>8. n \in 0 .. n /\ f[n] \in Q[n]
  BY <1>6, <1>7, Kept
<1>9. f[n] \in Found /\ Far(k, r, m, search, n, f[n])
  BY <1>5, <1>8
<1>10. ASSUME m \in Leaders, m \notin Marked(r), Left(r) <= k + 1, Searches(k, search)
       PROVE  Done(r, m, f[n])
  <2>1. /\ Further(r, f[n]) /\ m \in Marked(f[n]) /\ Closed(r, f[n], {m})
        /\ \A j \in 1 .. n : Other(L[j], m) \in Marked(f[n])
    BY <1>1, <1>9, <1>10 DEF Far
  <2>2. Near(m) \subseteq Marked(f[n])
    BY <1>1, <1>2, <2>1, NearList
  <2>3. Closed(r, f[n], {})
    BY <2>1, <2>2 DEF Closed
  <2> QED BY <2>1, <2>3 DEF Done
<1> QED BY <1>3, <1>9, <1>10

-----------------------------------------------------------------------------
Searching(f) ==
  f = [k \in 0 .. job.n |->
         [r \in Found |-> [m \in Node |-> IF k = 0 THEN r ELSE Spread(r, m, f[k - 1])]]]

SearchedFar(f) == \A k \in 0 .. job.n : f[k] \in Seekers /\ Searches(k, f[k])

LEMMA SearchesNone ==
  ASSUME job.n \in Nat
  PROVE  Searches(0, [r \in Found |-> [m \in Node |-> r]])
<1>1. PICK f : f = [r \in Found |-> [m \in Node |-> r]]
  OBVIOUS
<1>2. f \in Seekers
  BY <1>1 DEF Seekers
<1>3. ASSUME NEW r \in Found, NEW m \in Leaders, m \notin Marked(r), Left(r) <= 0 PROVE FALSE
  <2>1. Left(r) = 0
    BY <1>3, LeftLess
  <2>2. IsFiniteSet(Node \ Marked(r))
    <3>1. PICK n \in Nat : n = job.n
      OBVIOUS
    <3>2. IsFiniteSet(1 .. n)
      BY FS_Interval
    <3> QED BY <3>1, <3>2, FS_Subset DEF Node
  <2>3. Node \ Marked(r) = {}
    BY <2>1, <2>2, FS_EmptySet DEF Left
  <2> QED BY <1>3, <2>3 DEF Leaders
<1>4. Searches(0, f)
  BY <1>2, <1>3 DEF Searches
<1> QED BY <1>1, <1>4

\* Searches with one call more under way.
Wider(g) == [r \in Found |-> [m \in Node |-> Spread(r, m, g)]]

LEMMA SearchingExists ==
  ASSUME Ready
  PROVE  \E f : Searching(f)
<1>1. PICK n \in Nat : n = job.n
  BY DEF Ready
<1>2. PICK b : b = [r \in Found |-> [m \in Node |-> r]]
  OBVIOUS
<1>3. PICK step : step = [i \in 1 .. n |-> [g \in Seekers |-> Wider(g)]]
  OBVIOUS
<1>4. PICK f : Stages(f, n, b, step)
  BY StagesExist
<1>5. /\ f = [i \in 0 .. n |-> IF i = 0 THEN b ELSE step[i][f[i - 1]]]
      /\ f[0] = b /\ \A i \in 1 .. n : f[i] = step[i][f[i - 1]]
  <2>1. f = [i \in 0 .. n |-> IF i = 0 THEN b ELSE step[i][f[i - 1]]]
    BY <1>4 DEF Stages
  <2>2. 0 \in 0 .. n /\ \A i \in 1 .. n : i \in 0 .. n /\ i # 0
    OBVIOUS
  <2>3. \A i \in 0 .. n : f[i] = IF i = 0 THEN b ELSE step[i][f[i - 1]]
    BY <2>1
  <2> QED BY <2>1, <2>2, <2>3
<1>6. ASSUME NEW g \in Seekers PROVE Wider(g) \in Seekers
  <2>1. \A r \in Found, m \in Node : Spread(r, m, g) \in Found
    BY SpreadIs
  <2> QED BY <2>1 DEF Seekers, Wider
<1>7. \A i \in 0 .. n : f[i] \in Seekers
  <2>1. PICK Q : Q = [i \in 0 .. n |-> Seekers]
    OBVIOUS
  <2>2. b \in Seekers
    BY <1>2 DEF Seekers
  <2>3. f[0] \in Q[0]
    BY <1>5, <2>1, <2>2
  <2>4. ASSUME NEW i \in 1 .. n, f[i - 1] \in Q[i - 1] PROVE f[i] \in Q[i]
    <3>1. i - 1 \in 0 .. n /\ i \in 0 .. n
      OBVIOUS
    <3>2. PICK g : g = f[i - 1]
      OBVIOUS
    <3>3. g \in Seekers
      BY <2>1, <2>4, <3>1, <3>2
    <3>4. f[i] = Wider(g)
      BY <1>3, <1>5, <3>2, <3>3
    <3>5. f[i] \in Seekers
      BY <1>6, <3>3, <3>4
    <3> QED BY <2>1, <3>1, <3>5
  <2>5. \A i \in 0 .. n : f[i] \in Q[i]
    BY <2>3, <2>4, Kept
  <2> QED BY <2>1, <2>5
<1>8. \A i \in 0 .. n : f[i] = [r \in Found |-> [m \in Node |->
                                 IF i = 0 THEN r ELSE Spread(r, m, f[i - 1])]]
  <2> TAKE i \in 0 .. n
  <2>1. CASE i = 0
    BY <1>2, <1>5, <2>1
  <2>2. CASE i # 0
    <3>1. i \in 1 .. n /\ i - 1 \in 0 .. n
      BY <2>2
    <3>2. PICK g : g = f[i - 1]
      OBVIOUS
    <3>3. g \in Seekers
      BY <1>7, <3>1, <3>2
    <3>4. f[i] = Wider(g)
      BY <1>3, <1>5, <3>1, <3>2, <3>3
    <3> QED BY <2>2, <3>2, <3>4 DEF Wider
  <2> QED BY <2>1, <2>2
<1>9. f = [i \in 0 .. n |-> f[i]]
  BY <1>5
<1>10. Searching(f)
  BY <1>1, <1>8, <1>9 DEF Searching
<1> QED BY <1>10

LEMMA SearchesAll ==
  ASSUME Ready, NEW f, Searching(f)
  PROVE  SearchedFar(f)
<1>1. PICK n \in Nat : n = job.n
  BY DEF Ready
<1>2. PICK Q : Q = [i \in 0 .. n |-> {g \in Seekers : Searches(i, g)}]
  OBVIOUS
<1>3. \A i \in 0 .. n : f[i] = [r \in Found |-> [m \in Node |->
                                 IF i = 0 THEN r ELSE Spread(r, m, f[i - 1])]]
  BY <1>1 DEF Searching
<1>4. f[0] \in Q[0]
  <2>1. f[0] = [r \in Found |-> [m \in Node |-> r]]
    BY <1>3
  <2>2. Searches(0, f[0])
    BY <1>1, <2>1, SearchesNone
  <2> QED BY <1>2, <2>2 DEF Searches
<1>5. ASSUME NEW i \in 1 .. n, f[i - 1] \in Q[i - 1] PROVE f[i] \in Q[i]
  <2>1. i - 1 \in 0 .. n /\ i \in 0 .. n /\ i # 0 /\ i - 1 \in Nat
    OBVIOUS
  <2>2. PICK g : g = f[i - 1]
    OBVIOUS
  <2>3. g \in Seekers /\ Searches(i - 1, g)
    BY <1>2, <1>5, <2>1, <2>2
  <2>4. f[i] = [r \in Found |-> [m \in Node |-> Spread(r, m, g)]]
    BY <1>3, <2>1, <2>2
  <2>5. f[i] \in Seekers
    <3>1. \A r \in Found, m \in Node : Spread(r, m, g) \in Found
      BY <2>3, SpreadIs
    <3> QED BY <2>4, <3>1 DEF Seekers
  <2>6. ASSUME NEW r \in Found, NEW m \in Leaders, m \notin Marked(r), Left(r) <= i
        PROVE  Done(r, m, f[i][r][m])
    <3>1. m \in Node
      BY DEF Leaders
    <3>2. f[i][r][m] = Spread(r, m, g)
      BY <2>4, <3>1
    <3>3. PICK k \in Nat : k = i - 1
      BY <2>1
    <3>4. Left(r) <= k + 1
      <4>1. Left(r) \in Nat
        BY LeftLess DEF Ready
      <4> QED BY <2>6, <3>3, <4>1
    <3> QED BY <2>3, <2>6, <3>1, <3>2, <3>3, <3>4, SpreadIs
  <2>7. Searches(i, f[i])
    BY <2>5, <2>6 DEF Searches
  <2> QED BY <1>2, <2>1, <2>5, <2>7
<1>6. \A i \in 0 .. n : f[i] \in Q[i]
  BY <1>4, <1>5, Kept
<1> QED BY <1>1, <1>2, <1>6 DEF SearchedFar

\* What search_component comes to: the nodes it finds are all that can be reached from n,
\* beyond those that were marked.
LEMMA SearchIs ==
  ASSUME Ready, NEW s \in Found, NEW n \in Node
  PROVE  /\ Search(s, n) \in Found
         /\ n \in Leaders /\ n \notin Marked(s) => Done(s, n, Search(s, n))
<1>1. PICK f : f = CHOOSE g : Searching(g)
  OBVIOUS
<1>2. Searching(f)
  BY <1>1, SearchingExists
<1>3. Search(s, n) = f[job.n][s][n]
  BY <1>1 DEF Search, Searching
<1>4. PICK k \in Nat : k = job.n
  BY DEF Ready
<1>5. f[k] \in Seekers /\ Searches(k, f[k])
  BY <1>2, <1>4, SearchesAll DEF SearchedFar
<1>6. Search(s, n) \in Found
  BY <1>3, <1>4, <1>5 DEF Seekers
<1>7. Left(s) <= k
  BY <1>4, LeftLess
<1> QED BY <1>3, <1>4, <1>5, <1>6, <1>7 DEF Searches

-----------------------------------------------------------------------------
(* Decompose.                                                              *)

Divs == [mark : [Node -> 0 .. 255], comp : Seq(Seq(Node))]

Divide(s, n) ==
  IF leader[n] # n \/ s.mark[n] = NextMark THEN s
  ELSE [mark |-> Search([mark |-> s.mark, nodes |-> <<>>], n).mark,
        comp |-> Append(s.comp, Search([mark |-> s.mark, nodes |-> <<>>], n).nodes)]

Undivided == [mark |-> mark, comp |-> <<>>]

Dividing(f) ==
  f = [n \in 0 .. job.n |-> IF n = 0 THEN Undivided ELSE Divide(f[n - 1], n)]

\* Each node of U is in one of C, once, with every node that an edge joins it to.
InOne(C, U) ==
  /\ \A c \in DOMAIN C : IsInjective(C[c]) /\ Range(C[c]) \subseteq U
  /\ \A c, d \in DOMAIN C : c # d => Range(C[c]) \cap Range(C[d]) = {}
  /\ \A x \in U : \E c \in DOMAIN C : x \in Range(C[c])
Whole(C) == \A c \in DOMAIN C : \A x \in Range(C[c]) : Near(x) \subseteq Range(C[c])

DividedFar(n, s) ==
  Marked(Undivided) = {} =>
    /\ Marked(s) \subseteq Leaders /\ \A x \in Leaders : x <= n => x \in Marked(s)
    /\ \A x \in Node \ Marked(s) : s.mark[x] = mark[x]
    /\ InOne(s.comp, Marked(s)) /\ Whole(s.comp)

LEMMA NearBoth == ASSUME NEW x \in Node, NEW y \in Near(x) PROVE x \in Near(y)
BY DEF Near

LEMMA DivideType ==
  ASSUME Ready, NEW s \in Divs, NEW n \in Node
  PROVE  Divide(s, n) \in Divs
<1>1. PICK r : r = [mark |-> s.mark, nodes |-> <<>>]
  OBVIOUS
<1>2. r \in Found
  BY <1>1 DEF Found, Divs
<1>3. PICK c : c = Search(r, n)
  OBVIOUS
<1>4. c \in Found
  BY <1>2, <1>3, SearchIs
<1>5. PICK a, b, C : a = c.mark /\ b = c.nodes /\ C = s.comp
  OBVIOUS
<1>6. a \in [Node -> 0 .. 255] /\ b \in Seq(Node) /\ C \in Seq(Seq(Node))
  BY <1>4, <1>5 DEF Found, Divs
<1>7. [mark |-> a, comp |-> Append(C, b)] \in Divs
  BY <1>6 DEF Divs
<1> QED BY <1>1, <1>3, <1>5, <1>7 DEF Divide

LEMMA DividingExists ==
  ASSUME Ready, mark \in [Node -> 0 .. 255]
  PROVE  \E f : Dividing(f)
<1>1. PICK n \in Nat : n = job.n
  BY DEF Ready
<1>2. PICK b : b = Undivided
  OBVIOUS
<1>3. PICK step : step = [i \in 1 .. n |-> [s \in Divs |-> Divide(s, i)]]
  OBVIOUS
<1>4. PICK f : Stages(f, n, b, step)
  BY StagesExist
<1>5. /\ f = [i \in 0 .. n |-> IF i = 0 THEN b ELSE step[i][f[i - 1]]]
      /\ f[0] = b /\ \A i \in 1 .. n : f[i] = step[i][f[i - 1]]
  <2>1. f = [i \in 0 .. n |-> IF i = 0 THEN b ELSE step[i][f[i - 1]]]
    BY <1>4 DEF Stages
  <2>2. 0 \in 0 .. n /\ \A i \in 1 .. n : i \in 0 .. n /\ i # 0
    OBVIOUS
  <2>3. \A i \in 0 .. n : f[i] = IF i = 0 THEN b ELSE step[i][f[i - 1]]
    BY <2>1
  <2> QED BY <2>1, <2>2, <2>3
<1>6. \A i \in 0 .. n : f[i] \in Divs
  <2>1. PICK Q : Q = [i \in 0 .. n |-> Divs]
    OBVIOUS
  <2>2. b \in Divs
    BY <1>2 DEF Undivided, Divs
  <2>3. f[0] \in Q[0]
    BY <1>5, <2>1, <2>2
  <2>4. ASSUME NEW i \in 1 .. n, f[i - 1] \in Q[i - 1] PROVE f[i] \in Q[i]
    <3>1. i - 1 \in 0 .. n /\ i \in 0 .. n
      OBVIOUS
    <3>2. f[i - 1] \in Divs
      BY <2>1, <2>4, <3>1
    <3>3. f[i] = Divide(f[i - 1], i)
      BY <1>3, <1>5, <3>2
    <3>4. i \in Node
      BY <1>1 DEF Node
    <3>5. f[i] \in Divs
      BY <3>2, <3>3, <3>4, DivideType
    <3> QED BY <2>1, <3>1, <3>5
  <2>5. \A i \in 0 .. n : f[i] \in Q[i]
    BY <2>3, <2>4, Kept
  <2> QED BY <2>1, <2>5
<1>7. \A i \in 0 .. n : f[i] = IF i = 0 THEN b ELSE Divide(f[i - 1], i)
  <2> TAKE i \in 0 .. n
  <2>1. CASE i = 0
    BY <1>5, <2>1
  <2>2. CASE i # 0
    <3>1. i \in 1 .. n /\ i - 1 \in 0 .. n
      BY <2>2
    <3> QED BY <1>3, <1>5, <1>6, <2>2, <3>1
  <2> QED BY <2>1, <2>2
<1>8. f = [i \in 0 .. n |-> f[i]]
  BY <1>5
<1>9. f = [i \in 0 .. n |-> IF i = 0 THEN b ELSE Divide(f[i - 1], i)]
  BY <1>7, <1>8
<1> QED BY <1>1, <1>2, <1>9 DEF Dividing

LEMMA AppendAt ==
  ASSUME NEW S, NEW C \in Seq(S), NEW b \in S
  PROVE  /\ Append(C, b) \in Seq(S) /\ Len(C) \in Nat
         /\ DOMAIN C = 1 .. Len(C) /\ DOMAIN Append(C, b) = 1 .. Len(C) + 1
         /\ Append(C, b)[Len(C) + 1] = b
         /\ \A c \in 1 .. Len(C) : Append(C, b)[c] = C[c]
OBVIOUS

LEMMA DivideOn ==
  ASSUME Ready, NEW n \in Node, NEW s \in Divs, DividedFar(n - 1, s)
  PROVE  DividedFar(n, Divide(s, n))
<1> SUFFICES ASSUME Marked(Undivided) = {} PROVE DividedFar(n, Divide(s, n))
  BY DEF DividedFar
<1>1. PICK w : w = Divide(s, n)
  OBVIOUS
<1>2. /\ Marked(s) \subseteq Leaders /\ \A x \in Leaders : x <= n - 1 => x \in Marked(s)
      /\ \A x \in Node \ Marked(s) : s.mark[x] = mark[x]
      /\ InOne(s.comp, Marked(s)) /\ Whole(s.comp)
  BY DEF DividedFar
<1>3. \A x \in Leaders : x <= n => x <= n - 1 \/ x = n
  BY DEF Leaders, Node, Ready
<1>4. CASE leader[n] # n \/ n \in Marked(s)
  <2>1. w = s
    BY <1>1, <1>4 DEF Divide, Marked
  <2>2. \A x \in Leaders : x = n => x \in Marked(s)
    BY <1>4 DEF Leaders
  <2> QED BY <1>1, <1>2, <1>3, <2>1, <2>2 DEF DividedFar
<1>5. CASE ~(leader[n] # n \/ n \in Marked(s))
  <2>1. PICK r : r = [mark |-> s.mark, nodes |-> <<>>]
    OBVIOUS
  <2>2. r \in Found /\ Marked(r) = Marked(s) /\ r.nodes = <<>>
    BY <2>1 DEF Found, Divs, Marked
  <2>3. PICK c : c = Search(r, n)
    OBVIOUS
  <2>4. PICK a, b, C : a = c.mark /\ b = c.nodes /\ C = s.comp
    OBVIOUS
  <2>5. n \in Leaders /\ n \notin Marked(r)
    BY <1>5, <2>2 DEF Leaders
  <2>6. c \in Found /\ Done(r, n, c)
    BY <2>2, <2>3, <2>5, SearchIs
  <2>7. w = [mark |-> a, comp |-> Append(C, b)]
    BY <1>1, <1>5, <2>1, <2>3, <2>4 DEF Divide, Marked
  <2>8. PICK D : D = Append(C, b)
    OBVIOUS
  <2>9. w.comp = D /\ Marked(w) = Marked(c)
    BY <2>4, <2>7, <2>8 DEF Marked
  <2>10. /\ n \in Marked(c) /\ Marked(s) \subseteq Marked(c) /\ Marked(c) \ Marked(s) \subseteq Leaders
         /\ Closed(r, c, {}) /\ Range(b) = Range(r.nodes) \cup (Marked(c) \ Marked(s))
         /\ Distinct(r) => Distinct(c)
         /\ \A x \in Node \ Marked(c) : a[x] = r.mark[x]
    BY <2>2, <2>4, <2>6 DEF Done, Further
  <2>11. Range(r.nodes) = {} /\ IsInjective(r.nodes)
    BY <2>2 DEF Range, IsInjective
  <2>12. Range(b) = Marked(c) \ Marked(s) /\ IsInjective(b)
    BY <2>4, <2>10, <2>11 DEF Distinct
  <2>13. /\ Len(C) \in Nat /\ DOMAIN C = 1 .. Len(C) /\ DOMAIN D = 1 .. Len(C) + 1
         /\ D[Len(C) + 1] = b /\ \A i \in 1 .. Len(C) : D[i] = C[i]
    <3>1. C \in Seq(Seq(Node)) /\ b \in Seq(Node)
      BY <2>4, <2>6 DEF Divs, Found
    <3> QED BY ONLY <2>8, <3>1, AppendAt
  <2>14. /\ \A i \in DOMAIN C : i \in DOMAIN D /\ D[i] = C[i]
         /\ \A i \in DOMAIN D : i \in DOMAIN C \/ (D[i] = b /\ i = Len(C) + 1)
         /\ Len(C) + 1 \in DOMAIN D
    BY <2>13
  <2>15. InOne(C, Marked(s)) /\ Whole(C)
    BY <1>2, <2>4
  <2>16. \A i \in DOMAIN C : Range(C[i]) \cap Range(b) = {}
    BY <2>12, <2>15 DEF InOne
  <2>17. InOne(D, Marked(c))
    <3>1. \A i \in DOMAIN D : IsInjective(D[i]) /\ Range(D[i]) \subseteq Marked(c)
      BY <2>10, <2>12, <2>14, <2>15 DEF InOne
    <3>2. \A i, j \in DOMAIN D : i # j => Range(D[i]) \cap Range(D[j]) = {}
      BY <2>14, <2>15, <2>16 DEF InOne
    <3>3. ASSUME NEW x \in Marked(c) PROVE \E i \in DOMAIN D : x \in Range(D[i])
      <4>1. CASE x \in Marked(s)
        BY <2>14, <2>15, <4>1 DEF InOne
      <4>2. CASE x \notin Marked(s)
        BY <2>12, <2>13, <2>14, <4>2
      <4> QED BY <4>1, <4>2
    <3> QED BY <3>1, <3>2, <3>3 DEF InOne
  <2>18. ASSUME NEW x \in Range(b) PROVE Near(x) \subseteq Range(b)
    <3>1. x \in Marked(c) \ Marked(s) /\ x \in Node
      BY <2>12 DEF Marked
    <3>2. Near(x) \subseteq Marked(c)
      BY <2>2, <2>10, <3>1 DEF Closed
    <3>3. ASSUME NEW y \in Near(x), y \in Marked(s) PROVE FALSE
      <4>1. PICK i \in DOMAIN C : y \in Range(C[i])
        BY <2>15, <3>3 DEF InOne
      <4>2. x \in Near(y)
        BY <3>1, NearBoth
      <4>3. x \in Range(C[i]) /\ Range(C[i]) \subseteq Marked(s)
        BY <2>15, <4>1, <4>2 DEF InOne, Whole
      <4> QED BY <3>1, <4>3
    <3> QED BY <2>12, <3>2, <3>3
  <2>19. Whole(D)
    BY <2>14, <2>15, <2>18 DEF Whole
  <2>20. Marked(c) \subseteq Leaders
    BY <1>2, <2>10
  <2>21. w.mark = a /\ r.mark = s.mark
    BY <2>1, <2>7
  <2>22. \A x \in Node \ Marked(w) : w.mark[x] = mark[x]
    BY <1>2, <2>9, <2>10, <2>21
  <2> QED BY <1>1, <1>2, <1>3, <2>9, <2>10, <2>17, <2>19, <2>20, <2>22 DEF DividedFar
<1> QED BY <1>4, <1>5

\* What Decompose does.
Divides(m, C) ==
  /\ m \in [Node -> 0 .. 255] /\ C \in Seq(Seq(Node))
  /\ (\A x \in Node : mark[x] # NextMark) =>
       /\ \A x \in Node : m[x] = IF x \in Leaders THEN NextMark ELSE mark[x]
       /\ InOne(C, Leaders) /\ Whole(C)

LEMMA DecomposeIs ==
  ASSUME Ready, mark \in [Node -> 0 .. 255], Decompose
  PROVE  Cmark' = NextMark /\ Divides(mark', comp')
<1>1. PICK f : f = CHOOSE g : Dividing(g)
  OBVIOUS
<1>2. Dividing(f)
  BY <1>1, DividingExists
<1>3. comp' = f[job.n].comp /\ mark' = f[job.n].mark /\ Cmark' = NextMark
  BY <1>1 DEF Decompose, Dividing, Divide, Undivided
<1>4. PICK n \in Nat : n = job.n
  BY DEF Ready
<1>5. \A i \in 0 .. n : f[i] = IF i = 0 THEN Undivided ELSE Divide(f[i - 1], i)
  BY <1>2, <1>4 DEF Dividing
<1>6. PICK Q : Q = [i \in 0 .. n |-> {s \in Divs : DividedFar(i, s)}]
  OBVIOUS
<1>7. f[0] \in Q[0]
  <2>0. 0 \in 0 .. n
    OBVIOUS
  <2>1. f[0] = Undivided /\ Undivided \in Divs
    <3>1. f[0] = Undivided
      BY <1>5, <2>0
    <3>2. Undivided \in Divs
      BY DEF Undivided, Divs
    <3> QED BY <3>1, <3>2
  <2>2. DividedFar(0, Undivided)
    <3> SUFFICES ASSUME Marked(Undivided) = {} PROVE DividedFar(0, Undivided)
      BY DEF DividedFar
    <3>1. \A x \in Leaders : ~(x <= 0)
      BY DEF Leaders, Node
    <3>2. Undivided.comp = <<>> /\ Undivided.mark = mark
      BY DEF Undivided
    <3>3. InOne(<<>>, {}) /\ Whole(<<>>)
      BY DEF InOne, Whole
    <3> QED BY <3>1, <3>2, <3>3 DEF DividedFar
  <2> QED BY <1>6, <2>1, <2>2
<1>8. ASSUME NEW i \in 1 .. n, f[i - 1] \in Q[i - 1] PROVE f[i] \in Q[i]
  <2>1. i - 1 \in 0 .. n /\ i \in 0 .. n /\ i # 0 /\ i \in Node
    BY <1>4 DEF Node
  <2>2. PICK s : s = f[i - 1]
    OBVIOUS
  <2>3. s \in Divs /\ DividedFar(i - 1, s)
    BY <1>6, <1>8, <2>1, <2>2
  <2>4. f[i] = Divide(s, i)
    BY <1>5, <2>1, <2>2
  <2>5. DividedFar(i, f[i]) /\ f[i] \in Divs
    BY <2>1, <2>3, <2>4, DivideOn, DivideType
  <2> QED BY <1>6, <2>1, <2>5
<1>9. n \in 0 .. n /\ f[n] \in Q[n]
  BY <1>7, <1>8, Kept
<1>10. f[n] \in Divs /\ DividedFar(n, f[n])
  BY <1>6, <1>9
<1>11. PICK m, C : m = mark' /\ C = comp'
  OBVIOUS
<1>12. m = f[n].mark /\ C = f[n].comp
  BY <1>3, <1>4, <1>11
<1>13. m \in [Node -> 0 .. 255] /\ C \in Seq(Seq(Node))
  BY <1>10, <1>12 DEF Divs
<1>14. ASSUME \A x \in Node : mark[x] # NextMark
       PROVE  /\ \A x \in Node : m[x] = IF x \in Leaders THEN NextMark ELSE mark[x]
              /\ InOne(C, Leaders) /\ Whole(C)
  <2>1. Marked(Undivided) = {}
    BY <1>14 DEF Marked, Undivided
  <2>2. /\ Marked(f[n]) \subseteq Leaders /\ \A x \in Leaders : x <= n => x \in Marked(f[n])
        /\ \A x \in Node \ Marked(f[n]) : m[x] = mark[x]
        /\ InOne(C, Marked(f[n])) /\ Whole(C)
    BY <1>10, <1>12, <2>1 DEF DividedFar
  <2>3. \A x \in Leaders : x <= n
    BY <1>4 DEF Leaders, Node
  <2>4. Marked(f[n]) = Leaders
    BY <2>2, <2>3
  <2> QED BY <1>12, <2>2, <2>4 DEF Marked
<1>15. Divides(m, C)
  BY <1>13, <1>14 DEF Divides
<1> QED BY <1>3, <1>11, <1>15

-----------------------------------------------------------------------------
(* The shape of every state.                                               *)

Kinds == {"same", "min", "source", "max", "sink"}

JobOk ==
  /\ job \in Jobs /\ job.n \in Nat /\ job.edge \in Seq([tail : Node, head : Node, minlen : Nat,
                                          weight : Nat, constraint : BOOLEAN])
  /\ job.sets \in Seq([kind : Kinds, nodes : (SUBSET Node) \ {{}}])

Sets ==
  /\ leader \in [Node -> Node] /\ \A n \in Node : leader[leader[n]] = leader[n]
  /\ minset \in Node \cup {NONE} /\ maxset \in Node \cup {NONE}
  /\ pc \notin {"collapse", "class1"} =>
       minset \in Leaders \cup {NONE} /\ maxset \in Leaders \cup {NONE}

Graph == Lists(G, Node, AllLive) /\ Simple(fast, AllLive) /\ LeadersJoined(fast, AllLive)

Calls == [node : Node, i : Nat \ {0}]

\* What each variable is, and the fast graph as its lists have it.
Shape ==
  /\ JobOk /\ Sets
  /\ at \in Nat \ {0}
  /\ slen \in [x : Nat, y : Nat]
  /\ virt \in [Edge -> Nat]
  /\ mark \in [Node -> 0 .. 255] /\ Cmark \in 0 .. 255 /\ comp \in Seq(Seq(Node))
  /\ stack \in Seq(Calls)
  /\ pc = "dfs" => at \in DOMAIN comp
  /\ pc = "collapse" => fast = <<>>
  /\ Graph

LEMMA ShapeReady == ASSUME Shape PROVE Ready
BY DEF Shape, Ready, JobOk, Sets, Graph

LEMMA JobIs == ASSUME job \in Jobs PROVE JobOk
BY RankAssumption DEF JobOk, Node, Kinds

LEMMA MemberIs == ASSUME NEW S, NEW q \in Seq(S), NEW i \in DOMAIN q PROVE q[i] \in S
OBVIOUS

LEMMA EdgeIs ==
  ASSUME JobOk, NEW e \in Edge
  PROVE  /\ job.edge[e].tail \in Node /\ job.edge[e].head \in Node
         /\ job.edge[e].minlen \in Nat /\ job.edge[e].weight \in Nat
<1>1. PICK E : E = job.edge
  OBVIOUS
<1>2. PICK V : V = Node
  OBVIOUS
<1>3. E \in Seq([tail : V, head : V, minlen : Nat, weight : Nat, constraint : BOOLEAN])
  BY <1>1, <1>2 DEF JobOk
<1>4. e \in DOMAIN E
  BY <1>1 DEF Edge
<1>5. E[e] \in [tail : V, head : V, minlen : Nat, weight : Nat, constraint : BOOLEAN]
  BY <1>3, <1>4, MemberIs
<1> QED BY <1>1, <1>2, <1>5

LEMMA SetIs ==
  ASSUME JobOk, NEW i \in DOMAIN job.sets
  PROVE  /\ job.sets[i].nodes \in SUBSET Node /\ job.sets[i].nodes # {}
         /\ job.sets[i].kind \in Kinds
<1>1. PICK E : E = job.sets
  OBVIOUS
<1>2. PICK V : V = Node
  OBVIOUS
<1>3. E \in Seq([kind : Kinds, nodes : (SUBSET V) \ {{}}])
  BY <1>1, <1>2 DEF JobOk
<1>4. E[i] \in [kind : Kinds, nodes : (SUBSET V) \ {{}}]
  <2>1. PICK W : W = [kind : Kinds, nodes : (SUBSET V) \ {{}}]
    OBVIOUS
  <2>2. E \in Seq(W) /\ i \in DOMAIN E
    BY <1>1, <1>3, <2>1
  <2>3. E[i] \in W
    BY ONLY <2>2, MemberIs
  <2> QED BY ONLY <2>1, <2>3
<1>5. E[i].nodes \in SUBSET V /\ E[i].nodes # {} /\ E[i].kind \in Kinds
  BY ONLY <1>4
<1> QED BY ONLY <1>1, <1>2, <1>5

LEMMA LeastIs ==
  ASSUME NEW S \in SUBSET Nat, S # {}
  PROVE  Min(S) \in S /\ \A x \in S : Min(S) <= x
<1>1. \E x \in S : \A y \in S : x <= y
  BY NatLeast
<1> QED BY <1>1 DEF Min

LEMMA NodeNat == Node \subseteq Nat /\ NONE \notin Node
BY DEF Node, NONE

\* Where a node's lists have the edges, all of them are the live ones.
LEMMA LiveAre ==
  ASSUME NEW g, NEW N, NEW A, Lists(g, N, A)
  PROVE  UNION {Range(g.out[n]) : n \in N} = A
<1>1. \A n \in N : Range(g.out[n]) = From(g.fast, A, n)
  BY DEF Lists, Once
<1>2. \A e \in A : g.fast[e].tail \in N
  BY ListsIs
<1> QED BY <1>1, <1>2 DEF From

LEMMA GraphNext ==
  ASSUME job' = job, leader' = leader, NEW h, NEW B, Lists(h, Node, B), Simple(h.fast, B),
         LeadersJoined(h.fast, B), Set(h)
  PROVE  Graph' /\ AllLive' = B
<1>1. Node' = Node /\ Leaders' = Leaders
  BY DEF Node, Leaders
<1>2. G' = h
  <2>1. h = [fast |-> h.fast, out |-> h.out, in |-> h.in]
    BY ListsIs
  <2> QED BY <2>1 DEF G, Set
<1>3. AllLive' = B
  BY <1>1, LiveAre DEF AllLive, Edges, Live, Set
<1> QED BY <1>1, <1>2, <1>3 DEF Graph, LeadersJoined, Set

LEMMA GraphSame ==
  ASSUME Graph, job' = job, leader' = leader, UNCHANGED fastgraph
  PROVE  Graph' /\ AllLive' = AllLive
<1>1. Node' = Node /\ Leaders' = Leaders
  BY DEF Node, Leaders
<1>2. AllLive' = AllLive /\ G' = G
  BY <1>1 DEF AllLive, Edges, Live, G, fastgraph
<1> QED BY <1>1, <1>2 DEF Graph, LeadersJoined, fastgraph

LEMMA JobSame ==
  ASSUME JobOk, job' = job
  PROVE  JobOk' /\ Node' = Node /\ Edge' = Edge /\ Calls' = Calls
BY DEF JobOk, Node, Edge, Calls

LEMMA SetsSame ==
  ASSUME Sets, job' = job, UNCHANGED sets, pc' \notin {"collapse", "class1"} => pc \notin {"collapse", "class1"}
  PROVE  Sets' /\ Leaders' = Leaders
BY DEF Sets, sets, Node, Leaders

LEMMA ShapeInit == ASSUME Init PROVE Shape
<1>1. JobOk
  BY JobIs DEF Init
<1>2. Node = 1 .. job.n /\ leader = [n \in Node |-> n] /\ mark = [n \in Node |-> 0]
      /\ out = [n \in Node |-> <<>>] /\ in = [n \in Node |-> <<>>] /\ fast = <<>>
      /\ virt = [e \in Edge |-> NONE] /\ minset = NONE /\ maxset = NONE /\ pc = "collapse"
      /\ at = 1 /\ slen = [x |-> 0, y |-> 0] /\ comp = <<>> /\ stack = <<>> /\ Cmark \in Marks
  BY DEF Init, Node, Edge
<1>3. Sets
  BY <1>2 DEF Sets
<1>4. Lists(G, Node, {})
  <2>1. PICK g : g = [fast |-> <<>>, out |-> [n \in Node |-> <<>>], in |-> [n \in Node |-> <<>>]]
    OBVIOUS
  <2>2. g \in FastGraph(Node) /\ DOMAIN g.fast = {} /\ \A n \in Node : g.out[n] = <<>> /\ g.in[n] = <<>>
    BY <2>1 DEF FastGraph
  <2>3. \A n \in Node : From(g.fast, {}, n) = {} /\ To(g.fast, {}, n) = {}
    BY DEF From, To
  <2>4. Once(<<>>, {})
    BY DEF Once, IsInjective, Range
  <2>5. Lists(g, Node, {})
    BY <2>2, <2>3, <2>4 DEF Lists
  <2> QED BY <1>2, <2>1, <2>5 DEF G
<1>5. AllLive = {}
  BY <1>4, LiveAre DEF AllLive, Edges, Live, G
<1>6. Graph
  BY <1>4, <1>5 DEF Graph, Simple, LeadersJoined
<1>7. Cmark \in 0 .. 255 /\ mark \in [Node -> 0 .. 255] /\ virt \in [Edge -> Nat]
  BY <1>2, RankAssumption DEF NONE
<1> QED BY <1>1, <1>2, <1>3, <1>6, <1>7 DEF Shape

\* Leaders lead themselves.
Leads(l) == l \in [Node -> Node] /\ \A n \in Node : l[l[n]] = l[n]

LEMMA UnionIs ==
  ASSUME NEW l, Leads(l), NEW u \in Node, NEW v \in Node
  PROVE  Leads(Union(l, u, v))
<1>1. PICK a : a = Min({l[u], l[v]})
  OBVIOUS
<1>2. a \in {l[u], l[v]} /\ a \in Node
  <2>1. {l[u], l[v]} \in SUBSET Nat /\ {l[u], l[v]} \subseteq Node
    BY NodeNat DEF Leads
  <2> QED BY <1>1, <2>1, LeastIs
<1>3. PICK m : m = [n \in Node |-> IF l[n] \in {l[u], l[v]} THEN a ELSE l[n]]
  OBVIOUS
<1>4. m = Union(l, u, v)
  BY <1>1, <1>3 DEF Union
<1>5. m \in [Node -> Node]
  BY <1>2, <1>3 DEF Leads
<1>6. l[a] = a
  BY <1>2 DEF Leads
<1>7. m[a] = a
  BY <1>2, <1>3, <1>6
<1>8. ASSUME NEW n \in Node PROVE m[m[n]] = m[n]
  <2>1. CASE l[n] \in {l[u], l[v]}
    BY <1>3, <1>7, <2>1
  <2>2. CASE l[n] \notin {l[u], l[v]}
    <3>1. m[n] = l[n] /\ l[n] \in Node /\ l[l[n]] = l[n]
      BY <1>3, <2>2 DEF Leads
    <3>2. m[l[n]] = l[n]
      BY <1>3, <2>2, <3>1
    <3> QED BY <3>1, <3>2
  <2> QED BY <2>1, <2>2
<1>9. Leads(m)
  BY <1>5, <1>8 DEF Leads
<1> QED BY <1>4, <1>9

\* What collapse_rankset makes of the leaders before it looks at the kind.
Gathered(S) == [n \in Node |-> IF \E s \in S : leader[n] = leader[s]
                               THEN Min({leader[s] : s \in S}) ELSE leader[n]]

LEMMA GatheredIs ==
  ASSUME Leads(leader), NEW S \in SUBSET Node, S # {}
  PROVE  Leads(Gathered(S))
<1>1. PICK T : T = {leader[s] : s \in S}
  OBVIOUS
<1>2. PICK a : a = Min(T)
  OBVIOUS
<1>3. a \in T /\ a \in Node
  <2>1. \A s \in S : leader[s] \in Node
    BY DEF Leads
  <2>2. T \subseteq Node
    BY <1>1, <2>1
  <2>3. T # {}
    BY <1>1
  <2>4. T \in SUBSET Nat
    BY <2>2, NodeNat
  <2> QED BY <1>2, <2>2, <2>3, <2>4, LeastIs
<1>4. PICK m : m = [n \in Node |-> IF leader[n] \in T THEN a ELSE leader[n]]
  OBVIOUS
<1>5. m = Gathered(S)
  <2>1. \A n \in Node : leader[n] \in T <=> \E s \in S : leader[n] = leader[s]
    BY <1>1
  <2>2. Gathered(S) = [n \in Node |-> IF \E s \in S : leader[n] = leader[s] THEN a ELSE leader[n]]
    BY <1>1, <1>2 DEF Gathered
  <2>3. \A n \in Node : m[n] = Gathered(S)[n]
    BY <1>4, <2>1, <2>2
  <2> QED BY <1>4, <2>2, <2>3
<1>6. m \in [Node -> Node]
  BY <1>3, <1>4 DEF Leads
<1>7. leader[a] = a
  BY <1>1, <1>3 DEF Leads
<1>8. m[a] = a
  BY <1>3, <1>4, <1>7
<1>9. ASSUME NEW n \in Node PROVE m[m[n]] = m[n]
  <2>1. CASE leader[n] \in T
    BY <1>4, <1>8, <2>1
  <2>2. CASE leader[n] \notin T
    <3>1. m[n] = leader[n] /\ leader[n] \in Node /\ leader[leader[n]] = leader[n]
      BY <1>4, <2>2 DEF Leads
    <3>2. m[leader[n]] = leader[n]
      BY <1>4, <2>2, <3>1
    <3> QED BY <3>1, <3>2
  <2> QED BY <2>1, <2>2
<1>10. Leads(m)
  BY <1>6, <1>9 DEF Leads
<1> QED BY <1>5, <1>10

LEMMA JoinedIs ==
  ASSUME NEW l, Leads(l), NEW set \in Node \cup {NONE}, NEW u \in Node
  PROVE  Leads(Joined(l, set, u).l) /\ Joined(l, set, u).set \in Node
<1>1. CASE set = NONE
  BY <1>1 DEF Joined
<1>2. CASE set # NONE
  <2>1. set \in Node
    BY <1>2
  <2>2. {l[set], l[u]} \in SUBSET Nat /\ {l[set], l[u]} \subseteq Node
    BY <2>1, NodeNat DEF Leads
  <2>3. Min({l[set], l[u]}) \in Node
    BY <2>2, LeastIs
  <2>4. Leads(Union(l, set, u))
    BY <2>1, UnionIs
  <2>5. Joined(l, set, u) = [l |-> Union(l, set, u), set |-> Min({l[set], l[u]})]
    BY <1>2 DEF Joined
  <2>6. PICK a, b : a = Union(l, set, u) /\ b = Min({l[set], l[u]})
    OBVIOUS
  <2>7. Joined(l, set, u).l = a /\ Joined(l, set, u).set = b
    BY <2>5, <2>6
  <2> QED BY <2>3, <2>4, <2>6, <2>7
<1> QED BY <1>1, <1>2

\* What stays as it is while the graph and its sets do.
LEMMA NoEdges ==
  ASSUME Shape, fast = <<>>
  PROVE  Lists(G, Node, {}) /\ AllLive = {}
<1>1. AllLive \subseteq DOMAIN fast
  BY DEF Shape, Graph, Lists, G
<1>2. AllLive = {}
  BY <1>1
<1> QED BY <1>2 DEF Shape, Graph

LEMMA CollapseRanksetShape == ASSUME Shape, CollapseRankset PROVE Shape'
<1>1. /\ JobOk' /\ Node' = Node /\ Edge' = Edge /\ Calls' = Calls /\ Leads(leader) /\ pc = "collapse" /\ pc' = pc
      /\ job' = job /\ minset \in Node \cup {NONE} /\ maxset \in Node \cup {NONE} /\ fast = <<>>
      /\ UNCHANGED fastgraph
  BY JobSame DEF Shape, CollapseRankset, Sets, Leads
<1>2. PICK S, kind : S = job.sets[at].nodes /\ kind = job.sets[at].kind
  OBVIOUS
<1>3. S \in SUBSET Node /\ S # {}
  <2>1. at \in DOMAIN job.sets
    BY DEF Shape, CollapseRankset, JobOk
  <2> QED BY <1>2, <2>1, SetIs DEF Shape
<1>4. PICK u, l : u = Min(S) /\ l = Gathered(S)
  OBVIOUS
<1>5. u \in Node /\ Leads(l)
  <2>1. S \in SUBSET Nat
    BY <1>3, NodeNat
  <2> QED BY <1>1, <1>3, <1>4, <2>1, LeastIs, GatheredIs
<1>6. /\ Leads(Joined(l, minset, u).l) /\ Joined(l, minset, u).set \in Node
      /\ Leads(Joined(l, maxset, u).l) /\ Joined(l, maxset, u).set \in Node
  BY <1>1, <1>5, JoinedIs
<1>7. \/ leader' = l /\ minset' = minset /\ maxset' = maxset
      \/ leader' = Joined(l, minset, u).l /\ minset' = Joined(l, minset, u).set /\ maxset' = maxset
      \/ leader' = Joined(l, maxset, u).l /\ maxset' = Joined(l, maxset, u).set /\ minset' = minset
  BY <1>2, <1>4 DEF CollapseRankset, Gathered
<1>8. Leads(leader') /\ minset' \in Node \cup {NONE} /\ maxset' \in Node \cup {NONE}
  BY <1>1, <1>5, <1>6, <1>7
<1>9. Sets'
  BY <1>1, <1>8 DEF Sets, Leads
<1>10. Graph'
  <2>1. Lists(G, Node, {}) /\ AllLive = {}
    BY <1>1, NoEdges
  <2>2. G' = G /\ AllLive' = AllLive
    BY <1>1 DEF G, AllLive, Edges, Live, fastgraph
  <2> QED BY <1>1, <2>1, <2>2 DEF Graph, Simple, LeadersJoined
<1>11. /\ at' = at + 1 /\ pc' = pc /\ slen' = slen /\ virt' = virt /\ mark' = mark
       /\ Cmark' = Cmark /\ comp' = comp /\ stack' = stack /\ fast' = fast
  BY DEF CollapseRankset, marks, fastgraph
<1> QED BY <1>1, <1>9, <1>10, <1>11 DEF Shape

LEMMA CollapseDoneShape == ASSUME Shape, CollapseDone PROVE Shape'
<1>1. JobOk' /\ Node' = Node /\ Edge' = Edge /\ Calls' = Calls
  BY JobSame DEF Shape, CollapseDone
<1>2. Sets'
  BY SetsSame DEF Shape, CollapseDone
<1>3. Graph'
  BY GraphSame DEF Shape, CollapseDone, sets
<1> QED BY <1>1, <1>2, <1>3 DEF Shape, CollapseDone, marks

-----------------------------------------------------------------------------
\* A graph whose lists are right, and whose edges join leaders.
Good(g, A) == Lists(g, Node, A) /\ Simple(g.fast, A) /\ LeadersJoined(g.fast, A)

LEMMA GoodG == ASSUME Graph PROVE Good(G, AllLive) /\ G.fast = fast /\ G.out = out /\ G.in = in
BY DEF Graph, Good, G

LEMMA GoodNext ==
  ASSUME job' = job, leader' = leader, NEW h, NEW B, Good(h, B), Set(h)
  PROVE  Graph' /\ AllLive' = B
BY GraphNext DEF Good

LEMMA JoinedSame ==
  ASSUME NEW f, NEW A, A \subseteq DOMAIN f, LeadersJoined(f, A), NEW h, Extends(f, h)
  PROVE  LeadersJoined(h, A)
BY DEF LeadersJoined, Extends

LEMMA GoodMerge ==
  ASSUME NEW g, NEW A, Good(g, A), NEW minlen \in Nat, NEW weight \in Nat, NEW rep
  PROVE  /\ Good(Merge(g, minlen, weight, rep), A)
         /\ SameEnds(g.fast, Merge(g, minlen, weight, rep).fast)
         /\ VirtKept(g.fast, Merge(g, minlen, weight, rep).fast)
<1>1. PICK h : h = Merge(g, minlen, weight, rep)
  OBVIOUS
<1>2. Lists(h, Node, A) /\ SameEnds(g.fast, h.fast) /\ VirtKept(g.fast, h.fast) /\ Simple(h.fast, A)
  BY <1>1, MergeIs DEF Good
<1>3. A \subseteq DOMAIN g.fast
  BY DEF Good, Lists
<1>4. LeadersJoined(h.fast, A)
  BY <1>2, <1>3 DEF Good, LeadersJoined, SameEnds
<1> QED BY <1>1, <1>2, <1>4 DEF Good

\* h has the edges of f as they are, and others that none stands for.
Grown(f, h) ==
  /\ \A d \in DOMAIN f : d \in DOMAIN h /\ h[d] = f[d]
  /\ \A d \in DOMAIN h : d \in DOMAIN f \/ h[d].virt = NONE

LEMMA GoodAdd ==
  ASSUME NEW g, NEW A, Good(g, A), NEW u \in Leaders, NEW v \in Leaders, u # v,
         NEW minlen \in Nat, NEW weight \in Nat, NoneJoins(g.fast, A, u, v)
  PROVE  /\ Good(Add(g, u, v, minlen, weight), A \cup {Len(g.fast) + 1})
         /\ Grown(g.fast, Add(g, u, v, minlen, weight).fast)
         /\ Len(g.fast) + 1 \notin DOMAIN g.fast
         /\ Joins(Add(g, u, v, minlen, weight).fast, Len(g.fast) + 1, u, v)
<1>1. PICK h, e, B : h = Add(g, u, v, minlen, weight) /\ e = Len(g.fast) + 1 /\ B = A \cup {e}
  OBVIOUS
<1>2. u \in Node /\ v \in Node
  BY DEF Leaders
<1>3. Gained(g, h, Node, A, u, v, minlen, weight)
  BY <1>1, <1>2, AddIs DEF Good
<1>4. Lists(h, Node, B) /\ Simple(h.fast, B)
  BY <1>1, <1>3 DEF Gained, Good
<1>5. PICK x : x = [tail |-> u, head |-> v, minlen |-> minlen, weight |-> weight, virt |-> NONE]
  OBVIOUS
<1>6. h.fast = Append(g.fast, x)
  BY <1>3, <1>5 DEF Gained
<1>7. PICK f : f = g.fast
  OBVIOUS
<1>8. f \in Seq(Fast(Node)) /\ DOMAIN f = 1 .. Len(f) /\ Len(f) \in Nat
  BY <1>7, ListsIs DEF Good
<1>9. x \in Fast(Node)
  BY <1>2, <1>5 DEF Fast, NONE
<1>10. /\ \A d \in 1 .. Len(f) : d \in DOMAIN Append(f, x) /\ Append(f, x)[d] = f[d]
       /\ Append(f, x)[Len(f) + 1] = x
       /\ \A d \in DOMAIN Append(f, x) : d \in 1 .. Len(f) \/ d = Len(f) + 1
  BY <1>8, <1>9
<1>11. /\ h.fast[e] = x /\ \A d \in DOMAIN f : d \in DOMAIN h.fast /\ h.fast[d] = f[d]
       /\ \A d \in DOMAIN h.fast : d \in DOMAIN f \/ d = e
  BY <1>1, <1>6, <1>7, <1>8, <1>10
<1>12. Extends(g.fast, h.fast) /\ Joins(h.fast, e, u, v) /\ Grown(g.fast, h.fast)
  BY <1>5, <1>7, <1>11 DEF Extends, Joins, Grown
<1>15. e \notin DOMAIN g.fast
  BY <1>1, <1>7, <1>8
<1>13. A \subseteq DOMAIN g.fast
  BY DEF Good, Lists
<1>14. LeadersJoined(h.fast, B)
  BY <1>1, <1>12, <1>13 DEF Good, LeadersJoined, Extends, Joins
<1> QED BY <1>1, <1>4, <1>12, <1>14, <1>15 DEF Good

LEMMA AddLong ==
  ASSUME NEW g, NEW A, Good(g, A), NEW u \in Node, NEW v \in Node, u # v,
         NEW minlen, minlen \in Nat, NEW weight, weight \in Nat,
         NEW h, h = Add(g, u, v, minlen, weight), NEW e, e = Len(g.fast) + 1
  PROVE  h.fast[e].minlen = minlen
<1>1. Gained(g, h, Node, A, u, v, minlen, weight)
  BY AddIs DEF Good
<1>2. PICK x : x = [tail |-> u, head |-> v, minlen |-> minlen, weight |-> weight, virt |-> NONE]
  OBVIOUS
<1>3. h.fast = Append(g.fast, x)
  BY <1>1, <1>2 DEF Gained
<1>4. x \in Fast(Node) /\ x.minlen = minlen
  BY <1>2 DEF Fast, NONE
<1>5. PICK f : f = g.fast
  OBVIOUS
<1>6. f \in Seq(Fast(Node))
  BY <1>5, ListsIs DEF Good
<1>7. Append(f, x)[Len(f) + 1] = x
  BY ONLY <1>4, <1>6, LongerBy
<1> QED BY <1>3, <1>4, <1>5, <1>7

\* Good edges, with e turned round.
GoodTurned(g, h, A, B, e, f) == Good(h, B) /\ Turned(g, h, A, B, e, f)

LEMMA GoodReversed ==
  ASSUME NEW g, NEW A, Good(g, A), NEW e \in A
  PROVE  \E B, f : GoodTurned(g, Reversed(g, e), A, B, e, f)
<1>1. PICK h : h = Reversed(g, e)
  OBVIOUS
<1>2. PICK B, f : Lists(h, Node, B) /\ Simple(h.fast, B) /\ Turned(g, h, A, B, e, f)
  BY <1>1, ReversedIs DEF Good
<1>3. A \subseteq DOMAIN g.fast
  BY DEF Good, Lists
<1>4. /\ B = (A \ {e}) \cup {f} /\ Joins(h.fast, f, g.fast[e].head, g.fast[e].tail)
      /\ Extends(g.fast, h.fast)
  BY <1>2 DEF Turned
<1>5. LeadersJoined(h.fast, B)
  BY <1>3, <1>4 DEF Good, LeadersJoined, Extends, Joins
<1> QED BY <1>1, <1>2, <1>5 DEF Good, GoodTurned

LEMMA LeaderIs ==
  ASSUME Sets, NEW n \in Node
  PROVE  leader[n] \in Leaders /\ leader[n] \in Node
BY DEF Sets, Leaders

\* What class1 does with e.
Placed(e) ==
  LET x == job.edge[e]
      t == leader[x.tail]
      h == leader[x.head]
      rep == Find(G, t, h)
  IN  \/ (~x.constraint \/ t = h) /\ UNCHANGED <<fastgraph, virt>>
      \/ /\ x.constraint /\ t # h /\ rep # NONE
         /\ Set(Merge(G, x.minlen, x.weight, rep))
         /\ virt' = [virt EXCEPT ![e] = rep]
      \/ /\ x.constraint /\ t # h /\ rep = NONE
         /\ Set(Add(G, t, h, x.minlen, x.weight))
         /\ virt' = [virt EXCEPT ![e] = Len(fast) + 1]

LEMMA PlacedIs == ASSUME Class1 PROVE \E e \in Edge : Turn(e) /\ Placed(e)
<1>1. PICK e \in Edge :
        /\ Turn(e)
        /\ IF ~job.edge[e].constraint \/ leader[job.edge[e].tail] = leader[job.edge[e].head]
           THEN UNCHANGED <<fastgraph, virt>>
           ELSE IF Find(G, leader[job.edge[e].tail], leader[job.edge[e].head]) # NONE
           THEN /\ Set(Merge(G, job.edge[e].minlen, job.edge[e].weight,
                             Find(G, leader[job.edge[e].tail], leader[job.edge[e].head])))
                /\ virt' = [virt EXCEPT ![e] = Find(G, leader[job.edge[e].tail], leader[job.edge[e].head])]
           ELSE /\ Set(Add(G, leader[job.edge[e].tail], leader[job.edge[e].head],
                           job.edge[e].minlen, job.edge[e].weight))
                /\ virt' = [virt EXCEPT ![e] = Len(fast) + 1]
  BY DEF Class1
<1>2. Placed(e)
  BY <1>1 DEF Placed
<1> QED BY <1>1, <1>2

LEMMA Class1Shape == ASSUME Shape, Class1 PROVE Shape'
<1>1. /\ JobOk' /\ Node' = Node /\ Edge' = Edge /\ Calls' = Calls /\ job' = job
      /\ leader' = leader
  BY JobSame DEF Shape, Class1, sets
<1>2. Sets'
  BY SetsSame DEF Shape, Class1
<1>3. PICK e \in Edge : Placed(e)
  BY PlacedIs
<1>4. PICK x, t, h : x = job.edge[e] /\ t = leader[x.tail] /\ h = leader[x.head]
  OBVIOUS
<1>5. x.minlen \in Nat /\ x.weight \in Nat /\ t \in Leaders /\ h \in Leaders /\ t \in Node /\ h \in Node
  BY <1>4, EdgeIs, LeaderIs DEF Shape
<1>6. PICK rep : rep = Find(G, t, h)
  OBVIOUS
<1>7. Good(G, AllLive) /\ G.fast = fast
  BY GoodG DEF Shape
<1>8. /\ rep = NONE => NoneJoins(fast, AllLive, t, h)
      /\ rep # NONE => rep \in AllLive
  BY <1>5, <1>6, <1>7, FindIs DEF Good
<1>9. /\ at' \in Nat \ {0} /\ slen' = slen /\ mark' = mark /\ Cmark' = Cmark /\ comp' = comp /\ stack' = stack
      /\ pc' = "class1"
  BY DEF Shape, Class1, marks
<1>10. CASE UNCHANGED <<fastgraph, virt>>
  <2>1. Graph' /\ virt' = virt
    BY <1>1, <1>10, GraphSame DEF Shape
  <2> QED BY <1>1, <1>2, <1>9, <2>1 DEF Shape
<1>11. CASE rep # NONE /\ Set(Merge(G, x.minlen, x.weight, rep)) /\ virt' = [virt EXCEPT ![e] = rep]
  <2>1. Graph'
    BY <1>1, <1>5, <1>7, <1>11, GoodMerge, GoodNext
  <2>2. rep \in Nat
    BY <1>7, <1>8, <1>11, ListsIs DEF Good
  <2>3. virt' \in [Edge -> Nat]
    BY <1>11, <2>2 DEF Shape
  <2> QED BY <1>1, <1>2, <1>9, <2>1, <2>3 DEF Shape
<1>12. CASE /\ t # h /\ rep = NONE /\ Set(Add(G, t, h, x.minlen, x.weight))
            /\ virt' = [virt EXCEPT ![e] = Len(fast) + 1]
  <2>1. Graph'
    BY <1>1, <1>5, <1>7, <1>8, <1>12, GoodAdd, GoodNext
  <2>2. Len(fast) + 1 \in Nat
    BY <1>7, ListsIs DEF Good
  <2>3. virt' \in [Edge -> Nat]
    BY <1>12, <2>2 DEF Shape
  <2> QED BY <1>1, <1>2, <1>9, <2>1, <2>3 DEF Shape
<1> QED BY <1>3, <1>4, <1>6, <1>10, <1>11, <1>12 DEF Placed

LEMMA Class1DoneShape == ASSUME Shape, Class1Done PROVE Shape'
<1>1. /\ JobOk' /\ Node' = Node /\ Edge' = Edge /\ Calls' = Calls /\ job' = job
      /\ leader' = leader
  BY JobSame DEF Shape, Class1Done
<1>2. minset' \in Leaders \cup {NONE} /\ maxset' \in Leaders \cup {NONE}
  BY LeaderIs DEF Shape, Class1Done, Sets
<1>3. Leaders' = Leaders
  BY <1>1 DEF Leaders
<1>4. Sets'
  BY <1>1, <1>2, <1>3 DEF Shape, Sets, Leaders
<1>5. Graph'
  BY <1>1, GraphSame DEF Shape, Class1Done
<1>6. slen' \in [x : Nat, y : Nat]
  <2>1. PICK a \in Nat : a = IF minset # NONE /\ ranktype[leader[minset]] = "source" THEN 1 ELSE 0
    OBVIOUS
  <2>2. PICK b \in Nat : b = IF maxset # NONE /\ ranktype[leader[maxset]] = "sink" THEN 1 ELSE 0
    OBVIOUS
  <2>3. slen' = [x |-> a, y |-> b]
    BY <2>1, <2>2 DEF Class1Done
  <2> QED BY <2>3
<1>7. /\ pc' = "maxset" /\ at' = at /\ virt' = virt /\ mark' = mark /\ Cmark' = Cmark
      /\ comp' = comp /\ stack' = stack
  BY DEF Class1Done, marks
<1> QED BY <1>1, <1>4, <1>5, <1>6, <1>7 DEF Shape

LEMMA ListEdge ==
  ASSUME Graph, NEW n \in Node, NEW i \in 1 .. Len(out[n])
  PROVE  out[n][i] \in AllLive /\ fast[out[n][i]].tail = n
<1>1. Once(out[n], From(fast, AllLive, n))
  BY DEF Graph, Lists, G
<1>2. out[n][i] \in From(fast, AllLive, n)
  BY <1>1, OnceIs
<1> QED BY <1>2 DEF From

LEMMA ListEdgeIn ==
  ASSUME Graph, NEW n \in Node, NEW i \in 1 .. Len(in[n])
  PROVE  in[n][i] \in AllLive /\ fast[in[n][i]].head = n
<1>1. Once(in[n], To(fast, AllLive, n))
  BY DEF Graph, Lists, G
<1>2. in[n][i] \in To(fast, AllLive, n)
  BY <1>1, OnceIs
<1> QED BY <1>2 DEF To

LEMMA ListLen ==
  ASSUME Graph, NEW n \in Node
  PROVE  /\ out[n] \in Seq(Nat) /\ in[n] \in Seq(Nat) /\ Len(out[n]) \in Nat /\ Len(in[n]) \in Nat
         /\ out[n] # <<>> => 1 \in 1 .. Len(out[n])
         /\ in[n] # <<>> => 1 \in 1 .. Len(in[n])
         /\ Len(out[n]) = 0 <=> out[n] = <<>>
         /\ Len(in[n]) = 0 <=> in[n] = <<>>
<1>1. out[n] \in Seq(Nat) /\ in[n] \in Seq(Nat)
  BY DEF Graph, Lists, Once, G
<1> QED BY <1>1

\* The edge that minmax_edges turns round.
Against(e) ==
  /\ e \in AllLive /\ Set(Reversed(G, e))
  /\ \/ pc = "maxset" /\ maxset # NONE /\ fast[e].tail = maxset
     \/ pc = "minset" /\ minset # NONE /\ fast[e].head = minset

LEMMA AgainstIs ==
  ASSUME Shape, MaxsetReverse \/ MinsetReverse
  PROVE  \E e : Against(e)
<1>1. minset \in Node \cup {NONE} /\ maxset \in Node \cup {NONE} /\ Graph
  BY DEF Shape, Sets
<1>2. CASE MaxsetReverse
  <2>1. maxset \in Node
    BY <1>1, <1>2 DEF MaxsetReverse
  <2>2. out[maxset][1] \in AllLive /\ fast[out[maxset][1]].tail = maxset
    BY <1>1, <1>2, <2>1, ListEdge, ListLen DEF MaxsetReverse
  <2> QED BY <1>2, <2>2 DEF MaxsetReverse, Against
<1>3. CASE MinsetReverse
  <2>1. minset \in Node
    BY <1>1, <1>3 DEF MinsetReverse
  <2>2. in[minset][1] \in AllLive /\ fast[in[minset][1]].head = minset
    BY <1>1, <1>3, <2>1, ListEdgeIn, ListLen DEF MinsetReverse
  <2> QED BY <1>3, <2>2 DEF MinsetReverse, Against
<1> QED BY <1>2, <1>3

LEMMA MinmaxReverseShape == ASSUME Shape, MaxsetReverse \/ MinsetReverse PROVE Shape'
<1>1. /\ JobOk' /\ Node' = Node /\ Edge' = Edge /\ Calls' = Calls /\ job' = job
      /\ leader' = leader
  BY JobSame DEF Shape, MaxsetReverse, MinsetReverse, sets
<1>2. Sets'
  BY SetsSame DEF Shape, MaxsetReverse, MinsetReverse
<1>3. PICK e : Against(e)
  BY AgainstIs
<1>4. Good(G, AllLive)
  BY GoodG DEF Shape
<1>5. PICK B, f : GoodTurned(G, Reversed(G, e), AllLive, B, e, f)
  BY <1>3, <1>4, GoodReversed DEF Against
<1>6. Graph'
  BY <1>1, <1>3, <1>5, GoodNext DEF GoodTurned, Against
<1>7. /\ pc' = pc /\ pc \in {"maxset", "minset"} /\ at' = at /\ slen' = slen /\ virt' = virt /\ mark' = mark
      /\ Cmark' = Cmark /\ comp' = comp /\ stack' = stack
  BY DEF MaxsetReverse, MinsetReverse, marks
<1> QED BY <1>1, <1>2, <1>6, <1>7 DEF Shape

LEMMA MaxsetDoneShape == ASSUME Shape, MaxsetDone PROVE Shape'
<1>1. /\ JobOk' /\ Node' = Node /\ Edge' = Edge /\ Calls' = Calls /\ job' = job
      /\ leader' = leader
  BY JobSame DEF Shape, MaxsetDone, sets
<1>2. Sets'
  BY SetsSame DEF Shape, MaxsetDone
<1>3. Graph'
  BY <1>1, GraphSame DEF Shape, MaxsetDone
<1> QED BY <1>1, <1>2, <1>3 DEF Shape, MaxsetDone, marks

LEMMA FirstDecomposeShape == ASSUME Shape, FirstDecompose PROVE Shape'
<1>1. /\ JobOk' /\ Node' = Node /\ Edge' = Edge /\ Calls' = Calls /\ job' = job
      /\ leader' = leader
  BY JobSame DEF Shape, FirstDecompose, sets
<1>2. Sets'
  BY SetsSame DEF Shape, FirstDecompose
<1>3. Graph'
  BY <1>1, GraphSame DEF Shape, FirstDecompose
<1>4. Ready /\ Decompose /\ mark \in [Node -> 0 .. 255]
  BY ShapeReady DEF Shape, FirstDecompose
<1>5. Cmark' = NextMark /\ Divides(mark', comp')
  BY <1>4, DecomposeIs
<1>6. NextMark \in 1 .. 255
  BY NextMarkType DEF Shape
<1>7. Cmark' \in 0 .. 255
  BY <1>5, <1>6
<1>8. mark' \in [Node -> 0 .. 255] /\ comp' \in Seq(Seq(Node))
  BY <1>5 DEF Divides
<1> QED BY <1>1, <1>2, <1>3, <1>7, <1>8 DEF Shape, FirstDecompose

LEMMA SecondDecomposeShape == ASSUME Shape, SecondDecompose PROVE Shape'
<1>1. /\ JobOk' /\ Node' = Node /\ Edge' = Edge /\ Calls' = Calls /\ job' = job
      /\ leader' = leader
  BY JobSame DEF Shape, SecondDecompose, sets
<1>2. Sets'
  BY SetsSame DEF Shape, SecondDecompose
<1>3. Graph'
  BY <1>1, GraphSame DEF Shape, SecondDecompose
<1>4. Ready /\ mark \in [Node -> 0 .. 255] /\ (Decompose \/ UNCHANGED marks)
  BY ShapeReady DEF Shape, SecondDecompose
<1>5. Decompose => Cmark' = NextMark /\ Divides(mark', comp')
  BY <1>4, DecomposeIs
<1>6. NextMark \in 1 .. 255
  BY NextMarkType DEF Shape
<1>7. CASE Decompose
  <2>1. Cmark' \in 0 .. 255
    BY <1>5, <1>6, <1>7
  <2>2. mark' \in [Node -> 0 .. 255] /\ comp' \in Seq(Seq(Node))
    BY <1>5, <1>7 DEF Divides
  <2>3. pc' = "rank" /\ at' = 1 /\ slen' = slen /\ virt' = virt /\ stack' = stack
    BY DEF SecondDecompose
  <2> QED BY <1>1, <1>2, <1>3, <2>1, <2>2, <2>3 DEF Shape
<1>8. CASE UNCHANGED marks
  <2>1. /\ pc' = "rank" /\ at' = 1 /\ slen' = slen /\ virt' = virt /\ stack' = stack
        /\ Cmark' = Cmark /\ mark' = mark /\ comp' = comp
    BY <1>8 DEF SecondDecompose, marks
  <2> QED BY <1>1, <1>2, <1>3, <2>1 DEF Shape
<1> QED BY <1>4, <1>7, <1>8

LEMMA BeginComponentShape == ASSUME Shape, BeginComponent PROVE Shape'
<1>1. /\ JobOk' /\ Node' = Node /\ Edge' = Edge /\ Calls' = Calls /\ job' = job
      /\ leader' = leader
  BY JobSame DEF Shape, BeginComponent, sets
<1>2. Sets'
  BY SetsSame DEF Shape, BeginComponent
<1>3. Graph'
  BY <1>1, GraphSame DEF Shape, BeginComponent
<1>4. mark' \in [Node -> 0 .. 255]
  <2>1. \A n \in Node : mark[n] \in 0 .. 255 /\ 0 \in 0 .. 255
    BY DEF Shape
  <2> QED BY <2>1 DEF BeginComponent
<1>5. at \in DOMAIN comp
  BY DEF Shape, BeginComponent
<1> QED BY <1>1, <1>2, <1>3, <1>4, <1>5 DEF Shape, BeginComponent

LEMMA CallIs ==
  ASSUME Shape, NEW n \in Node, NEW s \in Seq(Calls), Call(n, s)
  PROVE  stack' \in Seq(Calls) /\ mark' \in [Node -> 0 .. 255]
<1>1. [node |-> n, i |-> 1] \in Calls
  BY DEF Calls
<1>2. stack' \in Seq(Calls)
  BY <1>1 DEF Call
<1>3. TRUE_ \in 0 .. 255
  BY DEF TRUE_
<1>4. mark' \in [Node -> 0 .. 255]
  BY <1>3 DEF Call, Shape
<1> QED BY <1>2, <1>4

\* The first node of a component that has no mark.
LEMMA RestIs ==
  ASSUME Shape, pc = "dfs", NEW rest, rest = {i \in DOMAIN comp[at] : mark[comp[at][i]] = 0},
         rest # {}
  PROVE  /\ Min(rest) \in DOMAIN comp[at] /\ mark[comp[at][Min(rest)]] = 0
         /\ comp[at][Min(rest)] \in Node /\ comp[at][Min(rest)] \in Range(comp[at])
<1>1. PICK C : C = comp[at]
  OBVIOUS
<1>2. C \in Seq(Node)
  BY <1>1, MemberIs DEF Shape
<1>3. DOMAIN C \subseteq Nat /\ \A i \in DOMAIN C : C[i] \in Node
  BY <1>2
<1>4. rest \in SUBSET Nat
  BY <1>1, <1>3
<1>5. Min(rest) \in rest
  BY <1>4, LeastIs
<1> QED BY <1>1, <1>3, <1>5 DEF Range

LEMMA DfsRootShape == ASSUME Shape, DfsRoot PROVE Shape'
<1>1. /\ JobOk' /\ Node' = Node /\ Edge' = Edge /\ Calls' = Calls /\ job' = job
      /\ leader' = leader
  BY JobSame DEF Shape, DfsRoot, sets
<1>2. Sets'
  BY SetsSame DEF Shape, DfsRoot
<1>3. Graph'
  BY <1>1, GraphSame DEF Shape, DfsRoot
<1>4. PICK rest : rest = {i \in DOMAIN comp[at] : mark[comp[at][i]] = 0}
  OBVIOUS
<1>5. CASE rest = {}
  <2>1. pc' = "acyclic" /\ at' = at + 1 /\ stack' = stack /\ mark' = mark
    BY <1>4, <1>5 DEF DfsRoot
  <2> QED BY <1>1, <1>2, <1>3, <2>1 DEF Shape, DfsRoot
<1>6. CASE rest # {}
  <2>1. Call(comp[at][Min(rest)], <<>>) /\ pc' = pc /\ at' = at /\ pc = "dfs"
    BY <1>4, <1>6 DEF DfsRoot
  <2>2. PICK n \in Node : n = comp[at][Min(rest)]
    BY <1>4, <1>6, <2>1, RestIs
  <2>3. Call(n, <<>>) /\ <<>> \in Seq(Calls)
    BY <2>1, <2>2
  <2>4. stack' \in Seq(Calls) /\ mark' \in [Node -> 0 .. 255]
    BY <2>3, CallIs
  <2> QED BY <1>1, <1>2, <1>3, <2>1, <2>4 DEF Shape, DfsRoot
<1> QED BY <1>5, <1>6

\* The call on top.
LEMMA TopIs ==
  ASSUME stack \in Seq(Calls), stack # <<>>
  PROVE  /\ Len(stack) \in Nat \ {0} /\ Len(stack) \in DOMAIN stack /\ DOMAIN stack = 1 .. Len(stack)
         /\ Last(stack) = stack[Len(stack)]
         /\ Last(stack) \in Calls /\ Last(stack).node \in Node /\ Last(stack).i \in Nat \ {0}
         /\ \A k \in DOMAIN stack : stack[k].node \in Node /\ stack[k].i \in Nat \ {0}
<1>1. PICK S : S = Calls
  OBVIOUS
<1>2. stack \in Seq(S)
  BY <1>1
<1>3. /\ Len(stack) \in Nat \ {0} /\ DOMAIN stack = 1 .. Len(stack)
      /\ \A k \in DOMAIN stack : stack[k] \in S
  BY <1>2
<1>4. \A k \in DOMAIN stack : stack[k].node \in Node /\ stack[k].i \in Nat \ {0}
  BY <1>1, <1>3 DEF Calls
<1> QED BY <1>1, <1>3, <1>4 DEF Last

LEMMA StepIs ==
  ASSUME stack \in Seq(Calls), stack # <<>>, NEW i \in Nat \ {0}
  PROVE  /\ Step(i) \in Seq(Calls) /\ Len(Step(i)) = Len(stack) /\ DOMAIN Step(i) = DOMAIN stack
         /\ \A k \in DOMAIN stack : k # Len(stack) => Step(i)[k] = stack[k]
         /\ Step(i)[Len(stack)].node = Last(stack).node /\ Step(i)[Len(stack)].i = i
<1>1. PICK x, y : x = Last(stack) /\ y = [x EXCEPT !.i = i]
  OBVIOUS
<1>2. x \in Calls /\ y \in Calls /\ y.node = x.node /\ y.i = i
  BY <1>1, TopIs DEF Calls
<1>3. PICK s : s = Step(i)
  OBVIOUS
<1>4. s = [stack EXCEPT ![Len(stack)] = y]
  BY <1>1, <1>3 DEF Step, ReplaceAt
<1>5. PICK S : S = Calls
  OBVIOUS
<1>6. Len(stack) \in DOMAIN stack /\ DOMAIN stack = 1 .. Len(stack) /\ Len(stack) \in Nat
  BY TopIs
<1>7. stack \in Seq(S) /\ y \in S
  BY <1>2, <1>5
<1>8. s \in Seq(S) /\ Len(s) = Len(stack) /\ DOMAIN s = DOMAIN stack
  BY <1>4, <1>6, <1>7
<1>9. /\ \A k \in DOMAIN stack : k # Len(stack) => s[k] = stack[k]
      /\ s[Len(stack)] = y
  BY <1>4, <1>6
<1> QED BY <1>1, <1>2, <1>3, <1>5, <1>8, <1>9

\* What dfs does with the next edge, e, from the node on top, to w.
Followed(e, w, i) ==
  \/ /\ w \in onstack
     /\ Set(Reversed(G, e)) /\ stack' = Step(i) /\ mark' = mark
  \/ /\ w \notin onstack /\ mark[w] = 0
     /\ UNCHANGED fastgraph /\ Call(w, Step(i + 1))
  \/ /\ w \notin onstack /\ mark[w] # 0
     /\ UNCHANGED fastgraph /\ stack' = Step(i + 1) /\ mark' = mark

LEMMA FollowedIs ==
  ASSUME Shape, DfsEdge
  PROVE  \E e \in AllLive, w \in Leaders, i \in Nat \ {0} :
           /\ i = Last(stack).i /\ i \in 1 .. Len(out[Last(stack).node])
           /\ e = out[Last(stack).node][i]
           /\ Joins(fast, e, Last(stack).node, w) /\ Last(stack).node \in Leaders
           /\ Followed(e, w, i)
<1>1. PICK n, i, e, w : n = Last(stack).node /\ i = Last(stack).i /\ e = out[n][i] /\ w = fast[e].head
  OBVIOUS
<1>2. n \in Node /\ i \in Nat \ {0} /\ i <= Len(out[n])
  BY <1>1, TopIs DEF Shape, DfsEdge
<1>3. i \in 1 .. Len(out[n])
  BY <1>2, ListLen DEF Shape
<1>4. e \in AllLive /\ fast[e].tail = n
  BY <1>1, <1>2, <1>3, ListEdge DEF Shape
<1>5. w \in Leaders /\ n \in Leaders
  BY <1>1, <1>4 DEF Shape, Graph, LeadersJoined
<1>6. Followed(e, w, i)
  BY <1>1 DEF DfsEdge, Followed, AfterReversal
<1> QED BY <1>1, <1>2, <1>3, <1>4, <1>5, <1>6 DEF Joins

LEMMA DfsEdgeShape == ASSUME Shape, DfsEdge PROVE Shape'
<1>1. /\ JobOk' /\ Node' = Node /\ Edge' = Edge /\ Calls' = Calls /\ job' = job
      /\ leader' = leader /\ pc' = pc /\ at' = at /\ slen' = slen /\ virt' = virt
      /\ Cmark' = Cmark /\ comp' = comp /\ pc = "dfs" /\ stack # <<>> /\ stack \in Seq(Calls)
  BY JobSame DEF Shape, DfsEdge, sets
<1>2. Sets'
  BY SetsSame DEF Shape, DfsEdge
<1>3. PICK e \in AllLive, w \in Leaders, i \in Nat \ {0} : Followed(e, w, i)
  BY FollowedIs
<1>4. w \in Node
  BY DEF Leaders
<1>5. i + 1 \in Nat \ {0}
  OBVIOUS
<1>6. CASE Set(Reversed(G, e)) /\ stack' = Step(i) /\ mark' = mark
  <2>1. PICK B, f : GoodTurned(G, Reversed(G, e), AllLive, B, e, f)
    BY GoodG, GoodReversed DEF Shape
  <2>2. Graph'
    BY <1>1, <1>6, <2>1, GoodNext DEF GoodTurned
  <2>3. stack' \in Seq(Calls)
    BY <1>1, <1>6, StepIs
  <2> QED BY <1>1, <1>2, <1>6, <2>2, <2>3 DEF Shape
<1>7. CASE UNCHANGED fastgraph /\ Call(w, Step(i + 1))
  <2>1. Graph'
    BY <1>1, <1>7, GraphSame DEF Shape
  <2>2. stack' \in Seq(Calls) /\ mark' \in [Node -> 0 .. 255]
    BY <1>1, <1>4, <1>5, <1>7, StepIs, CallIs
  <2> QED BY <1>1, <1>2, <2>1, <2>2 DEF Shape
<1>8. CASE UNCHANGED fastgraph /\ stack' = Step(i + 1) /\ mark' = mark
  <2>1. Graph'
    BY <1>1, <1>8, GraphSame DEF Shape
  <2>2. stack' \in Seq(Calls)
    BY <1>1, <1>5, <1>8, StepIs
  <2> QED BY <1>1, <1>2, <1>8, <2>1, <2>2 DEF Shape
<1> QED BY <1>3, <1>6, <1>7, <1>8 DEF Followed

LEMMA FrontIs ==
  ASSUME stack \in Seq(Calls), stack # <<>>
  PROVE  /\ Front(stack) \in Seq(Calls) /\ Len(Front(stack)) = Len(stack) - 1
         /\ DOMAIN Front(stack) = 1 .. Len(stack) - 1
         /\ \A k \in DOMAIN Front(stack) : Front(stack)[k] = stack[k]
<1>1. PICK S : S = Calls
  OBVIOUS
<1>2. stack \in Seq(S) /\ Len(stack) \in Nat \ {0}
  BY <1>1, TopIs
<1>3. PICK n \in Nat : n = Len(stack) - 1
  BY <1>2
<1>4. PICK t : t = Front(stack)
  OBVIOUS
<1>5. t = SubSeq(stack, 1, n)
  BY <1>3, <1>4 DEF Front
<1>6. \A k \in 1 .. n : stack[k] \in S
  BY <1>2, <1>3
<1>7. t \in Seq(S) /\ Len(t) = n /\ \A k \in 1 .. n : t[k] = stack[k]
  <2>1. /\ t \in Seq(S) /\ Len(t) = IF 1 <= n THEN n - 1 + 1 ELSE 0
        /\ \A k \in 1 .. n - 1 + 1 : t[k] = stack[1 + k - 1]
    BY <1>5, <1>6, SubSeqProperties
  <2> QED BY <2>1
<1>8. DOMAIN t = 1 .. n
  BY <1>7
<1> QED BY <1>1, <1>3, <1>4, <1>7, <1>8

LEMMA DfsReturnShape == ASSUME Shape, DfsReturn PROVE Shape'
<1>1. /\ JobOk' /\ Node' = Node /\ Edge' = Edge /\ Calls' = Calls /\ job' = job
      /\ leader' = leader
  BY JobSame DEF Shape, DfsReturn, sets
<1>2. Sets'
  BY SetsSame DEF Shape, DfsReturn
<1>3. Graph'
  BY <1>1, GraphSame DEF Shape, DfsReturn
<1>4. stack' \in Seq(Calls)
  BY FrontIs DEF Shape, DfsReturn
<1> QED BY <1>1, <1>2, <1>3, <1>4 DEF Shape, DfsReturn, marks

LEMMA AcyclicDoneShape == ASSUME Shape, AcyclicDone PROVE Shape'
<1>1. /\ JobOk' /\ Node' = Node /\ Edge' = Edge /\ Calls' = Calls /\ job' = job
      /\ leader' = leader
  BY JobSame DEF Shape, AcyclicDone, sets
<1>2. Sets'
  BY SetsSame DEF Shape, AcyclicDone
<1>3. Graph'
  BY <1>1, GraphSame DEF Shape, AcyclicDone
<1>4. /\ pc' = "minmax2" /\ at' = 1 /\ slen' = slen /\ virt' = virt /\ stack' = stack
      /\ Cmark' = Cmark /\ mark' = mark /\ comp' = comp
  BY DEF AcyclicDone, marks
<1> QED BY <1>1, <1>2, <1>3, <1>4 DEF Shape

LEMMA RankComponentShape == ASSUME Shape, RankComponent PROVE Shape'
<1>1. /\ JobOk' /\ Node' = Node /\ Edge' = Edge /\ Calls' = Calls /\ job' = job
      /\ leader' = leader
  BY JobSame DEF Shape, RankComponent, sets
<1>2. /\ at' \in {at, at + 1} /\ pc' \in {pc, "trouble"} /\ pc = "rank" /\ slen' = slen
      /\ virt' = virt /\ mark' = mark /\ Cmark' = Cmark /\ comp' = comp /\ stack' = stack
      /\ UNCHANGED sets /\ UNCHANGED fastgraph
  BY DEF RankComponent, marks
<1>3. Sets'
  BY <1>1, <1>2, SetsSame DEF Shape
<1>4. Graph'
  BY <1>1, <1>2, GraphSame DEF Shape
<1> QED BY <1>1, <1>2, <1>3, <1>4 DEF Shape

LEMMA ExpandShape == ASSUME Shape, Expand PROVE Shape'
<1>1. /\ JobOk' /\ Node' = Node /\ Edge' = Edge /\ Calls' = Calls /\ job' = job
      /\ leader' = leader
  BY JobSame DEF Shape, Expand, sets
<1>2. Sets'
  BY SetsSame DEF Shape, Expand
<1>3. Graph'
  BY <1>1, GraphSame DEF Shape, Expand
<1> QED BY <1>1, <1>2, <1>3 DEF Shape, Expand, marks

LEMMA StutterShape == ASSUME Shape, UNCHANGED vars PROVE Shape'
<1>1. /\ JobOk' /\ Node' = Node /\ Edge' = Edge /\ Calls' = Calls /\ job' = job
      /\ leader' = leader
  BY JobSame DEF Shape, vars
<1>2. Sets'
  BY SetsSame DEF Shape, vars, sets
<1>3. Graph'
  BY <1>1, GraphSame DEF Shape, vars, fastgraph
<1> QED BY <1>1, <1>2, <1>3 DEF Shape, vars

-----------------------------------------------------------------------------
\* What Tied does for n.
TiedSo(g, h, A, B, n) ==
  /\ Good(h, B) /\ A \subseteq B /\ Grown(g.fast, h.fast)
  /\ \A e \in B \ A :
       /\ e \notin DOMAIN g.fast
       /\ \/ Joins(h.fast, e, n, maxset) /\ maxset # NONE /\ From(g.fast, A, n) = {}
          \/ Joins(h.fast, e, minset, n) /\ minset # NONE /\ To(g.fast, A, n) = {}
  /\ n # maxset /\ maxset # NONE => \E e \in B : h.fast[e].tail = n
  /\ n # minset /\ minset # NONE => \E e \in B : h.fast[e].head = n

LEMMA EmptyList ==
  ASSUME NEW g, NEW A, Good(g, A), NEW n \in Node
  PROVE  /\ g.out[n] = <<>> <=> From(g.fast, A, n) = {}
         /\ g.in[n] = <<>> <=> To(g.fast, A, n) = {}
<1>1. Once(g.out[n], From(g.fast, A, n)) /\ Once(g.in[n], To(g.fast, A, n))
  BY DEF Good, Lists
<1>2. ASSUME NEW L, NEW S, Once(L, S) PROVE L = <<>> <=> S = {}
  <2>1. L \in Seq(Nat) /\ Len(L) \in Nat /\ DOMAIN L = 1 .. Len(L)
    BY <1>2, OnceIs
  <2>2. L = <<>> => S = {}
    BY <1>2, <2>1, OnceIs
  <2>3. L # <<>> => L[1] \in S
    <3>1. L # <<>> => 1 \in 1 .. Len(L)
      BY <2>1
    <3> QED BY <1>2, <3>1, OnceIs
  <2> QED BY <2>2, <2>3
<1> QED BY <1>1, <1>2

LEMMA GrownOn ==
  ASSUME NEW f, NEW h, NEW k, Grown(f, h), Grown(h, k)
  PROVE  Grown(f, k)
BY DEF Grown

LEMMA TiedIs ==
  ASSUME NEW g, NEW A, Good(g, A), NEW n \in Leaders,
         minset \in Leaders \cup {NONE}, maxset \in Leaders \cup {NONE},
         slen \in [x : Nat, y : Nat]
  PROVE  \E B : TiedSo(g, Tied(g, n), A, B, n)
<1>1. PICK a : a = IF g.out[n] = <<>> /\ maxset # NONE /\ n # maxset
                   THEN Add(g, n, maxset, slen.y, 1) ELSE g
  OBVIOUS
<1>2. PICK h : h = IF a.in[n] = <<>> /\ minset # NONE /\ n # minset
                   THEN Add(a, minset, n, slen.x, 1) ELSE a
  OBVIOUS
<1>3. h = Tied(g, n)
  BY <1>1, <1>2 DEF Tied
<1>4. n \in Node /\ slen.x \in Nat /\ slen.y \in Nat /\ 1 \in Nat
  BY DEF Leaders
<1>5. PICK C : /\ Good(a, C) /\ A \subseteq C /\ Grown(g.fast, a.fast)
               /\ \A e \in C \ A : /\ e \notin DOMAIN g.fast
                                   /\ Joins(a.fast, e, n, maxset) /\ maxset # NONE /\ maxset # n
                                   /\ From(g.fast, A, n) = {}
               /\ n # maxset /\ maxset # NONE => \E e \in C : a.fast[e].tail = n
  <2>1. CASE g.out[n] = <<>> /\ maxset # NONE /\ n # maxset
    <3>1. a = Add(g, n, maxset, slen.y, 1) /\ maxset \in Leaders
      BY <1>1, <2>1
    <3>2. From(g.fast, A, n) = {}
      BY <1>4, <2>1, EmptyList
    <3>3. NoneJoins(g.fast, A, n, maxset)
      BY <3>2 DEF NoneJoins, Joins, From
    <3>4. PICK c, C : c = Len(g.fast) + 1 /\ C = A \cup {c}
      OBVIOUS
    <3>5. Good(a, C) /\ Grown(g.fast, a.fast) /\ c \notin DOMAIN g.fast /\ Joins(a.fast, c, n, maxset)
      BY <1>4, <2>1, <3>1, <3>3, <3>4, GoodAdd
    <3>6. A \subseteq C /\ c \in C /\ C \ A \subseteq {c}
      BY <3>4
    <3> QED BY <2>1, <3>2, <3>5, <3>6 DEF Joins
  <2>2. CASE ~(g.out[n] = <<>> /\ maxset # NONE /\ n # maxset)
    <3>1. a = g
      BY <1>1, <2>2
    <3>2. Grown(g.fast, g.fast)
      BY DEF Grown
    <3>3. n # maxset /\ maxset # NONE => \E e \in A : g.fast[e].tail = n
      BY <1>4, <2>2, EmptyList DEF From
    <3> QED BY <3>1, <3>2, <3>3
  <2> QED BY <2>1, <2>2
<1>6. A \subseteq DOMAIN g.fast /\ C \subseteq DOMAIN a.fast
  BY <1>5 DEF Good, Lists
<1>7. \A e \in A : a.fast[e] = g.fast[e]
  BY <1>5, <1>6 DEF Grown
<1>8. CASE a.in[n] = <<>> /\ minset # NONE /\ n # minset
  <2>1. h = Add(a, minset, n, slen.x, 1) /\ minset \in Leaders
    BY <1>2, <1>8
  <2>2. To(a.fast, C, n) = {}
    BY <1>4, <1>5, <1>8, EmptyList
  <2>3. NoneJoins(a.fast, C, minset, n)
    BY <2>2 DEF NoneJoins, Joins, To
  <2>4. PICK c, B : c = Len(a.fast) + 1 /\ B = C \cup {c}
    OBVIOUS
  <2>5. Good(h, B) /\ Grown(a.fast, h.fast) /\ c \notin DOMAIN a.fast /\ Joins(h.fast, c, minset, n)
    BY <1>4, <1>5, <1>8, <2>1, <2>3, <2>4, GoodAdd
  <2>6. Grown(g.fast, h.fast)
    BY <1>5, <2>5, GrownOn
  <2>7. To(g.fast, A, n) = {}
    BY <1>5, <1>7, <2>2 DEF To
  <2>8. c \notin DOMAIN g.fast
    BY <1>5, <2>5 DEF Grown
  <2>9. \A e \in C : h.fast[e] = a.fast[e]
    BY <1>6, <2>5 DEF Grown
  <2>10. \A e \in B \ A : e \in C \ A \/ e = c
    BY <2>4
  <2>11. \A e \in B \ A :
           /\ e \notin DOMAIN g.fast
           /\ \/ Joins(h.fast, e, n, maxset) /\ maxset # NONE /\ From(g.fast, A, n) = {}
              \/ Joins(h.fast, e, minset, n) /\ minset # NONE /\ To(g.fast, A, n) = {}
    BY <1>5, <1>8, <2>5, <2>7, <2>8, <2>9, <2>10 DEF Joins
  <2>12. n # maxset /\ maxset # NONE => \E e \in B : h.fast[e].tail = n
    BY <1>5, <2>4, <2>9
  <2>13. \E e \in B : h.fast[e].head = n
    BY <2>4, <2>5 DEF Joins
  <2>14. A \subseteq B
    BY <1>5, <2>4
  <2> QED BY <1>3, <2>5, <2>6, <2>11, <2>12, <2>13, <2>14 DEF TiedSo
<1>9. CASE ~(a.in[n] = <<>> /\ minset # NONE /\ n # minset)
  <2>1. h = a
    BY <1>2, <1>9
  <2>2. n # minset /\ minset # NONE => \E e \in C : a.fast[e].head = n
    BY <1>4, <1>5, <1>9, EmptyList DEF To
  <2> QED BY <1>3, <1>5, <2>1, <2>2 DEF TiedSo
<1> QED BY <1>8, <1>9

\* What minmax_edges2 does at its next node.
Minmax2So(h, B) ==
  \/ at \in Leaders /\ Set(h) /\ TiedSo(G, h, AllLive, B, at)
  \/ at \notin Leaders /\ UNCHANGED fastgraph /\ B = AllLive

LEMMA Minmax2Is == ASSUME Shape, Minmax2 PROVE \E h, B : Minmax2So(h, B)
<1>1. at \in Node
  BY DEF Shape, JobOk, Minmax2, Node
<1>2. CASE at \in Leaders
  <2>1. Set(Tied(G, at))
    BY <1>2 DEF Minmax2, Leaders
  <2>2. minset \in Leaders \cup {NONE} /\ maxset \in Leaders \cup {NONE}
    BY DEF Shape, Sets, Minmax2
  <2>3. PICK B : TiedSo(G, Tied(G, at), AllLive, B, at)
    BY <1>2, <2>2, GoodG, TiedIs DEF Shape
  <2> QED BY <1>2, <2>1, <2>3 DEF Minmax2So
<1>3. CASE at \notin Leaders
  BY <1>1, <1>3 DEF Minmax2, Leaders, Minmax2So
<1> QED BY <1>2, <1>3

LEMMA Minmax2Shape == ASSUME Shape, Minmax2 PROVE Shape'
<1>1. /\ JobOk' /\ Node' = Node /\ Edge' = Edge /\ Calls' = Calls /\ job' = job
      /\ leader' = leader
  BY JobSame DEF Shape, Minmax2, sets
<1>2. Sets'
  BY SetsSame DEF Shape, Minmax2
<1>3. PICK h, B : Minmax2So(h, B)
  BY Minmax2Is
<1>4. Graph'
  <2>1. CASE Set(h) /\ TiedSo(G, h, AllLive, B, at)
    BY <1>1, <2>1, GoodNext DEF TiedSo
  <2>2. CASE UNCHANGED fastgraph
    BY <1>1, <2>2, GraphSame DEF Shape
  <2> QED BY <1>3, <2>1, <2>2 DEF Minmax2So
<1>5. /\ at' = at + 1 /\ pc' = pc /\ pc = "minmax2" /\ slen' = slen /\ virt' = virt /\ mark' = mark
      /\ Cmark' = Cmark /\ comp' = comp /\ stack' = stack
  BY DEF Minmax2, marks
<1> QED BY <1>1, <1>2, <1>4, <1>5 DEF Shape

LEMMA ShapeNext == ASSUME Shape, [Next]_vars PROVE Shape'
BY CollapseRanksetShape, CollapseDoneShape, Class1Shape, Class1DoneShape, MinmaxReverseShape, MaxsetDoneShape,
   FirstDecomposeShape, BeginComponentShape, DfsRootShape, DfsEdgeShape, DfsReturnShape,
   AcyclicDoneShape, Minmax2Shape, SecondDecomposeShape, RankComponentShape, ExpandShape,
   StutterShape
   DEF Next

LEMMA ShapeSound == ASSUME Shape PROVE FastGraphSound
<1>1. Graph
  BY DEF Shape
<1>2. ASSUME NEW n \in Node
      PROVE  /\ IsInjective(out[n]) /\ Range(out[n]) = From(fast, AllLive, n)
             /\ IsInjective(in[n]) /\ Range(in[n]) = To(fast, AllLive, n)
  BY <1>1 DEF Graph, Lists, Once, G
<1>3. \A e \in AllLive : fast[e].tail \in Node /\ fast[e].head \in Node
  BY <1>1, ListsIs DEF Graph, G
<1>4. ASSUME NEW n \in Node, NEW e \in Range(out[n])
      PROVE  fast[e].tail = n /\ e \in Range(in[fast[e].head])
  <2>1. e \in AllLive /\ fast[e].tail = n
    BY <1>2, <1>4 DEF From
  <2> QED BY <1>2, <1>3, <2>1 DEF To
<1>5. ASSUME NEW n \in Node, NEW e \in Range(in[n])
      PROVE  fast[e].head = n /\ e \in Range(out[fast[e].tail])
  <2>1. e \in AllLive /\ fast[e].head = n
    BY <1>2, <1>5 DEF To
  <2> QED BY <1>2, <1>3, <2>1 DEF From
<1> QED BY <1>1, <1>2, <1>4, <1>5 DEF FastGraphSound, Graph, Simple

\* However edges are merged, reversed and moved into the place of others, the lists of
\* a node and of its neighbours agree, and there is one edge from a node to another
\* (fastgr.c, reverse_edge).
THEOREM ListsAgree == Spec => []FastGraphSound
<1>1. Init => Shape
  BY ShapeInit
<1>2. Shape /\ [Next]_vars => Shape'
  BY ShapeNext
<1>3. Shape => FastGraphSound
  BY ShapeSound
<1> QED BY <1>1, <1>2, <1>3, PTL DEF Spec

-----------------------------------------------------------------------------
(* The components, and the marks that find them.                           *)

Inside(e) == \E c \in DOMAIN comp : fast[e].tail \in Range(comp[c]) /\ fast[e].head \in Range(comp[c])

\* D has the edges that stand for an edge of the graph, and those that stand for them.
Grounded(D) ==
  /\ D \subseteq DOMAIN fast
  /\ \A d \in Edge : virt[d] \in D \cup {NONE}
  /\ \A e \in D : fast[e].virt \in D \cup {NONE}

\* No node has the mark that the next search makes.
MarksOk ==
  /\ pc \in {"collapse", "class1", "maxset", "minset"} => Cmark # 254 /\ \A x \in Node : mark[x] = 0
  /\ pc \in {"acyclic", "dfs", "minmax2"} => Cmark # 255 /\ Cmark # 0
  /\ pc = "acyclic" => \A x \in Node : \/ mark[x] \in {0, 1}
                                       \/ \E c \in DOMAIN comp : c >= at /\ x \in Range(comp[c])
  /\ pc = "dfs" => \A x \in Node : \/ mark[x] \in {0, 1}
                                   \/ \E c \in DOMAIN comp : c > at /\ x \in Range(comp[c])
  /\ pc = "minmax2" => \A x \in Node : mark[x] \in {0, 1}

Parted == InOne(comp, Leaders) /\ \A e \in AllLive : Inside(e)

\* Edges that are not in D have been made since.
PartedBut(D) == InOne(comp, Leaders) /\ Grounded(D) /\ \A e \in AllLive \cap D : Inside(e)

Apart ==
  /\ Grounded(DOMAIN fast)
  /\ MarksOk
  /\ pc \in {"acyclic", "dfs", "rank", "trouble", "done"} => Parted
  /\ pc = "minmax2" => \E D : PartedBut(D)

LEMMA WholeInside ==
  Graph /\ InOne(comp, Leaders) /\ Whole(comp) => \A e \in AllLive : Inside(e)
<1> SUFFICES ASSUME Graph, InOne(comp, Leaders), Whole(comp), NEW e \in AllLive
             PROVE  Inside(e)
  OBVIOUS
<1>1. fast[e].tail \in Leaders /\ fast[e].head \in Leaders /\ fast[e].head \in Node
  BY DEF Graph, LeadersJoined, Leaders
<1>2. PICK c \in DOMAIN comp : fast[e].tail \in Range(comp[c])
  BY <1>1 DEF InOne
<1>3. fast[e].head \in Near(fast[e].tail)
  BY <1>1 DEF Near, Joins
<1>4. Near(fast[e].tail) \subseteq Range(comp[c])
  BY <1>2 DEF Whole
<1> QED BY <1>2, <1>3, <1>4 DEF Inside

LEMMA ApartInit ==
  ASSUME 254 \notin Marks, Init
  PROVE  Apart
<1>1. Shape
  BY ShapeInit
<1>2. pc = "collapse" /\ fast = <<>> /\ virt = [e \in Edge |-> NONE] /\ mark = [n \in Node |-> 0]
      /\ Cmark \in Marks
  BY DEF Init, Edge, Node
<1>3. Grounded(DOMAIN fast)
  BY <1>2 DEF Grounded
<1>4. MarksOk
  BY <1>2 DEF MarksOk
<1> QED BY <1>2, <1>3, <1>4 DEF Apart

LEMMA GroundedOn ==
  ASSUME Grounded(DOMAIN fast), job' = job, VirtKept(fast, fast'),
         \A d \in Edge : virt'[d] = virt[d] \/ virt'[d] \in DOMAIN fast' \cup {NONE}
  PROVE  Grounded(DOMAIN fast)'
BY DEF Grounded, VirtKept, Edge

LEMMA GroundedSame ==
  ASSUME NEW D, Grounded(D), job' = job, fast' = fast, virt' = virt
  PROVE  Grounded(D)'
BY DEF Grounded, Edge

\* What happens before the graph is divided.
LEMMA CollapseApart ==
  ASSUME Shape, Apart, CollapseRankset \/ CollapseDone \/ Class1Done \/ MaxsetDone
  PROVE  Apart'
<1>1. /\ job' = job /\ fast' = fast /\ virt' = virt /\ mark' = mark /\ Cmark' = Cmark
      /\ pc \in {"collapse", "class1", "maxset"} /\ pc' \in {"collapse", "class1", "maxset", "minset"}
  <2>1. CASE CollapseRankset
    BY <2>1 DEF CollapseRankset, fastgraph, marks
  <2>2. CASE CollapseDone \/ Class1Done \/ MaxsetDone
    BY <2>2 DEF CollapseDone, Class1Done, MaxsetDone, fastgraph, marks
  <2> QED BY <2>1, <2>2
<1>2. Node' = Node
  BY <1>1 DEF Node
<1>3. Grounded(DOMAIN fast)'
  BY <1>1, GroundedSame DEF Apart
<1>4. MarksOk'
  BY <1>1, <1>2 DEF Apart, MarksOk
<1> QED BY <1>1, <1>3, <1>4 DEF Apart

LEMMA GrownKept == ASSUME NEW f, NEW h, Grown(f, h) PROVE VirtKept(f, h)
BY DEF Grown, VirtKept

LEMMA Class1Apart ==
  ASSUME Shape, Apart, Class1
  PROVE  Apart'
<1>1. job' = job /\ mark' = mark /\ Cmark' = Cmark /\ pc = "class1" /\ pc' = pc
  BY DEF Class1, marks
<1>2. PICK e \in Edge : Placed(e)
  BY PlacedIs
<1>3. PICK x, t, h : x = job.edge[e] /\ t = leader[x.tail] /\ h = leader[x.head]
  OBVIOUS
<1>4. x.minlen \in Nat /\ x.weight \in Nat /\ t \in Leaders /\ h \in Leaders /\ t \in Node /\ h \in Node
  BY <1>3, EdgeIs, LeaderIs DEF Shape
<1>5. PICK rep : rep = Find(G, t, h)
  OBVIOUS
<1>6. Good(G, AllLive) /\ G.fast = fast /\ AllLive \subseteq DOMAIN fast
  BY GoodG DEF Shape, Good, Lists
<1>7. /\ rep = NONE => NoneJoins(fast, AllLive, t, h)
      /\ rep # NONE => rep \in DOMAIN fast
  BY <1>4, <1>5, <1>6, FindIs DEF Good
<1>8. Grounded(DOMAIN fast)'
  <2>1. CASE UNCHANGED <<fastgraph, virt>>
    BY <1>1, <2>1, GroundedSame DEF Apart, fastgraph
  <2>2. CASE rep # NONE /\ Set(Merge(G, x.minlen, x.weight, rep)) /\ virt' = [virt EXCEPT ![e] = rep]
    <3>1. VirtKept(fast, fast')
      BY <1>4, <1>6, <2>2, GoodMerge DEF Set
    <3>2. rep \in DOMAIN fast'
      BY <1>7, <2>2, <3>1 DEF VirtKept
    <3>3. \A d \in Edge : virt'[d] = virt[d] \/ virt'[d] \in DOMAIN fast' \cup {NONE}
      BY <2>2, <3>2 DEF Shape
    <3> QED BY <1>1, <3>1, <3>3, GroundedOn DEF Apart
  <2>3. CASE /\ t # h /\ rep = NONE /\ Set(Add(G, t, h, x.minlen, x.weight))
             /\ virt' = [virt EXCEPT ![e] = Len(fast) + 1]
    <3>1. /\ Good(Add(G, t, h, x.minlen, x.weight), AllLive \cup {Len(fast) + 1})
          /\ Grown(fast, Add(G, t, h, x.minlen, x.weight).fast)
      BY <1>4, <1>6, <1>7, <2>3, GoodAdd
    <3>2. VirtKept(fast, fast') /\ Len(fast) + 1 \in DOMAIN fast'
      BY <2>3, <3>1, GrownKept DEF Set, Good, Lists
    <3>3. \A d \in Edge : virt'[d] = virt[d] \/ virt'[d] \in DOMAIN fast' \cup {NONE}
      BY <2>3, <3>2 DEF Shape
    <3> QED BY <1>1, <3>2, <3>3, GroundedOn DEF Apart
  <2> QED BY <1>2, <1>3, <1>5, <2>1, <2>2, <2>3 DEF Placed
<1>9. MarksOk'
  BY <1>1 DEF Apart, MarksOk, Node
<1> QED BY <1>1, <1>8, <1>9 DEF Apart

LEMMA MinmaxReverseApart ==
  ASSUME Shape, Apart, MaxsetReverse \/ MinsetReverse
  PROVE  Apart'
<1>1. /\ job' = job /\ mark' = mark /\ Cmark' = Cmark /\ virt' = virt /\ pc' = pc
      /\ pc \in {"maxset", "minset"}
  BY DEF MaxsetReverse, MinsetReverse, marks
<1>2. PICK e : Against(e)
  BY AgainstIs
<1>3. Good(G, AllLive) /\ G.fast = fast
  BY GoodG DEF Shape
<1>4. PICK B, f : GoodTurned(G, Reversed(G, e), AllLive, B, e, f)
  BY <1>2, <1>3, GoodReversed DEF Against
<1>5. VirtKept(fast, fast')
  BY <1>2, <1>3, <1>4 DEF GoodTurned, Turned, Against, Set
<1>6. Grounded(DOMAIN fast)'
  BY <1>1, <1>5, GroundedOn DEF Apart
<1>7. MarksOk'
  BY <1>1 DEF Apart, MarksOk, Node
<1> QED BY <1>1, <1>6, <1>7 DEF Apart

LEMMA FirstDecomposeApart ==
  ASSUME Shape, Apart, FirstDecompose, Shape'
  PROVE  Apart'
<1>1. /\ job' = job /\ virt' = virt /\ fast' = fast /\ leader' = leader /\ pc = "minset" /\ pc' = "acyclic" /\ at' = 1
      /\ UNCHANGED fastgraph
  BY DEF FirstDecompose, sets, fastgraph
<1>2. Ready /\ Decompose /\ mark \in [Node -> 0 .. 255] /\ Cmark \in 0 .. 255
  BY ShapeReady DEF Shape, FirstDecompose
<1>3. Cmark' = NextMark /\ Divides(mark', comp')
  BY <1>2, DecomposeIs
<1>4. Cmark # 254 /\ \A x \in Node : mark[x] = 0
  BY <1>1 DEF Apart, MarksOk
<1>5. NextMark # 0 /\ NextMark # 255
  BY <1>2, <1>4 DEF NextMark
<1>6. /\ \A x \in Node : mark'[x] = IF x \in Leaders THEN NextMark ELSE mark[x]
      /\ InOne(comp', Leaders) /\ Whole(comp')
  BY <1>3, <1>4, <1>5 DEF Divides
<1>7. Node' = Node /\ Leaders' = Leaders /\ AllLive' = AllLive
  BY <1>1 DEF Node, Leaders, AllLive, Edges, Live, fastgraph
<1>8. Whole(comp)'
  BY <1>1, <1>6, <1>7 DEF Whole, Near, Joins
<1>9. InOne(comp, Leaders)'
  BY <1>6, <1>7
<1>10. \A e \in AllLive' : Inside(e)'
  <2>1. Graph'
    BY DEF Shape
  <2>2. (\A e \in AllLive : Inside(e))'
    BY <1>8, <1>9, <2>1, WholeInside, PTL
  <2> QED BY <2>2
<1>11. Grounded(DOMAIN fast)'
  BY <1>1, GroundedSame DEF Apart
<1>12. \A x \in Node' : mark'[x] \in {0, 1} \/ \E c \in DOMAIN comp' : c >= at' /\ x \in Range(comp'[c])
  <2> TAKE x \in Node'
  <2>1. CASE x \in Leaders
    <3>1. PICK c \in DOMAIN comp' : x \in Range(comp'[c])
      BY <1>6, <2>1 DEF InOne
    <3>2. DOMAIN comp' = 1 .. Len(comp') /\ Len(comp') \in Nat
      BY DEF Shape
    <3> QED BY <1>1, <3>1, <3>2
  <2>2. CASE x \notin Leaders
    BY <1>4, <1>6, <1>7, <2>2
  <2> QED BY <2>1, <2>2
<1>13. MarksOk'
  BY <1>1, <1>3, <1>5, <1>12 DEF MarksOk
<1> QED BY <1>1, <1>9, <1>10, <1>11, <1>13 DEF Apart, Parted

-----------------------------------------------------------------------------
LEMMA PartedSame ==
  ASSUME Parted, job' = job, leader' = leader, UNCHANGED fastgraph, comp' = comp
  PROVE  Parted'
<1>1. Leaders' = Leaders /\ AllLive' = AllLive
  BY DEF Leaders, Node, AllLive, Edges, Live, fastgraph
<1> QED BY <1>1 DEF Parted, Inside, fastgraph

LEMMA PartedTurned ==
  ASSUME Parted, Good(G, AllLive), NEW e \in AllLive, NEW B, NEW f, AllLive' = B,
         job' = job, leader' = leader, comp' = comp, NEW h, Set(h), GoodTurned(G, h, AllLive, B, e, f)
  PROVE  Parted'
<1>1. Leaders' = Leaders
  BY DEF Leaders, Node
<1>2. /\ B = (AllLive \ {e}) \cup {f} /\ Joins(fast', f, fast[e].head, fast[e].tail)
      /\ Extends(fast, fast') /\ AllLive \subseteq DOMAIN fast
  BY DEF GoodTurned, Turned, Set, G, Good, Lists
<1>3. ASSUME NEW d \in AllLive, d \in B PROVE Inside(d)'
  BY <1>2 DEF Parted, Inside, Extends
<1>4. Inside(f)'
  BY <1>2 DEF Parted, Inside, Joins
<1>5. \A d \in B : Inside(d)'
  BY <1>2, <1>3, <1>4
<1> QED BY <1>1, <1>5 DEF Parted

LEMMA BeginComponentApart ==
  ASSUME Shape, Apart, BeginComponent
  PROVE  Apart'
<1>1. /\ job' = job /\ leader' = leader /\ UNCHANGED fastgraph /\ fast' = fast /\ virt' = virt /\ comp' = comp
      /\ at' = at /\ Cmark' = Cmark /\ pc = "acyclic" /\ pc' = "dfs"
      /\ mark' = [n \in Node |-> IF n \in Range(comp[at]) THEN 0 ELSE mark[n]]
  BY DEF BeginComponent, sets, fastgraph
<1>2. Parted' /\ Grounded(DOMAIN fast)'
  BY <1>1, PartedSame, GroundedSame DEF Apart
<1>3. \A x \in Node : mark'[x] \in {0, 1} \/ \E c \in DOMAIN comp : c > at /\ x \in Range(comp[c])
  <2> TAKE x \in Node
  <2>1. mark[x] \in {0, 1} \/ \E c \in DOMAIN comp : c >= at /\ x \in Range(comp[c])
    BY <1>1 DEF Apart, MarksOk
  <2>2. DOMAIN comp = 1 .. Len(comp) /\ Len(comp) \in Nat /\ at \in Nat
    BY DEF Shape
  <2>3. CASE x \in Range(comp[at])
    BY <1>1, <2>3
  <2>4. CASE x \notin Range(comp[at])
    <3>1. mark'[x] = mark[x]
      BY <1>1, <2>4
    <3>2. \A c \in DOMAIN comp : c >= at => c > at \/ c = at
      BY <2>2
    <3> QED BY <2>1, <2>4, <3>1, <3>2
  <2> QED BY <2>3, <2>4
<1>4. Node' = Node
  BY <1>1 DEF Node
<1>5. MarksOk'
  BY <1>1, <1>3, <1>4 DEF Apart, MarksOk
<1> QED BY <1>1, <1>2, <1>5 DEF Apart

LEMMA DfsRootApart ==
  ASSUME Shape, Apart, DfsRoot
  PROVE  Apart'
<1>1. /\ job' = job /\ leader' = leader /\ UNCHANGED fastgraph /\ fast' = fast /\ virt' = virt /\ comp' = comp
      /\ Cmark' = Cmark /\ pc = "dfs" /\ mark \in [Node -> 0 .. 255]
  BY DEF DfsRoot, sets, fastgraph, Shape
<1>2. Parted' /\ Grounded(DOMAIN fast)'
  BY <1>1, PartedSame, GroundedSame DEF Apart
<1>3. Node' = Node
  BY <1>1 DEF Node
<1>4. PICK rest : rest = {i \in DOMAIN comp[at] : mark[comp[at][i]] = 0}
  OBVIOUS
<1>5. \A x \in Node : mark[x] \in {0, 1} \/ \E c \in DOMAIN comp : c > at /\ x \in Range(comp[c])
  BY <1>1 DEF Apart, MarksOk
<1>6. CASE rest = {}
  <2>1. pc' = "acyclic" /\ at' = at + 1 /\ mark' = mark
    BY <1>4, <1>6 DEF DfsRoot
  <2>2. \A c \in DOMAIN comp : c > at => c >= at + 1
    BY DEF Shape
  <2>3. MarksOk'
    BY <1>1, <1>3, <1>5, <2>1, <2>2 DEF Apart, MarksOk
  <2> QED BY <1>1, <1>2, <2>1, <2>3 DEF Apart
<1>7. CASE rest # {}
  <2>1. mark' = [mark EXCEPT ![comp[at][Min(rest)]] = TRUE_] /\ pc' = pc /\ at' = at
    BY <1>4, <1>7 DEF DfsRoot, Call
  <2>2. \A x \in Node : mark'[x] = mark[x] \/ mark'[x] = 1
    BY <1>1, <2>1 DEF TRUE_
  <2>3. MarksOk'
    BY <1>1, <1>3, <1>5, <2>1, <2>2 DEF Apart, MarksOk
  <2> QED BY <1>1, <1>2, <2>1, <2>3 DEF Apart
<1> QED BY <1>6, <1>7

LEMMA DfsEdgeApart ==
  ASSUME Shape, Apart, DfsEdge
  PROVE  Apart'
<1>1. /\ job' = job /\ leader' = leader /\ virt' = virt /\ comp' = comp
      /\ Cmark' = Cmark /\ pc = "dfs" /\ pc' = pc /\ at' = at /\ mark \in [Node -> 0 .. 255]
  BY DEF DfsEdge, sets, Shape
<1>2. PICK e \in AllLive, w \in Leaders, i \in Nat \ {0} : Followed(e, w, i)
  BY FollowedIs
<1>3. \A x \in Node : mark'[x] = mark[x] \/ mark'[x] = 1
  BY <1>1, <1>2 DEF Followed, Call, TRUE_
<1>4. MarksOk'
  <2>1. \A x \in Node : mark[x] \in {0, 1} \/ \E c \in DOMAIN comp : c > at /\ x \in Range(comp[c])
    BY <1>1 DEF Apart, MarksOk
  <2>2. Node' = Node
    BY <1>1 DEF Node
  <2> QED BY <1>1, <1>3, <2>1, <2>2 DEF Apart, MarksOk
<1>5. CASE UNCHANGED fastgraph
  <2>1. Parted' /\ Grounded(DOMAIN fast)'
    BY <1>1, <1>5, PartedSame, GroundedSame DEF Apart, fastgraph
  <2> QED BY <1>1, <1>4, <2>1 DEF Apart
<1>6. CASE Set(Reversed(G, e))
  <2>1. Good(G, AllLive) /\ G.fast = fast
    BY GoodG DEF Shape
  <2>2. PICK h : h = Reversed(G, e)
    OBVIOUS
  <2>3. PICK B, f : GoodTurned(G, h, AllLive, B, e, f)
    BY <2>1, <2>2, GoodReversed
  <2>4. AllLive' = B
    BY <1>1, <1>6, <2>2, <2>3, GoodNext DEF GoodTurned
  <2>5. Parted'
    BY <1>1, <1>6, <2>1, <2>2, <2>3, <2>4, PartedTurned DEF Apart
  <2>6. VirtKept(fast, fast')
    BY <1>6, <2>1, <2>2, <2>3 DEF GoodTurned, Turned, Set
  <2>7. Grounded(DOMAIN fast)'
    BY <1>1, <2>6, GroundedOn DEF Apart
  <2> QED BY <1>1, <1>4, <2>5, <2>7 DEF Apart
<1> QED BY <1>2, <1>5, <1>6 DEF Followed

LEMMA QuietApart ==
  ASSUME Shape, Apart, DfsReturn \/ RankComponent \/ Expand \/ UNCHANGED vars
  PROVE  Apart'
<1>1. /\ job' = job /\ leader' = leader /\ UNCHANGED fastgraph /\ fast' = fast /\ virt' = virt /\ comp' = comp
      /\ mark' = mark /\ Cmark' = Cmark
      /\ (pc' = pc /\ at' = at) \/ (pc = "rank" /\ pc' \in {"rank", "trouble", "done"})
  <2>1. CASE DfsReturn
    BY <2>1 DEF DfsReturn, sets, fastgraph, marks
  <2>2. CASE RankComponent
    <3>1. pc = "rank" /\ pc' \in {"rank", "trouble"} /\ UNCHANGED <<job, sets, fastgraph, virt, marks>>
      BY <2>2 DEF RankComponent
    <3> QED BY <3>1 DEF sets, fastgraph, marks
  <2>3. CASE Expand
    BY <2>3 DEF Expand, sets, fastgraph, marks
  <2>4. CASE UNCHANGED vars
    BY <2>4 DEF vars, fastgraph
  <2> QED BY <2>1, <2>2, <2>3, <2>4
<1>2. Grounded(DOMAIN fast)' /\ (Parted => Parted')
  BY <1>1, PartedSame, GroundedSame DEF Apart
<1>3. MarksOk'
  BY <1>1 DEF Apart, MarksOk, Node
<1>4. ASSUME NEW D, PartedBut(D) PROVE PartedBut(D)'
  <2>1. Leaders' = Leaders /\ AllLive' = AllLive
    BY <1>1 DEF Leaders, Node, AllLive, Edges, Live, fastgraph
  <2> QED BY <1>1, <1>4, <2>1, GroundedSame DEF PartedBut, Inside
<1> QED BY <1>1, <1>2, <1>3, <1>4 DEF Apart

LEMMA AcyclicDoneApart ==
  ASSUME Shape, Apart, AcyclicDone
  PROVE  Apart'
<1>1. /\ job' = job /\ leader' = leader /\ UNCHANGED fastgraph /\ fast' = fast /\ virt' = virt /\ comp' = comp
      /\ mark' = mark /\ Cmark' = Cmark /\ pc = "acyclic" /\ pc' = "minmax2" /\ at > Len(comp)
  BY DEF AcyclicDone, sets, fastgraph, marks
<1>2. Grounded(DOMAIN fast)' /\ Parted'
  BY <1>1, PartedSame, GroundedSame DEF Apart
<1>3. \A c \in DOMAIN comp : ~(c >= at)
  BY <1>1 DEF Shape
<1>4. MarksOk'
  BY <1>1, <1>3 DEF Apart, MarksOk, Node
<1>5. PartedBut(DOMAIN fast)'
  BY <1>2 DEF Parted, PartedBut
<1> QED BY <1>1, <1>2, <1>4, <1>5 DEF Apart

LEMMA Minmax2Apart ==
  ASSUME Shape, Apart, Minmax2
  PROVE  Apart'
<1>1. /\ job' = job /\ leader' = leader /\ virt' = virt /\ comp' = comp
      /\ mark' = mark /\ Cmark' = Cmark /\ pc = "minmax2" /\ pc' = pc
  BY DEF Minmax2, sets, marks
<1>2. PICK h, B : Minmax2So(h, B)
  BY Minmax2Is
<1>3. Leaders' = Leaders
  BY <1>1 DEF Leaders, Node
<1>4. MarksOk'
  BY <1>1 DEF Apart, MarksOk, Node
<1>5. PICK D : PartedBut(D)
  BY <1>1 DEF Apart
<1>6. CASE Set(h) /\ TiedSo(G, h, AllLive, B, at)
  <2>1. Grown(fast, fast') /\ AllLive \subseteq B /\ \A e \in B \ AllLive : e \notin DOMAIN fast
    BY <1>6 DEF TiedSo, Set, G
  <2>2. AllLive' = B
    BY <1>1, <1>6, GoodNext DEF TiedSo
  <2>3. Grounded(DOMAIN fast)'
    BY <1>1, <2>1, GrownKept, GroundedOn DEF Apart
  <2>4. D \subseteq DOMAIN fast
    BY <1>5 DEF PartedBut, Grounded
  <2>5. Grounded(D)'
    BY <1>1, <1>5, <2>1, <2>4 DEF PartedBut, Grounded, Grown, Edge
  <2>6. \A e \in AllLive' \cap D : Inside(e)'
    <3> TAKE e \in AllLive' \cap D
    <3>1. e \in AllLive /\ e \in DOMAIN fast
      BY <2>1, <2>2, <2>4
    <3>2. fast'[e] = fast[e] /\ Inside(e)
      BY <1>5, <2>1, <3>1 DEF PartedBut, Grown
    <3> QED BY <1>1, <3>2 DEF Inside
  <2>7. PartedBut(D)'
    BY <1>1, <1>3, <1>5, <2>5, <2>6 DEF PartedBut
  <2> QED BY <1>1, <1>4, <2>3, <2>7 DEF Apart
<1>7. CASE UNCHANGED fastgraph
  <2>1. fast' = fast /\ AllLive' = AllLive
    BY <1>1, <1>7 DEF AllLive, Edges, Live, fastgraph, Node
  <2>2. Grounded(DOMAIN fast)' /\ Grounded(D)'
    BY <1>1, <1>5, <2>1, GroundedSame DEF Apart, PartedBut
  <2>3. PartedBut(D)'
    BY <1>1, <1>3, <1>5, <2>1, <2>2 DEF PartedBut, Inside
  <2> QED BY <1>1, <1>4, <2>2, <2>3 DEF Apart
<1> QED BY <1>2, <1>6, <1>7 DEF Minmax2So

-----------------------------------------------------------------------------
\* The edges that stand for one of D are in D too.
LEMMA ChainIn ==
  ASSUME NEW f, Len(f) \in Nat, DOMAIN f = 1 .. Len(f), NEW D, D \subseteq DOMAIN f,
         \A e \in D : f[e].virt \in D \cup {NONE}, NEW rep \in D \cup {NONE}
  PROVE  Chain(f, rep) \subseteq D \cup {NONE}
<1>1. PICK n \in Nat : n = Len(f)
  OBVIOUS
<1>2. PICK onward : onward = [e \in 0 .. n |-> IF e = NONE THEN NONE ELSE f[e].virt]
  OBVIOUS
<1>3. PICK Z : Z = D \cup {NONE}
  OBVIOUS
<1>4. \A e \in Z : onward[e] \in Z
  BY <1>1, <1>2, <1>3 DEF NONE
<1>5. PICK it : it = Iterates(n, rep, onward)
  OBVIOUS
<1>6. it[0] = rep /\ \A i \in 1 .. n : it[i] = onward[it[i - 1]]
  BY <1>5, IteratesAre
<1>7. \A i \in 0 .. n : it[i] \in Z
  <2>1. PICK Q : Q = [i \in 0 .. n |-> Z]
    OBVIOUS
  <2>2. it[0] \in Q[0]
    BY <1>3, <1>6, <2>1
  <2>3. ASSUME NEW i \in 1 .. n, it[i - 1] \in Q[i - 1] PROVE it[i] \in Q[i]
    <3>1. i - 1 \in 0 .. n /\ i \in 0 .. n
      OBVIOUS
    <3> QED BY <1>4, <1>6, <2>1, <2>3, <3>1
  <2>4. \A i \in 0 .. n : it[i] \in Q[i]
    BY <2>2, <2>3, Kept
  <2> QED BY <2>1, <2>4
<1>8. PICK K : K = {k \in 0 .. n - 1 : it[k] # NONE}
  OBVIOUS
<1>9. IsFiniteSet(0 .. n - 1) /\ Cardinality(0 .. n - 1) = n
  <2>1. PICK m \in Int : m = n - 1
    OBVIOUS
  <2>2. PICK z \in Int : z = 0
    OBVIOUS
  <2>3. IsFiniteSet(z .. m) /\ Cardinality(z .. m) = IF z > m THEN 0 ELSE m - z + 1
    BY FS_Interval
  <2>4. (IF z > m THEN 0 ELSE m - z + 1) = n
    BY <2>1, <2>2
  <2> QED BY <2>1, <2>2, <2>3, <2>4
<1>10. Cardinality(K) \in Nat /\ Cardinality(K) <= n
  BY <1>8, <1>9, FS_Subset, FS_CardinalityType
<1>11. Listed(n, rep, onward, NONE) = [i \in 1 .. Cardinality(K) |-> it[i - 1]]
  BY <1>5, <1>8 DEF Listed
<1>12. \A i \in 1 .. Cardinality(K) : it[i - 1] \in Z
  BY <1>7, <1>10
<1>13. Range(Listed(n, rep, onward, NONE)) \subseteq Z
  BY <1>11, <1>12 DEF Range
<1>14. Chain(f, rep) = Range(Listed(n, rep, onward, NONE))
  BY <1>1, <1>2 DEF Chain
<1> QED BY <1>3, <1>13, <1>14

LEMMA NotAdded ==
  ASSUME Shape, ~Added, NEW D, PartedBut(D)
  PROVE  Parted
<1>1. Len(fast) \in Nat /\ DOMAIN fast = 1 .. Len(fast) /\ AllLive \subseteq DOMAIN fast
  BY GoodG, ListsIs DEF Shape, Good
<1>2. ASSUME NEW e \in DOMAIN fast PROVE e \in D
  <2>1. PICK d \in Edge : e \in Chain(fast, virt[d])
    BY <1>2 DEF Added
  <2>2. Chain(fast, virt[d]) \subseteq D \cup {NONE}
    BY <1>1, ChainIn DEF PartedBut, Grounded
  <2> QED BY <1>1, <2>1, <2>2 DEF NONE
<1> QED BY <1>1, <1>2 DEF PartedBut, Parted

LEMMA SecondDecomposeApart ==
  ASSUME Shape, Apart, SecondDecompose, Shape'
  PROVE  Apart'
<1>1. /\ job' = job /\ virt' = virt /\ fast' = fast /\ leader' = leader /\ pc = "minmax2" /\ pc' = "rank"
      /\ UNCHANGED fastgraph
  BY DEF SecondDecompose, sets, fastgraph
<1>2. Grounded(DOMAIN fast)'
  BY <1>1, GroundedSame DEF Apart
<1>3. MarksOk'
  BY <1>1 DEF MarksOk
<1>4. Parted'
  <2>1. CASE Added
    <3>1. Ready /\ Decompose /\ mark \in [Node -> 0 .. 255] /\ Cmark \in 0 .. 255
      BY <2>1, ShapeReady DEF Shape, SecondDecompose
    <3>2. Divides(mark', comp')
      BY <3>1, DecomposeIs
    <3>3. Cmark # 255 /\ Cmark # 0 /\ \A x \in Node : mark[x] \in {0, 1}
      BY <1>1 DEF Apart, MarksOk
    <3>4. NextMark # 0 /\ NextMark # 1
      BY <3>1, <3>3 DEF NextMark
    <3>5. InOne(comp', Leaders) /\ Whole(comp')
      BY <3>2, <3>3, <3>4 DEF Divides
    <3>6. Node' = Node /\ Leaders' = Leaders /\ AllLive' = AllLive
      BY <1>1 DEF Node, Leaders, AllLive, Edges, Live, fastgraph
    <3>7. Whole(comp)'
      BY <1>1, <3>5, <3>6 DEF Whole, Near, Joins
    <3>8. InOne(comp, Leaders)'
      BY <3>5, <3>6
    <3>9. Graph'
      BY DEF Shape
    <3>10. (\A e \in AllLive : Inside(e))'
      BY <3>7, <3>8, <3>9, WholeInside, PTL
    <3> QED BY <3>8, <3>10 DEF Parted
  <2>2. CASE ~Added
    <3>1. comp' = comp
      BY <2>2 DEF SecondDecompose, marks
    <3>2. Parted
      BY <1>1, <2>2, NotAdded DEF Apart
    <3> QED BY <1>1, <3>1, <3>2, PartedSame
  <2> QED BY <2>1, <2>2
<1> QED BY <1>1, <1>2, <1>3, <1>4 DEF Apart

LEMMA ApartNext == ASSUME Shape, Apart, [Next]_vars PROVE Apart'
<1>1. Shape'
  BY ShapeNext
<1> QED
  BY <1>1, CollapseApart, Class1Apart, MinmaxReverseApart, FirstDecomposeApart, BeginComponentApart,
     DfsRootApart, DfsEdgeApart, QuietApart, AcyclicDoneApart, Minmax2Apart, SecondDecomposeApart
     DEF Next

LEMMA ApartDivided == ASSUME Shape, Apart PROVE Divided
<1> SUFFICES ASSUME pc \in {"dfs", "rank", "done"} PROVE Divided
  BY DEF Divided
<1>1. InOne(comp, Leaders) /\ \A e \in AllLive : Inside(e)
  BY DEF Apart, Parted
<1>2. ASSUME NEW n \in Leaders
      PROVE  Cardinality({p \in UNION {{c} \X DOMAIN comp[c] : c \in DOMAIN comp} :
                            comp[p[1]][p[2]] = n}) = 1
  <2>1. PICK c \in DOMAIN comp : n \in Range(comp[c])
    BY <1>1 DEF InOne
  <2>2. PICK i \in DOMAIN comp[c] : comp[c][i] = n
    BY <2>1 DEF Range
  <2>3. PICK P : P = {p \in UNION {{d} \X DOMAIN comp[d] : d \in DOMAIN comp} : comp[p[1]][p[2]] = n}
    OBVIOUS
  <2>4. <<c, i>> \in P
    <3>1. <<c, i>> \in {c} \X DOMAIN comp[c]
      OBVIOUS
    <3> QED BY <2>2, <2>3, <3>1
  <2>5. ASSUME NEW p \in P PROVE p = <<c, i>>
    <3>1. PICK d \in DOMAIN comp : p \in {d} \X DOMAIN comp[d]
      BY <2>3
    <3>2. PICK j \in DOMAIN comp[d] : p = <<d, j>>
      BY <3>1
    <3>3. comp[d][j] = n
      BY <2>3, <3>2
    <3>4. n \in Range(comp[d])
      BY <3>3 DEF Range
    <3>5. d = c
      BY <1>1, <2>1, <3>4 DEF InOne
    <3>6. j = i
      BY <1>1, <2>2, <3>3, <3>5 DEF InOne, IsInjective
    <3> QED BY <3>2, <3>5, <3>6
  <2>6. P = {<<c, i>>}
    BY <2>4, <2>5
  <2> QED BY <2>3, <2>6, FS_Singleton
<1>3. \A e \in AllLive : \E c \in DOMAIN comp : {fast[e].tail, fast[e].head} \subseteq Range(comp[c])
  BY <1>1 DEF Inside
<1> QED BY <1>2, <1>3 DEF Divided

\* decompose puts each leader into one component, once, and no edge goes from one
\* component to another, also the second time, when acyclic has marked the nodes; the
\* mark that earlier graphs have left is not the one from which Cmark comes to TRUE.
THEOREM Components ==
  ASSUME 254 \notin Marks
  PROVE  Spec => []Divided
<1>1. Init => Shape /\ Apart
  BY ShapeInit, ApartInit
<1>2. Shape /\ Apart /\ [Next]_vars => Shape' /\ Apart'
  BY ShapeNext, ApartNext
<1>3. Shape /\ Apart => Divided
  BY ApartDivided
<1> QED BY <1>1, <1>2, <1>3, PTL DEF Spec

-----------------------------------------------------------------------------
(* Rank sets: what collapse_rankset does to the leaders.                    *)

\* No leader of a node in C is outside of it, nor the other way round.
Sides(l, C) == \A n \in Node : n \in C <=> l[n] \in C

\* Nodes with one leader in l have one in m.
Coarser(l, m) == \A x, y \in Node : l[x] = l[y] => m[x] = m[y]

LEMMA PairLeast ==
  ASSUME NEW a \in Node, NEW b \in Node
  PROVE  Min({a, b}) \in {a, b} /\ Min({a, b}) \in Node
<1>1. {a, b} \in SUBSET Nat /\ {a, b} # {}
  BY NodeNat
<1> QED BY <1>1, LeastIs

LEMMA UnionParts ==
  ASSUME NEW l, Leads(l), NEW u \in Node, NEW v \in Node
  PROVE  /\ Coarser(l, Union(l, u, v)) /\ Union(l, u, v)[u] = Union(l, u, v)[v]
         /\ Union(l, u, v)[u] = Min({l[u], l[v]})
         /\ \A C : Sides(l, C) /\ (u \in C <=> v \in C) => Sides(Union(l, u, v), C)
<1>1. PICK a : a = Min({l[u], l[v]})
  OBVIOUS
<1>2. a \in {l[u], l[v]} /\ l[u] \in Node /\ l[v] \in Node
  BY <1>1, PairLeast DEF Leads
<1>3. PICK m : m = [n \in Node |-> IF l[n] \in {l[u], l[v]} THEN a ELSE l[n]]
  OBVIOUS
<1>4. m = Union(l, u, v)
  BY <1>1, <1>3 DEF Union
<1>5. \A n \in Node : m[n] = IF l[n] \in {l[u], l[v]} THEN a ELSE l[n]
  BY <1>3
<1>6. Coarser(l, m)
  BY <1>5 DEF Coarser
<1>7. m[u] = a /\ m[v] = a
  BY <1>5
<1>8. ASSUME NEW C, Sides(l, C), u \in C <=> v \in C PROVE Sides(m, C)
  <2>1. a \in C <=> u \in C
    BY <1>2, <1>8 DEF Sides
  <2>2. ASSUME NEW n \in Node PROVE n \in C <=> m[n] \in C
    <3>1. CASE l[n] \in {l[u], l[v]}
      <4>1. n \in C <=> u \in C
        BY <1>8, <3>1 DEF Sides
      <4> QED BY <1>5, <2>1, <3>1, <4>1
    <3>2. CASE l[n] \notin {l[u], l[v]}
      BY <1>5, <1>8, <3>2 DEF Sides
    <3> QED BY <3>1, <3>2
  <2> QED BY <2>2 DEF Sides
<1> QED BY <1>1, <1>4, <1>6, <1>7, <1>8

LEMMA GatheredParts ==
  ASSUME Leads(leader), NEW S \in SUBSET Node, S # {}
  PROVE  /\ Coarser(leader, Gathered(S)) /\ \A x, y \in S : Gathered(S)[x] = Gathered(S)[y]
         /\ \A C : Sides(leader, C) /\ (S \subseteq C \/ S \cap C = {}) => Sides(Gathered(S), C)
<1>1. PICK T : T = {leader[s] : s \in S}
  OBVIOUS
<1>2. PICK a : a = Min(T)
  OBVIOUS
<1>3. a \in T
  <2>1. \A s \in S : leader[s] \in Node
    BY DEF Leads
  <2>2. T \in SUBSET Nat /\ T # {}
    BY <1>1, <2>1, NodeNat
  <2> QED BY <1>2, <2>2, LeastIs
<1>4. PICK m : m = Gathered(S)
  OBVIOUS
<1>5. \A n \in Node : m[n] = IF leader[n] \in T THEN a ELSE leader[n]
  <2>1. \A n \in Node : leader[n] \in T <=> \E s \in S : leader[n] = leader[s]
    BY <1>1
  <2>2. m = [n \in Node |-> IF \E s \in S : leader[n] = leader[s] THEN a ELSE leader[n]]
    BY <1>1, <1>2, <1>4 DEF Gathered
  <2> QED BY <2>1, <2>2
<1>6. Coarser(leader, m)
  BY <1>5 DEF Coarser
<1>7. \A x \in S : m[x] = a
  BY <1>1, <1>5
<1>8. ASSUME NEW C, Sides(leader, C), S \subseteq C \/ S \cap C = {} PROVE Sides(m, C)
  <2>1. PICK s \in S : a = leader[s]
    BY <1>1, <1>3
  <2>2. ASSUME NEW n \in Node PROVE n \in C <=> m[n] \in C
    <3>1. CASE leader[n] \in T
      <4>1. PICK t \in S : leader[n] = leader[t]
        BY <1>1, <3>1
      <4>2. (n \in C <=> t \in C) /\ (a \in C <=> s \in C)
        BY <1>8, <2>1, <4>1 DEF Sides
      <4>3. s \in C <=> t \in C
        BY <1>8
      <4> QED BY <1>5, <3>1, <4>2, <4>3
    <3>2. CASE leader[n] \notin T
      BY <1>5, <1>8, <3>2 DEF Sides
    <3> QED BY <3>1, <3>2
  <2> QED BY <2>2 DEF Sides
<1> QED BY <1>4, <1>6, <1>7, <1>8

\* The leaders m and the set s that result when u joins a set that has the leaders l.
JoinsSo(l, set, u, m, s) ==
  /\ Coarser(l, m) /\ s \in Node /\ m[s] = m[u] /\ (set # NONE => m[set] = m[u])
  /\ \A C : Sides(l, C) /\ (set # NONE => (set \in C <=> u \in C)) =>
              Sides(m, C) /\ (s \in C <=> u \in C)

LEMMA JoinedParts ==
  ASSUME NEW l, Leads(l), NEW set \in Node \cup {NONE}, NEW u \in Node
  PROVE  JoinsSo(l, set, u, Joined(l, set, u).l, Joined(l, set, u).set)
<1> SUFFICES ASSUME NEW m, NEW s, m = Joined(l, set, u).l, s = Joined(l, set, u).set
             PROVE  JoinsSo(l, set, u, m, s)
  OBVIOUS
<1>1. CASE set = NONE
  <2>1. m = l /\ s = u
    BY <1>1 DEF Joined
  <2>2. Coarser(l, m) /\ s \in Node /\ m[s] = m[u]
    BY <2>1 DEF Coarser
  <2>3. \A C : Sides(l, C) => Sides(m, C) /\ (s \in C <=> u \in C)
    BY <2>1
  <2> QED BY <1>1, <2>2, <2>3 DEF JoinsSo
<1>2. CASE set # NONE
  <2>1. set \in Node
    BY <1>2
  <2>2. m = Union(l, set, u) /\ s = Min({l[set], l[u]})
    <3>1. Joined(l, set, u) = [l |-> Union(l, set, u), set |-> Min({l[set], l[u]})]
      BY <1>2 DEF Joined
    <3>2. PICK a, b : a = Union(l, set, u) /\ b = Min({l[set], l[u]})
      OBVIOUS
    <3> QED BY <3>1, <3>2
  <2>3. Leads(m)
    BY <2>1, <2>2, UnionIs
  <2>4. Coarser(l, m) /\ m[set] = m[u] /\ m[set] = s /\ s \in Node
    BY <2>1, <2>2, PairLeast, UnionParts DEF Leads
  <2>5. m[s] = s
    BY <2>1, <2>3, <2>4 DEF Leads
  <2>6. ASSUME NEW C, Sides(l, C), set \in C <=> u \in C PROVE Sides(m, C) /\ (s \in C <=> u \in C)
    <3>1. Sides(m, C)
      BY <2>1, <2>2, <2>6, UnionParts
    <3>2. (u \in C <=> m[u] \in C) /\ m[u] = s
      BY <2>4, <3>1 DEF Sides
    <3> QED BY <3>1, <3>2
  <2> QED BY <1>2, <2>4, <2>5, <2>6 DEF JoinsSo
<1> QED BY <1>1, <1>2

\* The set that is next, and what its kind does.
Gathers(S, kind, u, l) ==
  /\ at \in DOMAIN job.sets /\ S = job.sets[at].nodes /\ kind = job.sets[at].kind
  /\ S \in SUBSET Node /\ u \in S /\ kind \in Kinds
  /\ l = Gathered(S) /\ Leads(leader) /\ Leads(l)
  /\ \/ /\ kind = "same"
        /\ leader' = l /\ minset' = minset /\ maxset' = maxset
     \/ /\ kind \in {"min", "source"}
        /\ leader' = Joined(l, minset, u).l /\ minset' = Joined(l, minset, u).set /\ maxset' = maxset
     \/ /\ kind \in {"max", "sink"}
        /\ leader' = Joined(l, maxset, u).l /\ maxset' = Joined(l, maxset, u).set /\ minset' = minset

LEMMA GathersIs ==
  ASSUME Shape, CollapseRankset
  PROVE  \E S, kind, u, l : Gathers(S, kind, u, l)
<1>1. PICK S, kind : S = job.sets[at].nodes /\ kind = job.sets[at].kind
  OBVIOUS
<1>2. at \in DOMAIN job.sets
  BY DEF Shape, CollapseRankset, JobOk
<1>3. S \in SUBSET Node /\ S # {} /\ kind \in Kinds
  BY <1>1, <1>2, SetIs DEF Shape
<1>4. PICK u, l : u = Min(S) /\ l = Gathered(S)
  OBVIOUS
<1>5. u \in S
  <2>1. S \in SUBSET Nat
    BY <1>3, NodeNat
  <2> QED BY <1>3, <1>4, <2>1, LeastIs
<1>6. Leads(leader) /\ Leads(l)
  <2>1. Leads(leader)
    BY DEF Shape, Sets, Leads
  <2> QED BY <1>3, <1>4, <2>1, GatheredIs
<1>7. kind \in {"same"} \cup {"min", "source"} \cup {"max", "sink"}
  BY <1>3 DEF Kinds
<1>8. \/ /\ kind = "same"
         /\ leader' = l /\ minset' = minset /\ maxset' = maxset
      \/ /\ kind \in {"min", "source"}
         /\ leader' = Joined(l, minset, u).l /\ minset' = Joined(l, minset, u).set /\ maxset' = maxset
      \/ /\ kind \in {"max", "sink"}
         /\ leader' = Joined(l, maxset, u).l /\ maxset' = Joined(l, maxset, u).set /\ minset' = minset
  BY <1>1, <1>4, <1>7 DEF CollapseRankset, Gathered
<1> QED BY <1>1, <1>2, <1>3, <1>4, <1>5, <1>6, <1>8 DEF Gathers

\* C separates the sets of a graph that are to be least from those that are to be greatest.
Separates(j, C) ==
  \A i \in DOMAIN j.sets :
    /\ j.sets[i].nodes \subseteq C \/ j.sets[i].nodes \cap C = {}
    /\ j.sets[i].kind \in {"min", "source"} => j.sets[i].nodes \subseteq C
    /\ j.sets[i].kind \in {"max", "sink"} => j.sets[i].nodes \cap C = {}

\* No chain of rank sets with common nodes leads from a least set to a greatest one.
Separable == \A j \in Jobs : \E C \in SUBSET (1 .. j.n) : Separates(j, C)

Sided(C) ==
  /\ C \subseteq Node /\ Separates(job, C) /\ Sides(leader, C)
  /\ minset \in C \cup {NONE} /\ maxset \notin C

LEMMA CollapseSided ==
  ASSUME Shape, CollapseRankset, NEW C, Sided(C)
  PROVE  Sided(C)'
<1>1. PICK S, kind, u, l : Gathers(S, kind, u, l)
  BY GathersIs
<1>2. /\ Leads(leader) /\ Leads(l) /\ S \in SUBSET Node /\ S # {} /\ u \in Node /\ l = Gathered(S)
      /\ minset \in Node \cup {NONE} /\ maxset \in Node \cup {NONE} /\ u \in S
  BY <1>1 DEF Gathers, Shape, Sets
<1>3. /\ S \subseteq C \/ S \cap C = {}
      /\ kind \in {"min", "source"} => u \in C
      /\ kind \in {"max", "sink"} => u \notin C
  BY <1>1 DEF Gathers, Sided, Separates
<1>4. Sides(l, C)
  BY <1>2, <1>3, GatheredParts DEF Sided
<1>5. Node' = Node /\ job' = job
  BY DEF CollapseRankset, Node
<1>6. NONE \notin C
  BY NodeNat DEF Sided
<1>7. Sides(leader', C) /\ minset' \in C \cup {NONE} /\ maxset' \notin C
  <2>1. CASE kind = "same" /\ leader' = l /\ minset' = minset /\ maxset' = maxset
    BY <1>4, <2>1 DEF Sided
  <2>2. CASE /\ kind \in {"min", "source"}
             /\ leader' = Joined(l, minset, u).l /\ minset' = Joined(l, minset, u).set /\ maxset' = maxset
    <3>1. minset # NONE => (minset \in C <=> u \in C)
      BY <1>3, <2>2 DEF Sided
    <3>2. JoinsSo(l, minset, u, leader', minset')
      BY <1>2, <2>2, JoinedParts
    <3>3. Sides(leader', C) /\ (minset' \in C <=> u \in C)
      BY <1>4, <3>1, <3>2 DEF JoinsSo
    <3> QED BY <1>3, <2>2, <3>3 DEF Sided
  <2>3. CASE /\ kind \in {"max", "sink"}
             /\ leader' = Joined(l, maxset, u).l /\ maxset' = Joined(l, maxset, u).set /\ minset' = minset
    <3>1. maxset # NONE => (maxset \in C <=> u \in C)
      BY <1>3, <2>3 DEF Sided
    <3>2. JoinsSo(l, maxset, u, leader', maxset')
      BY <1>2, <2>3, JoinedParts
    <3>3. Sides(leader', C) /\ (maxset' \in C <=> u \in C)
      BY <1>4, <3>1, <3>2 DEF JoinsSo
    <3> QED BY <1>3, <2>3, <3>3 DEF Sided
  <2> QED BY <1>1, <2>1, <2>2, <2>3 DEF Gathers
<1>8. Sides(leader, C)'
  BY <1>5, <1>7 DEF Sides
<1> QED BY <1>5, <1>7, <1>8 DEF Sided, Separates

LEMMA SidedNext ==
  ASSUME Shape, NEW C, Sided(C), [Next]_vars
  PROVE  Sided(C)'
<1>1. CASE CollapseRankset
  BY <1>1, CollapseSided
<1>2. CASE Class1Done
  <2>1. job' = job /\ leader' = leader /\ Node' = Node
    BY <1>2 DEF Class1Done, Node
  <2>2. /\ minset' = IF minset = NONE THEN NONE ELSE leader[minset]
        /\ maxset' = IF maxset = NONE THEN NONE ELSE leader[maxset]
    BY <1>2 DEF Class1Done
  <2>3. minset \in Node \cup {NONE} /\ maxset \in Node \cup {NONE}
    BY DEF Shape, Sets
  <2>4. NONE \notin C
    BY NodeNat DEF Sided
  <2>5. minset' \in C \cup {NONE} /\ maxset' \notin C
    BY <2>2, <2>3, <2>4 DEF Sided, Sides
  <2> QED BY <2>1, <2>5 DEF Sided, Sides, Separates
<1>3. CASE job' = job /\ UNCHANGED sets
  <2>1. leader' = leader /\ minset' = minset /\ maxset' = maxset /\ Node' = Node
    BY <1>3 DEF sets, Node
  <2> QED BY <1>3, <2>1 DEF Sided, Sides, Separates
<1> QED
  BY <1>1, <1>2, <1>3
     DEF Next, vars, sets, CollapseDone, Class1, MaxsetReverse, MaxsetDone, MinsetReverse,
         FirstDecompose, BeginComponent, DfsRoot, DfsEdge, DfsReturn, AcyclicDone, Minmax2,
         SecondDecompose, RankComponent, Expand

-----------------------------------------------------------------------------
(* An order of the nodes along which the edges go.                          *)

\* The edges of A that leave D lead to D, and down in the order o.
Down(f, A, D, o, m) ==
  /\ o \in [Node -> 0 .. m]
  /\ \A e \in A : f[e].tail \in D => f[e].head \in D /\ o[f[e].head] < o[f[e].tail]

Settled(f, A, D) == \E m \in Nat : \E o : Down(f, A, D, o, m)

NoneFrom(f, A, n) == \A e \in A : f[e].tail # n
NoneTo(f, A, n) == \A e \in A : f[e].head # n

Proper(f, A) == \A e \in A : f[e].tail \in Node /\ f[e].head \in Node /\ f[e].tail # f[e].head

LEMMA ProperIs ==
  ASSUME NEW g, NEW A, Good(g, A)
  PROVE  Proper(g.fast, A)
<1>1. Lists(g, Node, A) /\ A \subseteq DOMAIN g.fast
  BY DEF Good, Lists
<1>2. \A e \in DOMAIN g.fast : g.fast[e].tail \in Node /\ g.fast[e].head \in Node
  BY <1>1, ListsIs
<1>3. \A e \in DOMAIN g.fast : g.fast[e].tail # g.fast[e].head
  BY <1>1 DEF Lists
<1> QED BY <1>1, <1>2, <1>3 DEF Proper

LEMMA SettledNone == ASSUME NEW f, NEW A PROVE Settled(f, A, {})
<1>1. [x \in Node |-> 0] \in [Node -> 0 .. 0] /\ 0 \in Nat
  OBVIOUS
<1>2. Down(f, A, {}, [x \in Node |-> 0], 0)
  BY <1>1 DEF Down
<1> QED BY <1>1, <1>2 DEF Settled

LEMMA SettledSame ==
  ASSUME NEW f, NEW A, NEW D, Settled(f, A, D), NEW h, NEW B,
         \A e \in B : h[e].tail \in D => e \in A /\ h[e].tail = f[e].tail /\ h[e].head = f[e].head
  PROVE  Settled(h, B, D)
<1>a. PICK m \in Nat : \E o : Down(f, A, D, o, m)
  BY DEF Settled
<1>1. PICK o : Down(f, A, D, o, m)
  BY <1>a
<1>2. Down(h, B, D, o, m)
  BY <1>1 DEF Down
<1> QED BY <1>2 DEF Settled

\* A node whose edges lead to D joins it on top.
LEMMA SettledMore ==
  ASSUME NEW f, NEW A, NEW D, Settled(f, A, D), Proper(f, A), NEW n \in Node, n \notin D,
         \A e \in A : f[e].tail = n => f[e].head \in D
  PROVE  Settled(f, A, D \cup {n})
<1>a. PICK m \in Nat : \E o : Down(f, A, D, o, m)
  BY DEF Settled
<1>1. PICK o : Down(f, A, D, o, m)
  BY <1>a
<1>2. PICK p : p = [x \in Node |-> IF x = n THEN m + 1 ELSE o[x]]
  OBVIOUS
<1>3. \A x \in Node : o[x] \in Int /\ o[x] >= 0 /\ o[x] <= m
  BY <1>1 DEF Down
<1>4. p \in [Node -> 0 .. m + 1]
  <2>1. \A x \in Node : p[x] \in 0 .. m + 1
    BY <1>2, <1>3
  <2> QED BY <1>2, <2>1
<1>5. ASSUME NEW e \in A, f[e].tail \in D \cup {n}
      PROVE  f[e].head \in D \cup {n} /\ p[f[e].head] < p[f[e].tail]
  <2>1. f[e].tail \in Node /\ f[e].head \in Node
    BY DEF Proper
  <2>2. CASE f[e].tail = n
    <3>1. f[e].head \in D /\ f[e].head # n
      BY <2>2
    <3>2. p[f[e].tail] = m + 1 /\ p[f[e].head] = o[f[e].head]
      BY <1>2, <2>1, <2>2, <3>1
    <3>3. o[f[e].head] < m + 1
      BY <1>3, <2>1
    <3> QED BY <3>1, <3>2, <3>3
  <2>3. CASE f[e].tail # n
    <3>1. f[e].tail \in D
      BY <1>5, <2>3
    <3>2. f[e].head \in D /\ f[e].head # n /\ o[f[e].head] < o[f[e].tail]
      BY <1>1, <3>1 DEF Down
    <3>3. p[f[e].tail] = o[f[e].tail] /\ p[f[e].head] = o[f[e].head]
      BY <1>2, <2>1, <2>3, <3>2
    <3> QED BY <3>2, <3>3
  <2> QED BY <2>2, <2>3
<1>6. Down(f, A, D \cup {n}, p, m + 1) /\ m + 1 \in Nat
  BY <1>4, <1>5 DEF Down
<1> QED BY <1>6 DEF Settled

\* When all edges leave D, all nodes are settled.
LEMMA SettledAll ==
  ASSUME NEW f, NEW A, NEW D, Settled(f, A, D), Proper(f, A), \A e \in A : f[e].tail \in D
  PROVE  Settled(f, A, Node)
<1>a. PICK m \in Nat : \E o : Down(f, A, D, o, m)
  BY DEF Settled
<1>1. PICK o : Down(f, A, D, o, m)
  BY <1>a
<1>2. Down(f, A, Node, o, m)
  BY <1>1 DEF Down, Proper
<1> QED BY <1>2 DEF Settled

\* A node t without edges out goes to the bottom of the order, a node s without edges in on top.
LEMMA SettledTied ==
  ASSUME NEW f, NEW A, Settled(f, A, Node), Proper(f, A), NEW s, NEW t, s # t,
         NoneFrom(f, A, t), NoneTo(f, A, s),
         NEW h, NEW B, Proper(h, B),
         \A e \in B : \/ e \in A /\ h[e].tail = f[e].tail /\ h[e].head = f[e].head
                      \/ h[e].head = t \/ h[e].tail = s
  PROVE  Settled(h, B, Node)
<1>a. PICK m \in Nat : \E o : Down(f, A, Node, o, m)
  BY DEF Settled
<1>1. PICK o : Down(f, A, Node, o, m)
  BY <1>a
<1>2. PICK p : p = [x \in Node |-> IF x = t THEN 0 ELSE IF x = s THEN m + 2 ELSE o[x] + 1]
  OBVIOUS
<1>3. \A x \in Node : o[x] \in Int /\ o[x] >= 0 /\ o[x] <= m
  BY <1>1 DEF Down
<1>4. p \in [Node -> 0 .. m + 2]
  <2>1. \A x \in Node : p[x] \in 0 .. m + 2
    BY <1>2, <1>3
  <2> QED BY <1>2, <2>1
<1>5. ASSUME NEW e \in B PROVE h[e].head \in Node /\ p[h[e].head] < p[h[e].tail]
  <2>1. PICK u \in Node, v \in Node : u = h[e].tail /\ v = h[e].head /\ u # v
    BY DEF Proper
  <2>2. o[u] \in Int /\ o[u] >= 0 /\ o[u] <= m /\ o[v] \in Int /\ o[v] >= 0 /\ o[v] <= m
    BY <1>3
  <2>3. /\ p[u] = IF u = t THEN 0 ELSE IF u = s THEN m + 2 ELSE o[u] + 1
        /\ p[v] = IF v = t THEN 0 ELSE IF v = s THEN m + 2 ELSE o[v] + 1
    BY <1>2
  <2>4. CASE e \in A /\ h[e].tail = f[e].tail /\ h[e].head = f[e].head
    <3>1. u # t /\ v # s /\ o[v] < o[u]
      BY <1>1, <2>1, <2>4 DEF Down, NoneFrom, NoneTo
    <3> QED BY <2>1, <2>2, <2>3, <3>1
  <2>5. CASE v = t
    BY <2>1, <2>2, <2>3, <2>5
  <2>6. CASE u = s
    BY <2>1, <2>2, <2>3, <2>6
  <2> QED BY <2>1, <2>4, <2>5, <2>6
<1>6. Down(h, B, Node, p, m + 2) /\ m + 2 \in Nat
  BY <1>4, <1>5 DEF Down
<1> QED BY <1>6 DEF Settled

\* In an order there is no set whose members all lead to members.
LEMMA SettledOpen ==
  ASSUME NEW f, NEW A, Settled(f, A, Node), NEW T \in SUBSET Node,
         \A x \in T : \E e \in A : f[e].tail = x /\ f[e].head \in T
  PROVE  T = {}
<1>a. PICK m \in Nat : \E o : Down(f, A, Node, o, m)
  BY DEF Settled
<1>1. PICK o : Down(f, A, Node, o, m)
  BY <1>a
<1>2. PICK V : V = {o[x] : x \in T}
  OBVIOUS
<1>3. V \in SUBSET Nat
  BY <1>1, <1>2 DEF Down
<1> SUFFICES ASSUME T # {} PROVE FALSE
  OBVIOUS
<1>0. V # {}
  BY <1>2
<1>4. PICK v \in V : \A w \in V : v <= w
  BY <1>0, <1>3, NatLeast
<1>5. PICK x \in T : v = o[x]
  BY <1>2
<1>6. PICK e \in A : f[e].tail = x /\ f[e].head \in T
  OBVIOUS
<1>7. o[f[e].head] < o[x] /\ o[f[e].head] \in V
  BY <1>1, <1>2, <1>6 DEF Down
<1>8. v <= o[f[e].head] /\ o[f[e].head] \in Nat /\ v \in Nat
  BY <1>3, <1>4, <1>7
<1> QED BY <1>5, <1>7, <1>8

\* The same from the other end.
LEMMA SettledOpenBelow ==
  ASSUME NEW f, NEW A, Settled(f, A, Node), Proper(f, A), NEW T \in SUBSET Node,
         \A x \in T : \E e \in A : f[e].head = x /\ f[e].tail \in T
  PROVE  T = {}
<1>a. PICK m \in Nat : \E o : Down(f, A, Node, o, m)
  BY DEF Settled
<1>1. PICK o : Down(f, A, Node, o, m)
  BY <1>a
<1>2. PICK V : V = {m - o[x] : x \in T}
  OBVIOUS
<1>3. \A x \in Node : o[x] \in Int /\ o[x] >= 0 /\ o[x] <= m
  BY <1>1 DEF Down
<1>4. V \in SUBSET Nat
  BY <1>2, <1>3
<1> SUFFICES ASSUME T # {} PROVE FALSE
  OBVIOUS
<1>0. V # {}
  BY <1>2
<1>5. PICK v \in V : \A w \in V : v <= w
  BY <1>0, <1>4, NatLeast
<1>6. PICK x \in T : v = m - o[x]
  BY <1>2
<1>7. PICK e \in A : f[e].head = x /\ f[e].tail \in T
  OBVIOUS
<1>8. PICK y \in T : y = f[e].tail
  BY <1>7
<1>9. o[x] < o[y] /\ m - o[y] \in V
  BY <1>1, <1>2, <1>7, <1>8 DEF Down
<1>10. m - o[x] <= m - o[y]
  BY <1>5, <1>6, <1>9
<1> QED BY <1>3, <1>9, <1>10

LEMMA NotCyclic ==
  ASSUME Graph, Settled(fast, AllLive, Node)
  PROVE  Cyclic(Node) = {}
<1>1. \A n \in Node : Live(n) = From(fast, AllLive, n)
  BY DEF Graph, Lists, Once, Live, G
<1>2. ASSUME NEW T \in SUBSET Node, \A n \in T : \E e \in Live(n) : fast[e].head \in T
      PROVE  T = {}
  <2>1. \A x \in T : \E e \in AllLive : fast[e].tail = x /\ fast[e].head \in T
    BY <1>1, <1>2 DEF From
  <2> QED BY <2>1, SettledOpen
<1>3. UNION {T \in SUBSET Node : \A n \in T : \E e \in Live(n) : fast[e].head \in T} = {}
  BY <1>2
<1> QED BY <1>3 DEF Cyclic

-----------------------------------------------------------------------------
(* The search for cycles.                                                   *)

Past(D) == \A c \in DOMAIN comp : c < at => Range(comp[c]) \subseteq D
Ahead(D, c) == \A d \in DOMAIN comp : d >= c => Range(comp[d]) \cap D = {}

\* Each node is called once, in the present component, and not settled yet.
Path(D) ==
  /\ \A k \in DOMAIN stack : stack[k].node \in Range(comp[at]) /\ stack[k].node \notin D
  /\ \A j, k \in DOMAIN stack : stack[j].node = stack[k].node => j = k
  /\ \A k \in 1 .. Len(stack) - 1 : \E e \in AllLive : Joins(fast, e, stack[k].node, stack[k + 1].node)

\* The nodes of the present component that have a mark are settled or called.
Seen(D) == \A x \in Range(comp[at]) : mark[x] # 0 <=> x \in D \cup onstack

\* What a call has behind it in its list leads to settled nodes or to the next call.
LeadsOn(k, j, D) ==
  LET L == out[stack[k].node]
  IN  /\ j \in DOMAIN L
      /\ \/ fast[L[j]].head \in D
         \/ k < Len(stack) /\ fast[L[j]].head = stack[k + 1].node

Behind(D) == \A k \in DOMAIN stack : \A j \in 1 .. stack[k].i - 1 : LeadsOn(k, j, D)

Walking(D) == Path(D) /\ Seen(D) /\ Behind(D)

\* No edge goes out of the greatest set nor, later, into the least.
EndsFree ==
  /\ pc \in {"minset", "acyclic", "dfs", "minmax2"} => NoneFrom(fast, AllLive, maxset)
  /\ pc \in {"acyclic", "dfs", "minmax2"} => NoneTo(fast, AllLive, minset)

Resting ==
  /\ pc \in {"collapse", "class1", "maxset", "minset"} => \A x \in Node : mark[x] = 0
  /\ pc # "dfs" => stack = <<>>

Searched(D) ==
  /\ Settled(fast, AllLive, D) /\ Past(D)
  /\ pc = "acyclic" => Ahead(D, at)
  /\ pc = "dfs" => Ahead(D, at + 1) /\ Walking(D)

Unwound ==
  /\ \E C : Sided(C)
  /\ Resting /\ EndsFree
  /\ pc \in {"acyclic", "dfs"} => Parted /\ \E D : Searched(D)
  /\ pc \in {"minmax2", "rank", "done"} => Settled(fast, AllLive, Node)

-----------------------------------------------------------------------------
LEMMA RestingNext == ASSUME Shape, Resting, [Next]_vars PROVE Resting'
<1>1. CASE DfsRoot
  <2>1. pc = "dfs" /\ stack = <<>> /\ pc' \in {"dfs", "acyclic"} /\ (pc' = "acyclic" => stack' = stack)
    BY <1>1 DEF DfsRoot
  <2> QED BY <2>1 DEF Resting
<1>2. CASE DfsEdge \/ DfsReturn
  BY <1>2 DEF Resting, DfsEdge, DfsReturn
<1>3. CASE BeginComponent
  BY <1>3 DEF Resting, BeginComponent
<1>4. CASE FirstDecompose \/ SecondDecompose
  <2>1. stack' = stack /\ pc # "dfs" /\ pc' \in {"acyclic", "rank"}
    BY <1>4 DEF FirstDecompose, SecondDecompose
  <2> QED BY <2>1 DEF Resting
<1>5. CASE CollapseRankset \/ CollapseDone \/ Class1 \/ Class1Done \/ MaxsetReverse \/ MaxsetDone \/ MinsetReverse
  <2>1. /\ stack' = stack /\ mark' = mark /\ job' = job
        /\ pc \in {"collapse", "class1", "maxset", "minset"}
    BY <1>5 DEF CollapseRankset, CollapseDone, Class1, Class1Done, MaxsetReverse, MaxsetDone, MinsetReverse, marks
  <2>2. pc' # "dfs" \/ pc' = pc
    BY <1>5 DEF CollapseRankset, CollapseDone, Class1, Class1Done, MaxsetReverse, MaxsetDone, MinsetReverse
  <2> QED BY <2>1 DEF Resting, Node
<1>6. CASE AcyclicDone \/ Minmax2 \/ RankComponent \/ Expand
  <2>1. /\ stack' = stack /\ pc \in {"acyclic", "minmax2", "rank"} /\ pc' \in {"minmax2", "rank", "trouble", "done"}
    BY <1>6 DEF AcyclicDone, Minmax2, RankComponent, Expand
  <2> QED BY <2>1 DEF Resting
<1>7. CASE UNCHANGED vars
  BY <1>7 DEF Resting, vars, Node
<1> QED BY <1>1, <1>2, <1>3, <1>4, <1>5, <1>6, <1>7 DEF Next

\* An edge that is turned round from head to tail takes none of the two ends along.
LEMMA FreeTurned ==
  ASSUME NEW g, NEW h, NEW A, NEW B, NEW e \in A, NEW f, GoodTurned(g, h, A, B, e, f), A \subseteq DOMAIN g.fast, NEW n
  PROVE  /\ NoneFrom(g.fast, A, n) /\ g.fast[e].head # n => NoneFrom(h.fast, B, n)
         /\ NoneTo(g.fast, A, n) /\ g.fast[e].tail # n => NoneTo(h.fast, B, n)
  BY DEF GoodTurned, Turned, Extends, Joins, NoneFrom, NoneTo

LEMMA ProperNow == ASSUME Shape PROVE Proper(fast, AllLive) /\ AllLive \subseteq DOMAIN fast
<1>1. Good(G, AllLive) /\ G.fast = fast
  BY GoodG DEF Shape
<1>2. AllLive \subseteq DOMAIN G.fast
  BY <1>1 DEF Good, Lists
<1> QED BY <1>1, <1>2, ProperIs

LEMMA NotAnEnd ==
  ASSUME Shape
  PROVE  NoneFrom(fast, AllLive, NONE) /\ NoneTo(fast, AllLive, NONE)
<1>1. Proper(fast, AllLive) /\ NONE \notin Node
  BY ProperNow, NodeNat
<1> QED BY <1>1 DEF Proper, NoneFrom, NoneTo

LEMMA EndsApart == ASSUME Shape, NEW C, Sided(C) PROVE minset # maxset \/ minset = NONE
  BY DEF Sided

\* What Unwound says of the graph, where an action leaves it alone.
LEMMA SettledKept ==
  ASSUME job' = job, leader' = leader, UNCHANGED fastgraph, minset' = minset, maxset' = maxset
  PROVE  /\ fast' = fast /\ out' = out /\ in' = in /\ AllLive' = AllLive /\ Node' = Node
         /\ \A D : Settled(fast, AllLive, D) => Settled(fast, AllLive, D)'
         /\ \A n : NoneFrom(fast, AllLive, n) => NoneFrom(fast', AllLive', n)
         /\ \A n : NoneTo(fast, AllLive, n) => NoneTo(fast', AllLive', n)
<1>1. fast' = fast /\ out' = out /\ in' = in /\ AllLive' = AllLive /\ Node' = Node
  BY DEF fastgraph, AllLive, Edges, Live, Node
<1> QED BY <1>1 DEF Settled, Down, NoneFrom, NoneTo

LEMMA SidedOn == ASSUME Shape, Unwound, [Next]_vars PROVE \E C : Sided(C)'
  BY SidedNext DEF Unwound

LEMMA EarlyUnwound ==
  ASSUME Shape, Unwound,
         CollapseRankset \/ CollapseDone \/ Class1 \/ Class1Done \/ MaxsetReverse
  PROVE  Unwound'
<1>1. (\E C : Sided(C)') /\ Resting'
  BY SidedOn, RestingNext DEF Unwound, Next
<1>2. pc' \in {"collapse", "class1", "maxset"}
  BY DEF CollapseRankset, CollapseDone, Class1, Class1Done, MaxsetReverse
<1> QED BY <1>1, <1>2 DEF Unwound, EndsFree

LEMMA MaxsetDoneUnwound ==
  ASSUME Shape, Unwound, MaxsetDone
  PROVE  Unwound'
<1>1. (\E C : Sided(C)') /\ Resting'
  BY SidedOn, RestingNext DEF Unwound, Next
<1>2. /\ pc' = "minset" /\ job' = job /\ UNCHANGED fastgraph /\ leader' = leader /\ maxset' = maxset
      /\ minset' = minset /\ (maxset # NONE => out[maxset] = <<>>)
  BY DEF MaxsetDone, sets
<1>3. NoneFrom(fast, AllLive, maxset)
  <2>1. CASE maxset = NONE
    BY <2>1, NotAnEnd
  <2>2. CASE maxset # NONE
    <3>1. maxset \in Node /\ Good(G, AllLive) /\ G.fast = fast /\ G.out = out
      BY <2>2, GoodG DEF Shape, Sets
    <3>2. From(fast, AllLive, maxset) = {}
      BY <1>2, <2>2, <3>1, EmptyList
    <3> QED BY <3>2 DEF From, NoneFrom
  <2> QED BY <2>1, <2>2
<1>4. NoneFrom(fast', AllLive', maxset')
  BY <1>2, <1>3, SettledKept
<1> QED BY <1>1, <1>2, <1>4 DEF Unwound, EndsFree

LEMMA MinsetReverseUnwound ==
  ASSUME Shape, Unwound, MinsetReverse
  PROVE  Unwound'
<1>1. (\E C : Sided(C)') /\ Resting'
  BY SidedOn, RestingNext DEF Unwound, Next
<1>2. pc = "minset" /\ pc' = pc /\ job' = job /\ leader' = leader /\ maxset' = maxset
  BY DEF MinsetReverse, sets
<1>3. PICK e : Against(e)
  BY AgainstIs
<1>4. Good(G, AllLive) /\ G.fast = fast
  BY GoodG DEF Shape
<1>5. PICK h : h = Reversed(G, e)
  OBVIOUS
<1>6. PICK B, f : GoodTurned(G, h, AllLive, B, e, f)
  BY <1>3, <1>4, <1>5, GoodReversed DEF Against
<1>7. AllLive' = B /\ fast' = h.fast
  BY <1>2, <1>3, <1>5, <1>6, GoodNext DEF GoodTurned, Against, Set
<1>8. fast[e].head = minset /\ minset # NONE
  BY <1>2, <1>3 DEF Against
<1>9. NoneFrom(h.fast, B, maxset)
  <2>1. minset # maxset
    BY <1>8, EndsApart DEF Unwound
  <2>2. NoneFrom(fast, AllLive, maxset) /\ AllLive \subseteq DOMAIN fast /\ e \in AllLive
    BY <1>2, <1>3, ProperNow DEF Unwound, EndsFree, Against
  <2> QED BY <1>4, <1>6, <1>8, <2>1, <2>2, FreeTurned
<1>10. NoneFrom(fast', AllLive', maxset')
  BY <1>2, <1>7, <1>9
<1> QED BY <1>1, <1>2, <1>10 DEF Unwound, EndsFree

LEMMA FirstDecomposeUnwound ==
  ASSUME Shape, Unwound, FirstDecompose, Shape'
  PROVE  Unwound'
<1>1. (\E C : Sided(C)') /\ Resting'
  BY SidedOn, RestingNext DEF Unwound, Next
<1>2. /\ job' = job /\ leader' = leader /\ pc = "minset" /\ pc' = "acyclic" /\ at' = 1
      /\ UNCHANGED fastgraph /\ minset' = minset /\ maxset' = maxset
      /\ (minset # NONE => in[minset] = <<>>)
  BY DEF FirstDecompose, sets
<1>3. Parted'
  <2>1. Ready /\ Decompose /\ mark \in [Node -> 0 .. 255] /\ Cmark \in 0 .. 255
    BY ShapeReady DEF Shape, FirstDecompose
  <2>2. Cmark' = NextMark /\ Divides(mark', comp')
    BY <2>1, DecomposeIs
  <2>3. \A x \in Node : mark[x] = 0
    BY <1>2 DEF Unwound, Resting
  <2>4. NextMark # 0
    BY <2>1, NextMarkType
  <2>5. InOne(comp', Leaders) /\ Whole(comp')
    BY <2>2, <2>3, <2>4 DEF Divides
  <2>6. Node' = Node /\ Leaders' = Leaders /\ AllLive' = AllLive /\ fast' = fast
    BY <1>2 DEF Node, Leaders, AllLive, Edges, Live, fastgraph
  <2>7. Whole(comp)'
    BY <2>5, <2>6 DEF Whole, Near, Joins
  <2>8. InOne(comp, Leaders)'
    BY <2>5, <2>6
  <2>9. Graph'
    BY DEF Shape
  <2>10. (\A e \in AllLive : Inside(e))'
    BY <2>7, <2>8, <2>9, WholeInside, PTL
  <2> QED BY <2>8, <2>10 DEF Parted
<1>4. NoneTo(fast, AllLive, minset)
  <2>1. CASE minset = NONE
    BY <2>1, NotAnEnd
  <2>2. CASE minset # NONE
    <3>1. minset \in Node /\ Good(G, AllLive) /\ G.fast = fast /\ G.in = in
      BY <2>2, GoodG DEF Shape, Sets
    <3>2. To(fast, AllLive, minset) = {}
      BY <1>2, <2>2, <3>1, EmptyList
    <3> QED BY <3>2 DEF To, NoneTo
  <2> QED BY <2>1, <2>2
<1>5. EndsFree'
  BY <1>2, <1>4, SettledKept DEF EndsFree, Unwound
<1>6. Settled(fast, AllLive, {})'
  BY <1>2, SettledNone, SettledKept
<1>7. Past({})' /\ Ahead({}, at)'
  <2>1. comp' \in Seq(Seq(Node'))
    BY DEF Shape
  <2>2. \A c \in DOMAIN comp' : c >= 1 /\ c \in Nat
    BY <2>1
  <2> QED BY <1>2, <2>2 DEF Past, Ahead
<1>8. Searched({})'
  BY <1>2, <1>6, <1>7 DEF Searched
<1> QED BY <1>1, <1>2, <1>3, <1>5, <1>8 DEF Unwound

LEMMA BeginUnwound ==
  ASSUME Shape, Unwound, BeginComponent
  PROVE  Unwound'
<1>1. (\E C : Sided(C)') /\ Resting'
  BY SidedOn, RestingNext DEF Unwound, Next
<1>2. /\ job' = job /\ leader' = leader /\ UNCHANGED fastgraph /\ comp' = comp /\ minset' = minset /\ maxset' = maxset
      /\ at' = at /\ pc = "acyclic" /\ pc' = "dfs" /\ stack' = stack /\ at <= Len(comp)
      /\ mark' = [n \in Node |-> IF n \in Range(comp[at]) THEN 0 ELSE mark[n]]
  BY DEF BeginComponent, sets
<1>3. PICK D : Searched(D)
  BY <1>2 DEF Unwound
<1>4. Parted'
  BY <1>2, PartedSame DEF Unwound
<1>5. EndsFree'
  BY <1>2, SettledKept DEF EndsFree, Unwound
<1>6. Settled(fast, AllLive, D)' /\ Past(D)'
  BY <1>2, <1>3, SettledKept DEF Searched, Past
<1>7. at \in DOMAIN comp /\ DOMAIN comp = 1 .. Len(comp) /\ comp[at] \in Seq(Node)
  BY <1>2 DEF Shape
<1>8. Range(comp[at]) \cap D = {} /\ Ahead(D, at + 1)'
  <2>1. Ahead(D, at) /\ at \in Nat /\ at >= at
    BY <1>2, <1>3, <1>7 DEF Searched
  <2>2. \A c \in DOMAIN comp : c >= at + 1 => c >= at
    BY <1>7, <2>1
  <2> QED BY <1>2, <1>7, <2>1, <2>2 DEF Ahead
<1>9. Walking(D)'
  <2>1. stack' = <<>> /\ DOMAIN stack' = {} /\ Len(stack') = 0
    BY <1>2 DEF Unwound, Resting
  <2>2. Path(D)' /\ Behind(D)' /\ onstack' = {}
    BY <2>1 DEF Path, Behind, onstack
  <2>3. Range(comp[at]) \subseteq Node
    BY <1>7 DEF Range
  <2>4. \A x \in Range(comp[at]) : mark'[x] = 0
    BY <1>2, <2>3
  <2>5. Seen(D)'
    BY <1>2, <1>8, <2>2, <2>4 DEF Seen
  <2> QED BY <2>2, <2>5 DEF Walking
<1>10. Searched(D)'
  BY <1>2, <1>6, <1>8, <1>9 DEF Searched
<1> QED BY <1>1, <1>2, <1>4, <1>5, <1>10 DEF Unwound

LEMMA DfsRootUnwound ==
  ASSUME Shape, Unwound, DfsRoot
  PROVE  Unwound'
<1>1. (\E C : Sided(C)') /\ Resting'
  BY SidedOn, RestingNext DEF Unwound, Next
<1>2. /\ job' = job /\ leader' = leader /\ UNCHANGED fastgraph /\ comp' = comp /\ minset' = minset /\ maxset' = maxset
      /\ pc = "dfs" /\ stack = <<>>
  BY DEF DfsRoot, sets
<1>3. PICK D : Searched(D)
  BY <1>2 DEF Unwound
<1>4. Parted'
  BY <1>2, PartedSame DEF Unwound
<1>5. pc' \in {"dfs", "acyclic"}
  BY DEF DfsRoot
<1>6. EndsFree'
  BY <1>2, <1>5, SettledKept DEF EndsFree, Unwound
<1>7. Settled(fast, AllLive, D)'
  BY <1>2, <1>3, SettledKept DEF Searched
<1>8. PICK rest : rest = {i \in DOMAIN comp[at] : mark[comp[at][i]] = 0}
  OBVIOUS
<1>9. Past(D) /\ Ahead(D, at + 1) /\ Walking(D)
  BY <1>2, <1>3 DEF Searched
<1>10. onstack = {} /\ DOMAIN stack = {}
  BY <1>2 DEF onstack
<1>11. at \in DOMAIN comp /\ DOMAIN comp = 1 .. Len(comp) /\ Len(comp) \in Nat /\ at \in Nat
  BY <1>2 DEF Shape
<1>12. CASE rest = {}
  <2>1. pc' = "acyclic" /\ at' = at + 1
    BY <1>8, <1>12 DEF DfsRoot
  <2>2. Range(comp[at]) \subseteq D
    <3> SUFFICES ASSUME NEW x \in Range(comp[at]) PROVE x \in D
      OBVIOUS
    <3>1. PICK i \in DOMAIN comp[at] : x = comp[at][i]
      BY DEF Range
    <3>2. mark[x] # 0
      BY <1>8, <1>12, <3>1
    <3> QED BY <1>9, <1>10, <3>2 DEF Walking, Seen
  <2>3. Past(D)'
    <3>1. \A c \in DOMAIN comp : c < at + 1 => c < at \/ c = at
      BY <1>11
    <3> QED BY <1>2, <1>9, <2>1, <2>2, <3>1 DEF Past
  <2>4. Ahead(D, at)'
    BY <1>2, <1>9, <2>1 DEF Ahead
  <2>5. Searched(D)'
    BY <1>7, <2>1, <2>3, <2>4 DEF Searched
  <2> QED BY <1>1, <1>4, <1>6, <2>1, <2>5 DEF Unwound
<1>13. CASE rest # {}
  <2>1. PICK n : n = comp[at][Min(rest)]
    OBVIOUS
  <2>2. Call(n, <<>>) /\ pc' = pc /\ at' = at
    BY <1>8, <1>13, <2>1 DEF DfsRoot
  <2>3. n \in Node /\ n \in Range(comp[at]) /\ mark[n] = 0
    BY <1>2, <1>8, <1>13, <2>1, RestIs
  <2>4. stack' = <<[node |-> n, i |-> 1]>> /\ mark' = [mark EXCEPT ![n] = TRUE_]
    BY <2>2 DEF Call
  <2>5. DOMAIN stack' = {1} /\ Len(stack') = 1 /\ stack'[1].node = n /\ stack'[1].i = 1
    BY <2>4
  <2>6. onstack' = {n}
    BY <2>5 DEF onstack
  <2>7. n \notin D
    BY <1>9, <2>3 DEF Walking, Seen
  <2>8. Path(D)' /\ Behind(D)'
    BY <1>2, <2>2, <2>3, <2>5, <2>7 DEF Path, Behind
  <2>9. Seen(D)'
    <3>1. Range(comp[at]) \subseteq Node /\ mark \in [Node -> 0 .. 255]
      BY <1>11 DEF Shape, Range
    <3>2. \A x \in Range(comp[at]) : mark'[x] # 0 <=> x = n \/ mark[x] # 0
      BY <2>3, <2>4, <3>1 DEF TRUE_
    <3> QED BY <1>2, <1>9, <1>10, <2>2, <2>6, <3>2 DEF Walking, Seen
  <2>10. Past(D)' /\ Ahead(D, at + 1)'
    BY <1>2, <1>9, <2>2 DEF Past, Ahead
  <2>11. Searched(D)'
    BY <1>2, <1>7, <2>2, <2>8, <2>9, <2>10 DEF Searched, Walking
  <2> QED BY <1>1, <1>2, <1>4, <1>6, <2>2, <2>11 DEF Unwound
<1> QED BY <1>12, <1>13

LEMMA DfsReturnUnwound ==
  ASSUME Shape, Unwound, DfsReturn
  PROVE  Unwound'
<1>1. (\E C : Sided(C)') /\ Resting'
  BY SidedOn, RestingNext DEF Unwound, Next
<1>2. /\ job' = job /\ leader' = leader /\ UNCHANGED fastgraph /\ comp' = comp /\ minset' = minset /\ maxset' = maxset
      /\ pc = "dfs" /\ pc' = pc /\ at' = at /\ stack # <<>> /\ stack' = Front(stack) /\ mark' = mark
      /\ Last(stack).i > Len(out[Last(stack).node])
  BY DEF DfsReturn, sets, marks
<1>3. PICK D : Searched(D)
  BY <1>2 DEF Unwound
<1>4. Parted' /\ Parted
  BY <1>2, PartedSame DEF Unwound
<1>5. EndsFree'
  BY <1>2, SettledKept DEF EndsFree, Unwound
<1>6. Past(D) /\ Ahead(D, at + 1) /\ Path(D) /\ Seen(D) /\ Behind(D) /\ Settled(fast, AllLive, D)
  BY <1>2, <1>3 DEF Searched, Walking
<1>7. PICK n, m : n = Last(stack).node /\ m = Len(stack)
  OBVIOUS
<1>8. stack \in Seq(Calls)
  BY DEF Shape
<1>9. /\ m \in Nat \ {0} /\ DOMAIN stack = 1 .. m /\ stack[m].node = n /\ n \in Node
      /\ stack[m].i > Len(out[n]) /\ stack[m].i \in Nat
      /\ DOMAIN stack' = 1 .. m - 1 /\ Len(stack') = m - 1
      /\ \A k \in 1 .. m - 1 : stack'[k] = stack[k]
  <2>1. Last(stack) = stack[m]
    BY <1>2, <1>7, <1>8, TopIs
  <2> QED BY <1>2, <1>7, <1>8, <2>1, TopIs, FrontIs
<1>10. n \in Range(comp[at]) /\ n \notin D
  BY <1>6, <1>9 DEF Path
<1>11. \A e \in AllLive : fast[e].tail = n => fast[e].head \in D
  <2> SUFFICES ASSUME NEW e \in AllLive, fast[e].tail = n PROVE fast[e].head \in D
    OBVIOUS
  <2>1. Once(out[n], From(fast, AllLive, n))
    BY <1>9 DEF Shape, Graph, Lists, G
  <2>2. e \in From(fast, AllLive, n)
    BY DEF From
  <2>3. PICK j \in 1 .. Len(out[n]) : out[n][j] = e
    BY <2>1, <2>2, OnceIs
  <2>4. Len(out[n]) \in Nat
    BY <2>1, OnceIs
  <2>5. j \in 1 .. stack[m].i - 1 /\ m \in DOMAIN stack /\ ~(m < Len(stack))
    BY <1>7, <1>9, <2>4
  <2>6. LeadsOn(m, j, D)
    BY <1>6, <2>5 DEF Behind
  <2> QED BY <1>9, <2>3, <2>5, <2>6 DEF LeadsOn
<1>12. PICK E : E = D \cup {n}
  OBVIOUS
<1>13. Settled(fast, AllLive, E)
  BY <1>6, <1>9, <1>10, <1>11, <1>12, ProperNow, SettledMore
<1>14. Settled(fast, AllLive, E)'
  BY <1>2, <1>13, SettledKept
<1>15. Past(E)'
  BY <1>2, <1>6, <1>12 DEF Past
<1>16. Ahead(E, at + 1)'
  <2>1. at \in DOMAIN comp /\ DOMAIN comp = 1 .. Len(comp) /\ at \in Nat
    BY <1>2 DEF Shape
  <2>2. \A d \in DOMAIN comp : d >= at + 1 => d # at
    BY <2>1
  <2>3. \A d \in DOMAIN comp : d >= at + 1 => n \notin Range(comp[d])
    BY <1>4, <1>10, <2>1, <2>2 DEF Parted, InOne
  <2> QED BY <1>2, <1>6, <1>12, <2>3 DEF Ahead
<1>17. \A k \in 1 .. m - 1 : k \in DOMAIN stack /\ k # m /\ k < m /\ stack[k].node # n
  <2> TAKE k \in 1 .. m - 1
  <2>1. k \in DOMAIN stack /\ m \in DOMAIN stack /\ k # m /\ k < m
    BY <1>9
  <2>2. stack[k].node = stack[m].node => k = m
    BY <1>6, <2>1 DEF Path
  <2> QED BY <1>9, <2>1, <2>2
<1>18. Path(E)'
  <2>1. \A k \in DOMAIN stack' : stack'[k].node \in Range(comp[at]) /\ stack'[k].node \notin E
    BY <1>6, <1>9, <1>12, <1>17 DEF Path
  <2>2. \A j, k \in DOMAIN stack' : stack'[j].node = stack'[k].node => j = k
    BY <1>6, <1>9, <1>17 DEF Path
  <2>3. \A k \in 1 .. Len(stack') - 1 : \E e \in AllLive : Joins(fast, e, stack'[k].node, stack'[k + 1].node)
    <3> TAKE k \in 1 .. Len(stack') - 1
    <3>1. k \in 1 .. Len(stack) - 1 /\ k \in 1 .. m - 1 /\ k + 1 \in 1 .. m - 1
      BY <1>7, <1>9
    <3> QED BY <1>6, <1>9, <3>1 DEF Path
  <2> QED BY <1>2, <2>1, <2>2, <2>3, SettledKept DEF Path
<1>19. onstack = onstack' \cup {n}
  <2>1. onstack = {stack[k].node : k \in 1 .. m} /\ onstack' = {stack[k].node : k \in 1 .. m - 1}
    BY <1>9 DEF onstack
  <2>2. \A k : k \in 1 .. m <=> k \in 1 .. m - 1 \/ k = m
    BY <1>9
  <2> QED BY <1>9, <2>1, <2>2
<1>20. Seen(E)'
  BY <1>2, <1>6, <1>12, <1>19 DEF Seen
<1>21. Behind(E)'
  <2> SUFFICES ASSUME NEW k \in 1 .. m - 1, NEW j \in 1 .. stack[k].i - 1
               PROVE  LeadsOn(k, j, E)'
    BY <1>9 DEF Behind
  <2>1. LeadsOn(k, j, D)
    BY <1>6, <1>17 DEF Behind
  <2>2. PICK x : x = fast[out[stack[k].node][j]].head
    OBVIOUS
  <2>3. j \in DOMAIN out[stack[k].node] /\ (x \in D \/ x = stack[k + 1].node)
    BY <2>1, <2>2 DEF LeadsOn
  <2>4. x \in E \/ (k < Len(stack') /\ x = stack'[k + 1].node)
    <3>1. CASE k = m - 1
      <4>1. k + 1 = m
        BY <1>9, <3>1
      <4> QED BY <1>9, <1>12, <2>3, <4>1
    <3>2. CASE k # m - 1
      <4>1. k + 1 \in 1 .. m - 1 /\ k < m - 1
        BY <1>9, <3>2
      <4> QED BY <1>9, <1>12, <2>3, <4>1
    <3> QED BY <3>1, <3>2
  <2>5. out' = out /\ fast' = fast /\ stack'[k] = stack[k]
    BY <1>2, <1>9, SettledKept
  <2>6. PICK L : L = out[stack[k].node]
    OBVIOUS
  <2>7. j \in DOMAIN L /\ x = fast[L[j]].head
    BY <2>2, <2>3, <2>6
  <2>8. L = out'[stack'[k].node] /\ x = fast'[L[j]].head
    BY <2>5, <2>6, <2>7
  <2> QED BY <2>4, <2>7, <2>8 DEF LeadsOn
<1>22. Searched(E)'
  BY <1>2, <1>14, <1>15, <1>16, <1>18, <1>20, <1>21 DEF Searched, Walking
<1> QED BY <1>1, <1>2, <1>4, <1>5, <1>22 DEF Unwound

\* The edge that the search looks at, from n to w, is in the present component.
LEMMA EdgeInside ==
  ASSUME Shape, pc = "dfs", Parted, NEW e \in AllLive, fast[e].tail \in Range(comp[at])
  PROVE  fast[e].head \in Range(comp[at])
<1>1. PICK c \in DOMAIN comp : fast[e].tail \in Range(comp[c]) /\ fast[e].head \in Range(comp[c])
  BY DEF Parted, Inside
<1>2. c = at
  BY <1>1 DEF Shape, Parted, InOne
<1> QED BY <1>1, <1>2

\* The stack after its top goes on to i, and, with more, a call of w on top.
Stepped(i) ==
  /\ DOMAIN stack' = DOMAIN stack /\ Len(stack') = Len(stack)
  /\ \A k \in DOMAIN stack : stack'[k].node = stack[k].node
  /\ \A k \in DOMAIN stack : k # Len(stack) => stack'[k].i = stack[k].i
  /\ stack'[Len(stack)].i = i

LEMMA SteppedIs ==
  ASSUME stack \in Seq(Calls), stack # <<>>, NEW i \in Nat \ {0}, stack' = Step(i)
  PROVE  Stepped(i)
<1>1. PICK m : m = Len(stack)
  OBVIOUS
<1>2. /\ m \in DOMAIN stack /\ Last(stack) = stack[m]
      /\ Len(stack') = m /\ DOMAIN stack' = DOMAIN stack
      /\ \A k \in DOMAIN stack : k # m => stack'[k] = stack[k]
      /\ stack'[m].node = Last(stack).node /\ stack'[m].i = i
  BY <1>1, TopIs, StepIs
<1>3. \A k \in DOMAIN stack : stack'[k].node = stack[k].node
  BY <1>2
<1> QED BY <1>1, <1>2, <1>3 DEF Stepped

\* From o to p a list loses its end, or what moves there, and another list may gain an end.
Moved(o, p, n, v, Z, f) == p = [o EXCEPT ![n] = Z] \/ p = [o EXCEPT ![n] = Z, ![v] = Append(@, f)]

\* From o to p the lists stay, that of n up to the one before i.
Held(o, p, n, i) ==
  \A x \in Node : \A j \in DOMAIN o[x] :
    x # n \/ j < i => j \in DOMAIN p[x] /\ p[x][j] = o[x][j]

LEMMA KeptPlaces ==
  ASSUME NEW o \in [Node -> Seq(Nat)], NEW n \in Node, NEW v \in Node, n # v, NEW i \in Nat,
         NEW Z, Keeps(o[n], Z, i - 1), NEW f \in Nat, NEW p,
         Moved(o, p, n, v, Z, f)
  PROVE  Held(o, p, n, i)
<1>1. PICK A : A = Append(o[v], f)
  OBVIOUS
<1>2. \A j \in DOMAIN o[v] : j \in DOMAIN A /\ A[j] = o[v][j]
  <2>1. PICK M \in Seq(Nat) : M = o[v]
    OBVIOUS
  <2> QED BY ONLY <1>1, <2>1, f \in Nat
<1>3. p[n] = Z /\ (p[v] = o[v] \/ p[v] = A) /\ \A x \in Node : x # n /\ x # v => p[x] = o[x]
  BY <1>1 DEF Moved
<1>4. ASSUME NEW j \in DOMAIN o[n], j < i PROVE j \in DOMAIN p[n] /\ p[n][j] = o[n][j]
  <2>1. j \in Nat /\ j >= 1
    OBVIOUS
  <2>2. j \in 1 .. i - 1
    BY <1>4, <2>1
  <2> QED BY <1>3, <2>2 DEF Keeps
<1> QED BY <1>2, <1>3, <1>4 DEF Held

\* The lists of edges stay, those of n up to the one before i.
OutKept(n, i) ==
  \A x \in Node : \A j \in DOMAIN out[x] :
    x # n \/ j < i => j \in DOMAIN out'[x] /\ out'[x][j] = out[x][j]

\* e is in place i of the edges out of n.
OutAt(e, n, i) == fast[e].tail = n /\ i \in 1 .. Len(out[n]) /\ out[n][i] = e

LEMMA OutKeptIs ==
  ASSUME Shape, NEW e \in AllLive, NEW n, NEW i, OutAt(e, n, i),
         NEW h, NEW B, NEW f, GoodTurned(G, h, AllLive, B, e, f), Set(h)
  PROVE  OutKept(n, i)
<1>1. PICK v : v = fast[e].head
  OBVIOUS
<1>2. n \in Node /\ v \in Node /\ n # v
  BY <1>1, ProperNow DEF Proper, OutAt
<1>3. out \in [Node -> Seq(Nat)] /\ Once(out[n], From(fast, AllLive, n))
  BY <1>2 DEF Shape, Graph, Lists, FastGraph, G
<1>4. PICK Z : Z = Zap(out[n], e)
  OBVIOUS
<1>5. Keeps(out[n], Z, i - 1) /\ i \in Nat
  <2>1. Keeps(out[n], Z, i - 1)
    BY <1>3, <1>4, OnceIs, ZapIs DEF OutAt
  <2>2. PICK M : M = out[n]
    OBVIOUS
  <2>3. M \in Seq(Nat)
    BY <1>2, <1>3, <2>2
  <2>4. Len(M) \in Nat
    BY <2>3
  <2>5. i \in 1 .. Len(M)
    BY <2>2 DEF OutAt
  <2>6. i \in Nat
    BY <2>4, <2>5
  <2> QED BY <2>1, <2>6
<1>6. out' = [out EXCEPT ![n] = Z] \/ out' = [out EXCEPT ![n] = Z, ![v] = Append(@, f)]
  <2>1. out' = h.out /\ OutAfter(G, h, e, f) /\ G.out = out /\ G.fast = fast
    BY DEF GoodTurned, Turned, Set, G
  <2> QED BY <1>1, <1>4, <2>1 DEF OutAfter, OutAt
<1>7. f \in Nat
  <2>1. Lists(h, Node, B) /\ f \in B
    BY DEF GoodTurned, Good, Turned
  <2> QED BY <2>1, ListsIs
<1>8. PICK o, p, m, k : o = out /\ p = out' /\ m = n /\ k = i
  OBVIOUS
<1>9. Held(o, p, m, k)
  <2>1. /\ o \in [Node -> Seq(Nat)] /\ m \in Node /\ v \in Node /\ m # v
        /\ k \in Nat /\ Keeps(o[m], Z, k - 1) /\ f \in Nat
        /\ Moved(o, p, m, v, Z, f)
    BY <1>2, <1>3, <1>5, <1>6, <1>7, <1>8 DEF Moved
  <2> QED BY ONLY <2>1, KeptPlaces
<1> QED BY <1>8, <1>9 DEF OutKept, Held

\* An edge to a node that is being searched from is turned round, and what has moved
\* into its place is looked at next.
LEMMA WalkingTurned ==
  ASSUME Shape, NEW D, Walking(D), stack # <<>>, NEW n, n = Last(stack).node,
         NEW e \in AllLive, fast[e].tail = n, NEW i \in Nat \ {0}, i = Last(stack).i, Stepped(i),
         NEW h, NEW B, NEW f, GoodTurned(G, h, AllLive, B, e, f), fast' = h.fast, AllLive' = B,
         OutKept(n, i), mark' = mark, comp' = comp, at' = at
  PROVE  Walking(D)'
<1>1. Path(D) /\ Seen(D) /\ Behind(D)
  BY DEF Walking
<1>2. PICK m : m = Len(stack)
  OBVIOUS
<1>3. m \in DOMAIN stack /\ DOMAIN stack = 1 .. m /\ stack[m].node = n /\ stack[m].i = i /\ m \in Nat
  BY <1>2, TopIs DEF Shape
<1>4. /\ DOMAIN stack' = 1 .. m /\ Len(stack') = m
      /\ \A k \in 1 .. m : stack'[k].node = stack[k].node /\ stack'[k].i = stack[k].i
  BY <1>2, <1>3 DEF Stepped
<1>5. B = (AllLive \ {e}) \cup {f} /\ AllLive \subseteq DOMAIN fast /\ Extends(fast, fast')
  BY ProperNow DEF GoodTurned, Turned, G
<1>6. onstack' = onstack
  BY <1>3, <1>4 DEF onstack
<1>7. Seen(D)'
  BY <1>1, <1>6 DEF Seen
<1>8. Path(D)'
  <2>1. /\ \A k \in DOMAIN stack' : stack'[k].node \in Range(comp[at]) /\ stack'[k].node \notin D
        /\ \A j, k \in DOMAIN stack' : stack'[j].node = stack'[k].node => j = k
    BY <1>1, <1>3, <1>4 DEF Path
  <2>2. ASSUME NEW k \in 1 .. Len(stack') - 1
        PROVE  \E d \in B : Joins(fast', d, stack'[k].node, stack'[k + 1].node)
    <3>1. k \in 1 .. Len(stack) - 1 /\ k \in 1 .. m /\ k + 1 \in 1 .. m /\ k # m
      BY <1>2, <1>3, <1>4
    <3>2. PICK d \in AllLive : Joins(fast, d, stack[k].node, stack[k + 1].node)
      BY <1>1, <3>1 DEF Path
    <3>3. stack[k].node # n
      BY <1>1, <1>3, <3>1 DEF Path
    <3>4. d # e
      BY <3>2, <3>3 DEF Joins
    <3> QED BY <1>4, <1>5, <3>1, <3>2, <3>4 DEF Joins, Extends
  <2> QED BY <2>1, <2>2 DEF Path
<1>9. Behind(D)'
  <2> SUFFICES ASSUME NEW k \in 1 .. m, NEW j \in 1 .. stack[k].i - 1
               PROVE  LeadsOn(k, j, D)'
    BY <1>4 DEF Behind
  <2>1. LeadsOn(k, j, D) /\ stack[k].node \in Node /\ stack[k].i \in Nat
    BY <1>1, <1>3, TopIs DEF Behind, Shape
  <2>2. PICK x, L : x = stack[k].node /\ L = out[x]
    OBVIOUS
  <2>3. /\ j \in DOMAIN L
        /\ \/ fast[L[j]].head \in D
           \/ k < m /\ fast[L[j]].head = stack[k + 1].node
    BY <1>2, <2>1, <2>2 DEF LeadsOn
  <2>4. x # n \/ j < i
    <3>1. x = n => k = m
      BY <1>1, <1>3, <2>2 DEF Path
    <3>2. k = m => j < i
      BY <1>3, <2>1
    <3> QED BY <3>1, <3>2
  <2>5. j \in DOMAIN out'[x] /\ out'[x][j] = L[j]
    BY <2>1, <2>2, <2>3, <2>4 DEF OutKept
  <2>6. L[j] \in DOMAIN fast
    <3>1. j \in 1 .. Len(out[x])
      <4>1. out[x] \in Seq(Nat)
        BY <2>1, <2>2 DEF Shape, Graph, Lists, FastGraph, G
      <4> QED BY <2>2, <2>3, <4>1
    <3>2. out[x][j] \in AllLive
      BY <2>1, <2>2, <3>1, ListEdge DEF Shape
    <3> QED BY <1>5, <2>2, <3>2
  <2>7. fast'[L[j]].head = fast[L[j]].head
    BY <1>5, <2>6 DEF Extends
  <2>8. k < m => stack'[k + 1].node = stack[k + 1].node
    BY <1>3, <1>4
  <2>9. PICK M : M = out'[stack'[k].node]
    OBVIOUS
  <2>10. j \in DOMAIN M /\ M[j] = L[j]
    BY <1>4, <2>2, <2>5, <2>9
  <2> QED BY <1>4, <2>3, <2>7, <2>8, <2>9, <2>10 DEF LeadsOn
<1> QED BY <1>7, <1>8, <1>9 DEF Walking

\* The edges stay, and what is on top goes on to i, and w is called if more says so.
LEMMA WalkingOn ==
  ASSUME Shape, NEW D, Walking(D), stack # <<>>, NEW n, n = Last(stack).node,
         NEW i \in Nat \ {0}, i = Last(stack).i, i \in DOMAIN out[n], fast[out[n][i]].head \in D,
         job' = job, leader' = leader, UNCHANGED fastgraph, minset' = minset, maxset' = maxset,
         Stepped(i + 1), mark' = mark, comp' = comp, at' = at
  PROVE  Walking(D)'
<1>1. Path(D) /\ Seen(D) /\ Behind(D)
  BY DEF Walking
<1>2. PICK m : m = Len(stack)
  OBVIOUS
<1>3. m \in DOMAIN stack /\ DOMAIN stack = 1 .. m /\ stack[m].node = n /\ stack[m].i = i /\ m \in Nat
  BY <1>2, TopIs DEF Shape
<1>4. /\ DOMAIN stack' = 1 .. m /\ Len(stack') = m
      /\ \A k \in 1 .. m : stack'[k].node = stack[k].node
      /\ \A k \in 1 .. m : k # m => stack'[k].i = stack[k].i
      /\ stack'[m].i = i + 1
  BY <1>2, <1>3 DEF Stepped
<1>5. fast' = fast /\ out' = out /\ AllLive' = AllLive
  BY SettledKept
<1>6. onstack' = onstack
  BY <1>3, <1>4 DEF onstack
<1>7. Seen(D)'
  BY <1>1, <1>6 DEF Seen
<1>8. Path(D)'
  <2>1. /\ \A k \in DOMAIN stack' : stack'[k].node \in Range(comp[at]) /\ stack'[k].node \notin D
        /\ \A j, k \in DOMAIN stack' : stack'[j].node = stack'[k].node => j = k
    BY <1>1, <1>3, <1>4 DEF Path
  <2>2. ASSUME NEW k \in 1 .. Len(stack') - 1
        PROVE  \E d \in AllLive : Joins(fast, d, stack'[k].node, stack'[k + 1].node)
    <3>1. k \in 1 .. Len(stack) - 1 /\ k \in 1 .. m /\ k + 1 \in 1 .. m
      BY <1>2, <1>3, <1>4
    <3> QED BY <1>1, <1>4, <3>1 DEF Path
  <2> QED BY <1>5, <2>1, <2>2 DEF Path
<1>9. Behind(D)'
  <2> SUFFICES ASSUME NEW k \in 1 .. m, NEW j \in 1 .. stack'[k].i - 1
               PROVE  LeadsOn(k, j, D)'
    BY <1>4 DEF Behind
  <2>1. PICK x, L : x = stack[k].node /\ L = out[x]
    OBVIOUS
  <2>2. /\ j \in DOMAIN L
        /\ \/ fast[L[j]].head \in D
           \/ k < m /\ fast[L[j]].head = stack[k + 1].node
    <3>1. CASE k = m /\ j = i
      BY <1>3, <2>1, <3>1
    <3>2. CASE ~(k = m /\ j = i)
      <4>1. stack[k].i \in Nat
        BY <1>3, TopIs DEF Shape
      <4>2. j \in 1 .. stack[k].i - 1
        BY <1>3, <1>4, <3>2, <4>1
      <4>3. LeadsOn(k, j, D)
        BY <1>1, <1>3, <4>2 DEF Behind
      <4> QED BY <1>2, <2>1, <4>3 DEF LeadsOn
    <3> QED BY <3>1, <3>2
  <2>3. L = out'[stack'[k].node]
    BY <1>4, <1>5, <2>1
  <2>4. k < m => stack'[k + 1].node = stack[k + 1].node
    BY <1>3, <1>4
  <2> QED BY <1>4, <1>5, <2>2, <2>3, <2>4 DEF LeadsOn
<1> QED BY <1>7, <1>8, <1>9 DEF Walking

\* The edge leads to a node w without a mark, which is called.
LEMMA WalkingCalled ==
  ASSUME Shape, NEW D, Walking(D), stack # <<>>, NEW n, n = Last(stack).node,
         NEW i \in Nat \ {0}, i = Last(stack).i, i \in DOMAIN out[n], out[n][i] \in AllLive,
         NEW w \in Node, Joins(fast, out[n][i], n, w), w \notin onstack, mark[w] = 0, w \in Range(comp[at]),
         job' = job, leader' = leader, UNCHANGED fastgraph, minset' = minset, maxset' = maxset,
         NEW s \in Seq(Calls), s = Step(i + 1), Call(w, s), comp' = comp, at' = at,
         Range(comp[at]) \subseteq Node
  PROVE  Walking(D)'
<1>1. Path(D) /\ Seen(D) /\ Behind(D)
  BY DEF Walking
<1>2. PICK m : m = Len(stack)
  OBVIOUS
<1>3. m \in DOMAIN stack /\ DOMAIN stack = 1 .. m /\ stack[m].node = n /\ stack[m].i = i /\ m \in Nat
  BY <1>2, TopIs DEF Shape
<1>4. /\ DOMAIN s = 1 .. m /\ Len(s) = m
      /\ \A k \in 1 .. m : s[k].node = stack[k].node
      /\ \A k \in 1 .. m : k # m => s[k].i = stack[k].i
      /\ s[m].i = i + 1
  <2>1. i + 1 \in Nat \ {0} /\ Last(stack) = stack[m]
    BY <1>2, TopIs DEF Shape
  <2>2. PICK j \in Nat \ {0} : j = i + 1
    BY <2>1
  <2>3. s = Step(j) /\ stack \in Seq(Calls)
    BY <2>2 DEF Shape
  <2>4. /\ Len(s) = m /\ DOMAIN s = DOMAIN stack
        /\ \A k \in DOMAIN stack : k # m => s[k] = stack[k]
        /\ s[m].node = Last(stack).node /\ s[m].i = j
    BY <1>2, <2>3, StepIs
  <2> QED BY <1>3, <2>1, <2>2, <2>4
<1>5. /\ DOMAIN stack' = 1 .. m + 1 /\ Len(stack') = m + 1
      /\ \A k \in 1 .. m : stack'[k] = s[k]
      /\ stack'[m + 1].node = w /\ stack'[m + 1].i = 1
  <2>1. PICK c : c = [node |-> w, i |-> 1]
    OBVIOUS
  <2>2. c \in Calls /\ c.node = w /\ c.i = 1
    BY <2>1 DEF Calls
  <2>3. stack' = Append(s, c)
    BY <2>1 DEF Call
  <2> QED BY <1>4, <2>2, <2>3, AppendAt
<1>6. fast' = fast /\ out' = out /\ AllLive' = AllLive
  BY SettledKept
<1>7. onstack' = onstack \cup {w}
  <2>1. onstack = {stack[k].node : k \in 1 .. m} /\ onstack' = {stack'[k].node : k \in 1 .. m + 1}
    BY <1>3, <1>5 DEF onstack
  <2>2. \A k : k \in 1 .. m + 1 <=> k \in 1 .. m \/ k = m + 1
    BY <1>3
  <2>3. \A k \in 1 .. m : stack'[k].node = stack[k].node
    BY <1>4, <1>5
  <2>4. stack'[m + 1].node = w
    BY <1>5
  <2> QED BY ONLY <2>1, <2>2, <2>3, <2>4
<1>8. Seen(D)'
  <2>1. mark' = [mark EXCEPT ![w] = TRUE_] /\ mark \in [Node -> 0 .. 255]
    BY DEF Call, Shape
  <2>2. \A x \in Range(comp[at]) : mark'[x] # 0 <=> x = w \/ mark[x] # 0
    BY <2>1 DEF TRUE_
  <2> QED BY <1>1, <1>7, <2>2 DEF Seen
<1>9. w \notin D /\ \A k \in 1 .. m : stack[k].node # w
  <2>1. w \notin D
    BY <1>1 DEF Seen
  <2> QED BY <1>3, <2>1 DEF onstack
<1>10. \A k \in DOMAIN stack' : \/ k \in 1 .. m /\ stack'[k].node = stack[k].node
                                \/ k = m + 1 /\ stack'[k].node = w
  <2>1. \A k \in 1 .. m + 1 : k \in 1 .. m \/ k = m + 1
    BY <1>3
  <2>2. \A k \in 1 .. m : stack'[k].node = stack[k].node
    BY <1>4, <1>5
  <2> QED BY ONLY <1>5, <2>1, <2>2
<1>11. Path(D)'
  <2>1. \A k \in DOMAIN stack' : stack'[k].node \in Range(comp[at]) /\ stack'[k].node \notin D
    BY <1>1, <1>3, <1>9, <1>10 DEF Path
  <2>2. \A j, k \in DOMAIN stack' : stack'[j].node = stack'[k].node => j = k
    BY <1>1, <1>3, <1>9, <1>10 DEF Path
  <2>0. \A j \in 1 .. m : stack'[j].node = stack[j].node
    BY ONLY <1>4, <1>5
  <2>3. ASSUME NEW k \in 1 .. Len(stack') - 1
        PROVE  \E d \in AllLive : Joins(fast, d, stack'[k].node, stack'[k + 1].node)
    <3>1. k \in 1 .. m
      BY <1>3, <1>5
    <3>2. CASE k = m
      <4>1. stack'[k].node = n /\ stack'[k + 1].node = w
        BY <1>3, <1>5, <2>0, <3>1, <3>2
      <4> QED BY <4>1
    <3>3. CASE k # m
      <4>1. k \in 1 .. Len(stack) - 1 /\ k + 1 \in 1 .. m
        BY <1>2, <1>3, <3>1, <3>3
      <4>2. stack'[k].node = stack[k].node /\ stack'[k + 1].node = stack[k + 1].node
        BY <2>0, <3>1, <4>1
      <4> QED BY <1>1, <4>1, <4>2 DEF Path
    <3> QED BY <3>2, <3>3
  <2> QED BY <1>6, <2>1, <2>2, <2>3 DEF Path
<1>12. Behind(D)'
  <2> SUFFICES ASSUME NEW k \in 1 .. m + 1, NEW j \in 1 .. stack'[k].i - 1
               PROVE  LeadsOn(k, j, D)'
    BY <1>5 DEF Behind
  <2>1. k \in 1 .. m /\ k < m + 1
    BY <1>3, <1>5
  <2>2. PICK x, L : x = stack[k].node /\ L = out[x]
    OBVIOUS
  <2>3. /\ j \in DOMAIN L
        /\ \/ fast[L[j]].head \in D
           \/ fast[L[j]].head = stack'[k + 1].node
    <3>1. CASE k = m /\ j = i
      BY <1>3, <1>5, <2>2, <3>1 DEF Joins
    <3>2. CASE ~(k = m /\ j = i)
      <4>1. stack[k].i \in Nat
        BY <1>3, <2>1, TopIs DEF Shape
      <4>2. j \in 1 .. stack[k].i - 1
        BY <1>3, <1>4, <1>5, <2>1, <3>2, <4>1
      <4>3. LeadsOn(k, j, D)
        BY <1>1, <1>3, <2>1, <4>2 DEF Behind
      <4>4. k < m => stack'[k + 1].node = stack[k + 1].node
        BY <1>3, <1>4, <1>5
      <4> QED BY <1>2, <2>2, <4>3, <4>4 DEF LeadsOn
    <3> QED BY <3>1, <3>2
  <2>4. L = out'[stack'[k].node]
    BY <1>4, <1>5, <1>6, <2>1, <2>2
  <2> QED BY <1>5, <1>6, <2>1, <2>3, <2>4 DEF LeadsOn
<1> QED BY <1>8, <1>11, <1>12 DEF Walking

LEMMA DfsEdgeUnwound ==
  ASSUME Shape, Unwound, DfsEdge
  PROVE  Unwound'
<1>1. (\E C : Sided(C)') /\ Resting'
  BY SidedOn, RestingNext DEF Unwound, Next
<1>2. /\ job' = job /\ leader' = leader /\ comp' = comp /\ minset' = minset /\ maxset' = maxset
      /\ pc = "dfs" /\ pc' = pc /\ at' = at /\ stack # <<>>
  BY DEF DfsEdge, sets
<1>3. PICK D : Searched(D)
  BY <1>2 DEF Unwound
<1>4. Past(D) /\ Ahead(D, at + 1) /\ Walking(D) /\ Settled(fast, AllLive, D)
  BY <1>2, <1>3 DEF Searched
<1>5. Past(D)' /\ Ahead(D, at + 1)'
  BY <1>2, <1>4 DEF Past, Ahead
<1>6. PICK n : n = Last(stack).node
  OBVIOUS
<1>7. PICK e \in AllLive, w \in Leaders, i \in Nat \ {0} :
        /\ i = Last(stack).i /\ i \in 1 .. Len(out[n]) /\ e = out[n][i]
        /\ Joins(fast, e, n, w) /\ n \in Leaders /\ Followed(e, w, i)
  BY <1>6, FollowedIs
<1>8. PICK m : m = Len(stack)
  OBVIOUS
<1>9. m \in DOMAIN stack /\ DOMAIN stack = 1 .. m /\ stack[m].node = n /\ m \in Nat /\ stack \in Seq(Calls)
  BY <1>2, <1>6, <1>8, TopIs DEF Shape
<1>10. n \in Range(comp[at]) /\ n \notin D
  BY <1>4, <1>9 DEF Walking, Path
<1>11. fast[e].tail = n /\ fast[e].head = w /\ n # w /\ n \in Node /\ w \in Node
  BY <1>7, ProperNow DEF Joins, Proper
<1>12. i \in DOMAIN out[n]
  BY <1>7, <1>11, ListLen DEF Shape
<1>13. CASE w \in onstack /\ Set(Reversed(G, e)) /\ stack' = Step(i) /\ mark' = mark
  <2>1. Good(G, AllLive) /\ G.fast = fast
    BY GoodG DEF Shape
  <2>2. PICK h : h = Reversed(G, e)
    OBVIOUS
  <2>3. PICK B, f : GoodTurned(G, h, AllLive, B, e, f)
    BY <2>1, <2>2, GoodReversed
  <2>4. AllLive' = B /\ Set(h) /\ fast' = h.fast
    BY <1>2, <1>13, <2>2, <2>3, GoodNext DEF GoodTurned, Set
  <2>5. Parted'
    BY <1>2, <2>1, <2>3, <2>4, PartedTurned DEF Unwound
  <2>6. PICK k \in 1 .. m : stack[k].node = w
    BY <1>9, <1>13 DEF onstack
  <2>7. k \in 1 .. Len(stack) - 1 /\ m - 1 \in 1 .. Len(stack) - 1
    BY <1>8, <1>9, <1>11, <2>6
  <2>8. \A j \in 1 .. Len(stack) - 1 : \E d \in AllLive : Joins(fast, d, stack[j].node, stack[j + 1].node)
    BY <1>4 DEF Walking, Path
  <2>9. w # maxset
    <3>1. NoneFrom(fast, AllLive, maxset)
      BY <1>2 DEF Unwound, EndsFree
    <3> QED BY <2>6, <2>7, <2>8, <3>1 DEF NoneFrom, Joins
  <2>10. n # minset
    <3>1. NoneTo(fast, AllLive, minset)
      BY <1>2 DEF Unwound, EndsFree
    <3>2. m - 1 + 1 = m
      BY <1>9
    <3>3. \E d \in AllLive : Joins(fast, d, stack[m - 1].node, stack[m].node)
      BY <2>7, <2>8, <3>2
    <3> QED BY <1>9, <3>1, <3>3 DEF NoneTo, Joins
  <2>11. NoneFrom(fast', B, maxset) /\ NoneTo(fast', B, minset)
    <3>1. NoneFrom(fast, AllLive, maxset) /\ NoneTo(fast, AllLive, minset) /\ AllLive \subseteq DOMAIN fast
      BY <1>2, ProperNow DEF Unwound, EndsFree
    <3> QED BY <1>11, <2>1, <2>3, <2>4, <2>9, <2>10, <3>1, FreeTurned
  <2>12. EndsFree'
    BY <1>2, <2>4, <2>11 DEF EndsFree
  <2>13. Settled(fast', B, D)
    <3>1. w \notin D
      BY <1>4, <1>9, <2>6 DEF Walking, Path
    <3>2. /\ B = (AllLive \ {e}) \cup {f} /\ AllLive \subseteq DOMAIN fast /\ Extends(fast, fast')
          /\ Joins(fast', f, w, n)
      BY <1>11, <2>1, <2>3, <2>4, ProperNow DEF GoodTurned, Turned
    <3>3. \A d \in B : fast'[d].tail \in D => d \in AllLive /\ fast'[d].tail = fast[d].tail /\ fast'[d].head = fast[d].head
      BY <3>1, <3>2 DEF Extends, Joins
    <3> QED BY <1>4, <3>3, SettledSame
  <2>14. Settled(fast, AllLive, D)'
    BY <1>2, <2>4, <2>13 DEF Settled, Down, Node
  <2>15. OutKept(n, i)
    BY <1>7, <1>11, <2>3, <2>4, OutKeptIs DEF OutAt
  <2>16. Stepped(i)
    BY <1>2, <1>9, <1>13, SteppedIs
  <2>17. Walking(D)'
    BY <1>2, <1>4, <1>6, <1>7, <1>11, <1>13, <2>3, <2>4, <2>15, <2>16, WalkingTurned
  <2>18. Searched(D)'
    BY <1>2, <1>5, <2>14, <2>17 DEF Searched
  <2> QED BY <1>1, <1>2, <2>5, <2>12, <2>18 DEF Unwound
<1>14. CASE /\ w \notin onstack /\ UNCHANGED fastgraph
            /\ \/ mark[w] = 0 /\ Call(w, Step(i + 1))
               \/ mark[w] # 0 /\ stack' = Step(i + 1) /\ mark' = mark
  <2>1. Parted' /\ Parted
    BY <1>2, <1>14, PartedSame DEF Unwound
  <2>2. EndsFree'
    BY <1>2, <1>14, SettledKept DEF EndsFree, Unwound
  <2>3. Settled(fast, AllLive, D)'
    BY <1>2, <1>4, <1>14, SettledKept
  <2>4. w \in Range(comp[at])
    BY <1>2, <1>7, <1>10, <1>11, <2>1, EdgeInside
  <2>5. i + 1 \in Nat \ {0} /\ Step(i + 1) \in Seq(Calls)
    BY <1>2, <1>9, StepIs
  <2>6. Walking(D)'
    <3>1. CASE mark[w] = 0 /\ Call(w, Step(i + 1))
      <4>1. Range(comp[at]) \subseteq Node
        BY <1>2 DEF Shape, Range
      <4>2. PICK s : s = Step(i + 1)
        OBVIOUS
      <4> QED BY <1>2, <1>4, <1>6, <1>7, <1>11, <1>12, <1>14, <2>4, <2>5, <3>1, <4>1, <4>2, WalkingCalled
    <3>2. CASE mark[w] # 0 /\ stack' = Step(i + 1) /\ mark' = mark
      <4>1. w \in D
        BY <1>4, <1>14, <2>4, <3>2 DEF Walking, Seen
      <4>2. Stepped(i + 1)
        BY <1>2, <1>9, <2>5, <3>2, SteppedIs
      <4> QED BY <1>2, <1>4, <1>6, <1>7, <1>11, <1>12, <1>14, <3>2, <4>1, <4>2, WalkingOn
    <3> QED BY <1>14, <3>1, <3>2
  <2>7. Searched(D)'
    BY <1>2, <1>5, <2>3, <2>6 DEF Searched
  <2> QED BY <1>1, <1>2, <2>1, <2>2, <2>7 DEF Unwound
<1> QED BY <1>7, <1>13, <1>14 DEF Followed

LEMMA AcyclicDoneUnwound ==
  ASSUME Shape, Unwound, AcyclicDone
  PROVE  Unwound'
<1>1. (\E C : Sided(C)') /\ Resting'
  BY SidedOn, RestingNext DEF Unwound, Next
<1>2. /\ job' = job /\ leader' = leader /\ UNCHANGED fastgraph /\ minset' = minset /\ maxset' = maxset
      /\ pc = "acyclic" /\ pc' = "minmax2" /\ at > Len(comp)
  BY DEF AcyclicDone, sets
<1>3. PICK D : Searched(D)
  BY <1>2 DEF Unwound
<1>4. \A e \in AllLive : fast[e].tail \in D
  <2> TAKE e \in AllLive
  <2>1. PICK c \in DOMAIN comp : fast[e].tail \in Range(comp[c])
    BY <1>2 DEF Unwound, Parted, Inside
  <2>2. c < at
    BY <1>2 DEF Shape
  <2> QED BY <1>3, <2>1, <2>2 DEF Searched, Past
<1>5. Settled(fast, AllLive, Node)
  BY <1>3, <1>4, ProperNow, SettledAll DEF Searched
<1>6. Settled(fast, AllLive, Node)'
  <2>1. PICK N : N = Node
    OBVIOUS
  <2>2. Settled(fast, AllLive, N)'
    BY <1>2, <1>5, <2>1, SettledKept
  <2> QED BY <1>2, <2>1, <2>2, SettledKept DEF Settled, Down
<1>7. EndsFree'
  BY <1>2, SettledKept DEF EndsFree, Unwound
<1> QED BY <1>1, <1>2, <1>6, <1>7 DEF Unwound

\* The edges that tie n to the ends keep the order and leave the ends free.
LEMMA TiedUnwound ==
  ASSUME Shape, NEW C, Sided(C), Settled(fast, AllLive, Node),
         NoneFrom(fast, AllLive, maxset), NoneTo(fast, AllLive, minset),
         NEW n \in Leaders, NEW h, NEW B, TiedSo(G, h, AllLive, B, n)
  PROVE  /\ Settled(h.fast, B, Node)
         /\ NoneFrom(h.fast, B, maxset) /\ NoneTo(h.fast, B, minset)
<1>1. Proper(h.fast, B)
  BY ProperIs DEF TiedSo
<1>2. Proper(fast, AllLive) /\ AllLive \subseteq DOMAIN fast
  BY ProperNow
<1>3. minset # maxset \/ minset = NONE
  BY EndsApart
<1>4. \A e \in B : \/ e \in AllLive /\ h.fast[e].tail = fast[e].tail /\ h.fast[e].head = fast[e].head
                   \/ e \notin AllLive /\ maxset # NONE /\ h.fast[e].tail = n /\ h.fast[e].head = maxset
                   \/ e \notin AllLive /\ minset # NONE /\ h.fast[e].tail = minset /\ h.fast[e].head = n
  BY <1>2 DEF TiedSo, Grown, Joins, G
<1>5. Settled(h.fast, B, Node)
  <2>1. CASE minset = maxset
    <3>1. \A e \in B : e \in AllLive /\ h.fast[e].tail = fast[e].tail /\ h.fast[e].head = fast[e].head
      BY <1>3, <1>4, <2>1
    <3> QED BY <3>1, SettledSame
  <2>2. CASE minset # maxset
    BY <1>1, <1>2, <1>4, <2>2, SettledTied
  <2> QED BY <2>1, <2>2
<1>6. \A e \in B : h.fast[e].tail # maxset
  <2> SUFFICES ASSUME NEW e \in B PROVE h.fast[e].tail # maxset
    OBVIOUS
  <2>1. h.fast[e].tail # h.fast[e].head
    BY <1>1 DEF Proper
  <2> QED BY <1>3, <1>4, <2>1 DEF NoneFrom
<1>7. \A e \in B : h.fast[e].head # minset
  <2> SUFFICES ASSUME NEW e \in B PROVE h.fast[e].head # minset
    OBVIOUS
  <2>1. h.fast[e].tail # h.fast[e].head
    BY <1>1 DEF Proper
  <2> QED BY <1>3, <1>4, <2>1 DEF NoneTo
<1> QED BY <1>5, <1>6, <1>7 DEF NoneFrom, NoneTo

LEMMA Minmax2Unwound ==
  ASSUME Shape, Unwound, Minmax2
  PROVE  Unwound'
<1>1. (\E C : Sided(C)') /\ Resting'
  BY SidedOn, RestingNext DEF Unwound, Next
<1>2. /\ job' = job /\ leader' = leader /\ minset' = minset /\ maxset' = maxset
      /\ pc = "minmax2" /\ pc' = pc
  BY DEF Minmax2, sets
<1>3. PICK h, B : Minmax2So(h, B)
  BY Minmax2Is
<1>4. Settled(fast, AllLive, Node) /\ NoneFrom(fast, AllLive, maxset) /\ NoneTo(fast, AllLive, minset)
  BY <1>2 DEF Unwound, EndsFree
<1>5. Node' = Node
  BY <1>2 DEF Node
<1>6. CASE at \in Leaders /\ Set(h) /\ TiedSo(G, h, AllLive, B, at)
  <2>1. PICK n \in Leaders : TiedSo(G, h, AllLive, B, n)
    BY <1>6
  <2>2. /\ Settled(h.fast, B, Node)
        /\ NoneFrom(h.fast, B, maxset) /\ NoneTo(h.fast, B, minset)
    BY <1>4, <2>1, TiedUnwound DEF Unwound
  <2>3. AllLive' = B /\ fast' = h.fast
    BY <1>2, <1>6, GoodNext DEF TiedSo, Set
  <2>4. Settled(fast, AllLive, Node)'
    BY <1>5, <2>2, <2>3 DEF Settled, Down
  <2>5. EndsFree'
    BY <1>2, <2>2, <2>3 DEF EndsFree
  <2> QED BY <1>1, <1>2, <2>4, <2>5 DEF Unwound
<1>7. CASE UNCHANGED fastgraph
  <2>1. PICK N : N = Node
    OBVIOUS
  <2>2. Settled(fast, AllLive, N)'
    BY <1>2, <1>4, <1>7, <2>1, SettledKept
  <2>3. Settled(fast, AllLive, Node)'
    BY <1>5, <2>1, <2>2
  <2>4. EndsFree'
    BY <1>2, <1>7, SettledKept DEF EndsFree, Unwound
  <2> QED BY <1>1, <1>2, <2>3, <2>4 DEF Unwound
<1> QED BY <1>3, <1>6, <1>7 DEF Minmax2So

LEMMA LateUnwound ==
  ASSUME Shape, Unwound, SecondDecompose \/ RankComponent \/ Expand
  PROVE  Unwound'
<1>1. (\E C : Sided(C)') /\ Resting'
  BY SidedOn, RestingNext DEF Unwound, Next
<1>2. /\ job' = job /\ leader' = leader /\ UNCHANGED fastgraph /\ minset' = minset /\ maxset' = maxset
      /\ pc \in {"minmax2", "rank"} /\ pc' \in {"rank", "trouble", "done"}
  <2>1. CASE SecondDecompose
    BY <2>1 DEF SecondDecompose, sets
  <2>2. CASE RankComponent
    <3>1. pc = "rank" /\ pc' \in {"rank", "trouble"} /\ UNCHANGED <<job, sets, fastgraph>>
      BY <2>2 DEF RankComponent
    <3> QED BY <3>1 DEF sets
  <2>3. CASE Expand
    BY <2>3 DEF Expand, sets
  <2> QED BY <2>1, <2>2, <2>3
<1>3. PICK N : N = Node
  OBVIOUS
<1>4. Settled(fast, AllLive, N)'
  BY <1>2, <1>3, SettledKept DEF Unwound
<1>5. Settled(fast, AllLive, Node)'
  BY <1>2, <1>3, <1>4, SettledKept DEF Settled, Down
<1>6. EndsFree'
  BY <1>2 DEF EndsFree
<1> QED BY <1>1, <1>2, <1>5, <1>6 DEF Unwound

LEMMA StutterUnwound ==
  ASSUME Shape, Unwound, UNCHANGED vars
  PROVE  Unwound'
<1>1. (\E C : Sided(C)') /\ Resting'
  BY SidedOn, RestingNext DEF Unwound
<1>2. /\ job' = job /\ leader' = leader /\ UNCHANGED fastgraph /\ minset' = minset /\ maxset' = maxset
      /\ pc' = pc /\ at' = at /\ comp' = comp /\ stack' = stack /\ mark' = mark
  BY DEF vars, fastgraph
<1>3. EndsFree'
  BY <1>2, SettledKept DEF EndsFree, Unwound
<1>4. Parted => Parted'
  BY <1>2, PartedSame
<1>5. ASSUME NEW D, Searched(D) PROVE Searched(D)'
  <2>1. fast' = fast /\ out' = out /\ AllLive' = AllLive /\ Settled(fast, AllLive, D)'
    BY <1>2, <1>5, SettledKept DEF Searched
  <2>2. Walking(D) => Walking(D)'
    BY <1>2, <2>1 DEF Walking, Path, Seen, Behind, LeadsOn, onstack
  <2>3. Past(D)' /\ (Ahead(D, at) => Ahead(D, at)') /\ (Ahead(D, at + 1) => Ahead(D, at + 1)')
    BY <1>2, <1>5 DEF Searched, Past, Ahead
  <2> QED BY <1>2, <1>5, <2>1, <2>2, <2>3 DEF Searched
<1>6. Settled(fast, AllLive, Node) => Settled(fast, AllLive, Node)'
  BY <1>2, SettledKept DEF Settled, Down
<1> QED BY <1>1, <1>2, <1>3, <1>4, <1>5, <1>6 DEF Unwound

LEMMA UnwoundInit ==
  ASSUME Separable, Init
  PROVE  Unwound
<1>1. /\ pc = "collapse" /\ leader = [n \in Node |-> n] /\ minset = NONE /\ maxset = NONE
      /\ mark = [n \in Node |-> 0] /\ stack = <<>> /\ job \in Jobs
  BY DEF Init, Node
<1>2. PICK C \in SUBSET Node : Separates(job, C)
  BY <1>1 DEF Separable, Node
<1>3. Sided(C)
  BY <1>1, <1>2, NodeNat DEF Sided, Sides
<1> QED BY <1>1, <1>3 DEF Unwound, Resting, EndsFree

LEMMA UnwoundNext == ASSUME Shape, Unwound, [Next]_vars PROVE Unwound'
<1>1. Shape'
  BY ShapeNext
<1> QED
  BY <1>1, EarlyUnwound, MaxsetDoneUnwound, MinsetReverseUnwound, FirstDecomposeUnwound, BeginUnwound,
     DfsRootUnwound, DfsEdgeUnwound, DfsReturnUnwound, AcyclicDoneUnwound, Minmax2Unwound, LateUnwound,
     StutterUnwound
     DEF Next

\* The search of acyclic leaves no cycle among the edges of the fast graph, although it
\* changes the lists that it walks, and minmax_edges2 closes none, in a graph where no
\* chain of rank sets with common nodes leads from a least set to a greatest one.
THEOREM CyclesBroken ==
  ASSUME Separable
  PROVE  Spec => []AcyclicGiven
<1>1. Init => Shape /\ Unwound
  BY ShapeInit, UnwoundInit
<1>2. Shape /\ Unwound /\ [Next]_vars => Shape' /\ Unwound'
  BY ShapeNext, UnwoundNext
<1>3. Shape /\ Unwound => AcyclicGiven
  BY NotCyclic DEF Unwound, AcyclicGiven, Shape
<1> QED BY <1>1, <1>2, <1>3, PTL DEF Spec

-----------------------------------------------------------------------------
(* The sum of the weights of a set of edges.                                *)

\* The sum of the weights of the edges in S, where E[d] is edge d.
Total(E, S) == MapThenSumSet(LAMBDA d : E[d].weight, S)

One(s) == CHOOSE d \in s : TRUE

\* g is the sum of each subset of S.
Sums(g, E, S) ==
  g = [s \in SUBSET S |-> IF s = {} THEN 0 ELSE E[One(s)].weight + g[s \ {One(s)}]]

SumsAt(g, E, s) == g[s] = IF s = {} THEN 0 ELSE E[One(s)].weight + g[s \ {One(s)}]

LEMMA TotalIs == ASSUME NEW E, NEW S PROVE Total(E, S) = (CHOOSE g : Sums(g, E, S))[S]
BY DEF Total, MapThenSumSet, MapThenFoldSet, Sums, One

LEMMA OneIn == ASSUME NEW s, s # {} PROVE One(s) \in s
BY DEF One

LEMMA OneLess ==
  ASSUME NEW s, IsFiniteSet(s), NEW x \in s
  PROVE  /\ IsFiniteSet(s \ {x}) /\ Cardinality(s \ {x}) \in Nat /\ Cardinality(s) \in Nat
         /\ Cardinality(s \ {x}) = Cardinality(s) - 1
BY FS_RemoveElement, FS_CardinalityType

\* What holds of a subset when it holds of all smaller ones holds of all.
LEMMA SubsetsAll ==
  ASSUME NEW S, IsFiniteSet(S), NEW Q,
         \A s \in SUBSET S :
            (\A t \in SUBSET S : Cardinality(t) < Cardinality(s) => t \in Q) => s \in Q
  PROVE  SUBSET S \subseteq Q
<1> DEFINE T == {Cardinality(s) : s \in (SUBSET S) \ Q}
<1> SUFFICES ASSUME (SUBSET S) \ Q # {} PROVE FALSE
  OBVIOUS
<1>1. \A s \in SUBSET S : IsFiniteSet(s) /\ Cardinality(s) \in Nat
  BY FS_Subset, FS_CardinalityType
<1>2. T \in SUBSET Nat /\ T # {}
  BY <1>1
<1>3. PICK n \in T : \A m \in T : n <= m
  <2> HIDE DEF T
  <2> QED BY <1>2, NatLeast
<1>4. PICK s \in (SUBSET S) \ Q : n = Cardinality(s)
  BY <1>3
<1>5. ASSUME NEW t \in SUBSET S, Cardinality(t) < Cardinality(s) PROVE t \in Q
  <2> SUFFICES ASSUME t \notin Q PROVE FALSE
    OBVIOUS
  <2>1. Cardinality(t) \in T
    OBVIOUS
  <2>2. Cardinality(s) <= Cardinality(t)
    BY <1>3, <1>4, <2>1
  <2> QED BY <1>1, <1>5, <2>2
<1> QED BY <1>4, <1>5

LEMMA SumsExist ==
  ASSUME NEW E, NEW S, IsFiniteSet(S)
  PROVE  \E g : Sums(g, E, S)
<1> DEFINE P == {m \in Nat : \E g : \A s \in SUBSET S : Cardinality(s) <= m => SumsAt(g, E, s)}
<1>1. \A s \in SUBSET S : IsFiniteSet(s) /\ Cardinality(s) \in Nat
  BY FS_Subset, FS_CardinalityType
<1>2. ASSUME NEW m \in Nat, \A k \in Nat : k < m => k \in P PROVE m \in P
  <2>1. PICK g : \A s \in SUBSET S : Cardinality(s) < m => SumsAt(g, E, s)
    <3>1. CASE m = 0
      BY <1>1, <3>1
    <3>2. CASE m # 0
      <4>1. m - 1 \in P
        BY <1>2, <3>2
      <4>2. PICK g : \A s \in SUBSET S : Cardinality(s) <= m - 1 => SumsAt(g, E, s)
        BY <4>1
      <4>3. \A s \in SUBSET S : Cardinality(s) < m => Cardinality(s) <= m - 1
        BY <1>1
      <4> QED BY <4>2, <4>3
    <3> QED BY <3>1, <3>2
  <2>2. PICK h : h = [s \in SUBSET S |-> IF s = {} THEN 0 ELSE E[One(s)].weight + g[s \ {One(s)}]]
    OBVIOUS
  <2>3. ASSUME NEW s \in SUBSET S, Cardinality(s) <= m PROVE SumsAt(h, E, s)
    <3>1. CASE s = {}
      BY <2>2, <3>1 DEF SumsAt
    <3>2. CASE s # {}
      <4>1. PICK t : t = s \ {One(s)}
        OBVIOUS
      <4>2. t \in SUBSET S /\ Cardinality(t) < m
        <5>1. Cardinality(t) = Cardinality(s) - 1 /\ Cardinality(s) \in Nat
          BY <1>1, <3>2, <4>1, OneIn, OneLess
        <5> QED BY <2>3, <4>1, <5>1
      <4>3. SumsAt(g, E, t)
        BY <2>1, <4>2
      <4>4. h[t] = g[t]
        BY <2>2, <4>2, <4>3 DEF SumsAt
      <4>5. h[s] = E[One(s)].weight + g[t]
        BY <2>2, <3>2, <4>1
      <4> QED BY <3>2, <4>1, <4>4, <4>5 DEF SumsAt
    <3> QED BY <3>1, <3>2
  <2> QED BY <2>3
<1>3. P = Nat
  <2>1. P \in SUBSET Nat
    OBVIOUS
  <2> HIDE DEF P
  <2> QED BY <1>2, <2>1, NatComplete
<1>4. PICK g : \A s \in SUBSET S : Cardinality(s) <= Cardinality(S) => SumsAt(g, E, s)
  <2>1. Cardinality(S) \in P
    BY <1>1, <1>3
  <2> QED BY <2>1
<1>5. PICK h : h = [s \in SUBSET S |-> g[s]]
  OBVIOUS
<1>6. ASSUME NEW s \in SUBSET S
      PROVE  h[s] = IF s = {} THEN 0 ELSE E[One(s)].weight + h[s \ {One(s)}]
  <2>1. Cardinality(s) <= Cardinality(S)
    BY FS_Subset
  <2>2. SumsAt(g, E, s) /\ s \ {One(s)} \in SUBSET S
    BY <1>4, <2>1
  <2> QED BY <1>5, <2>2 DEF SumsAt
<1>7. Sums(h, E, S)
  <2>1. h = [s \in SUBSET S |-> h[s]]
    BY <1>5
  <2> QED BY <1>6, <2>1 DEF Sums
<1> QED BY <1>7

\* Weights of the edges in S.
Weighed(E, S) == IsFiniteSet(S) /\ \A d \in S : E[d].weight \in Nat

LEMMA SumsAre ==
  ASSUME NEW E, NEW S, Weighed(E, S), NEW g, Sums(g, E, S)
  PROVE  /\ \A s \in SUBSET S : g[s] \in Nat /\ SumsAt(g, E, s)
         /\ \A s \in SUBSET S : \A x \in s : g[s] = E[x].weight + g[s \ {x}]
<1>1. \A s \in SUBSET S : IsFiniteSet(s) /\ Cardinality(s) \in Nat
  BY FS_Subset, FS_CardinalityType DEF Weighed
<1>2. \A s \in SUBSET S : SumsAt(g, E, s)
  <2>1. PICK h : h = [s \in SUBSET S |-> IF s = {} THEN 0 ELSE E[One(s)].weight + g[s \ {One(s)}]]
    OBVIOUS
  <2>2. g = h
    BY <2>1 DEF Sums
  <2>3. ASSUME NEW s \in SUBSET S PROVE SumsAt(g, E, s)
    <3>1. h[s] = IF s = {} THEN 0 ELSE E[One(s)].weight + g[s \ {One(s)}]
      BY <2>1
    <3> QED BY <2>2, <3>1 DEF SumsAt
  <2> QED BY <2>3
<1>3. \A s \in SUBSET S : g[s] \in Nat
  <2>1. PICK Q : Q = {s \in SUBSET S : g[s] \in Nat}
    OBVIOUS
  <2>2. ASSUME NEW s \in SUBSET S, \A t \in SUBSET S : Cardinality(t) < Cardinality(s) => t \in Q
        PROVE  s \in Q
    <3>1. CASE s = {}
      <4>1. SumsAt(g, E, s)
        BY <1>2
      <4>2. g[s] = 0
        BY <3>1, <4>1 DEF SumsAt
      <4> QED BY <2>1, <4>2
    <3>2. CASE s # {}
      <4>1. PICK t, x : x = One(s) /\ t = s \ {x}
        OBVIOUS
      <4>2. x \in s /\ t \in SUBSET S /\ E[x].weight \in Nat
        BY <3>2, <4>1, OneIn DEF Weighed
      <4>3. Cardinality(t) < Cardinality(s)
        <5>1. Cardinality(t) = Cardinality(s) - 1 /\ Cardinality(s) \in Nat
          BY <1>1, <4>1, <4>2, OneLess
        <5> QED BY <5>1
      <4>4. g[t] \in Nat
        BY <2>1, <2>2, <4>2, <4>3
      <4>5. g[s] = E[x].weight + g[t]
        BY <1>2, <3>2, <4>1 DEF SumsAt
      <4> QED BY <2>1, <4>2, <4>4, <4>5
    <3> QED BY <3>1, <3>2
  <2>3. SUBSET S \subseteq Q
    BY <2>2, SubsetsAll DEF Weighed
  <2> QED BY <2>1, <2>3
<1>4. \A s \in SUBSET S : \A x \in s : g[s] = E[x].weight + g[s \ {x}]
  <2>1. PICK Q : Q = {s \in SUBSET S : \A x \in s : g[s] = E[x].weight + g[s \ {x}]}
    OBVIOUS
  <2>2. ASSUME NEW s \in SUBSET S, \A t \in SUBSET S : Cardinality(t) < Cardinality(s) => t \in Q
        PROVE  s \in Q
    <3> SUFFICES ASSUME NEW x \in s PROVE g[s] = E[x].weight + g[s \ {x}]
      BY <2>1
    <3>1. PICK c : c = One(s)
      OBVIOUS
    <3>2. c \in s
      BY <3>1, OneIn
    <3>3. g[s] = E[c].weight + g[s \ {c}]
      BY <1>2, <3>1 DEF SumsAt
    <3>4. CASE x = c
      BY <3>3, <3>4
    <3>5. CASE x # c
      <4>1. PICK t, u, v : t = s \ {c} /\ u = s \ {x} /\ v = t \ {x}
        OBVIOUS
      <4>2. v = u \ {c} /\ t \in SUBSET S /\ u \in SUBSET S /\ v \in SUBSET S /\ x \in t /\ c \in u
        BY <3>2, <3>5, <4>1
      <4>3. Cardinality(t) < Cardinality(s) /\ Cardinality(u) < Cardinality(s)
        <5>1. /\ Cardinality(t) = Cardinality(s) - 1 /\ Cardinality(s) \in Nat
              /\ Cardinality(u) = Cardinality(s) - 1
          BY <1>1, <3>2, <4>1, OneLess
        <5> QED BY <5>1
      <4>4. t \in Q /\ u \in Q
        BY <2>2, <4>2, <4>3
      <4>5. g[t] = E[x].weight + g[v] /\ g[u] = E[c].weight + g[v]
        BY <2>1, <4>1, <4>2, <4>4
      <4>6. E[x].weight \in Nat /\ E[c].weight \in Nat /\ g[v] \in Nat
        BY <1>3, <3>2, <4>2 DEF Weighed
      <4> QED BY <3>3, <4>1, <4>5, <4>6
    <3> QED BY <3>4, <3>5
  <2>3. SUBSET S \subseteq Q
    BY <2>2, SubsetsAll DEF Weighed
  <2> QED BY <2>1, <2>3
<1> QED BY <1>2, <1>3, <1>4

\* The sums of a set and of a greater one agree.
SumsAll(g, E, S) == \A s \in SUBSET S : SumsAt(g, E, s)

LEMMA SumsAgree ==
  ASSUME NEW E, NEW S, NEW T \in SUBSET S, IsFiniteSet(S),
         NEW g, NEW h, SumsAll(g, E, S), SumsAll(h, E, T)
  PROVE  g[T] = h[T]
<1>1. \A s \in SUBSET T : s \in SUBSET S /\ IsFiniteSet(s) /\ Cardinality(s) \in Nat
  BY FS_Subset, FS_CardinalityType
<1>2. PICK Q : Q = {s \in SUBSET T : g[s] = h[s]}
  OBVIOUS
<1>3. ASSUME NEW s \in SUBSET T, \A t \in SUBSET T : Cardinality(t) < Cardinality(s) => t \in Q
      PROVE  s \in Q
  <2>1. SumsAt(g, E, s) /\ SumsAt(h, E, s)
    BY <1>1 DEF SumsAll
  <2>2. CASE s = {}
    BY <1>2, <2>1, <2>2 DEF SumsAt
  <2>3. CASE s # {}
    <3>1. PICK t : t = s \ {One(s)}
      OBVIOUS
    <3>2. Cardinality(t) < Cardinality(s)
      <4>1. Cardinality(t) = Cardinality(s) - 1 /\ Cardinality(s) \in Nat
        BY <1>1, <2>3, <3>1, OneIn, OneLess
      <4> QED BY <4>1
    <3>3. g[t] = h[t]
      BY <1>2, <1>3, <3>1, <3>2
    <3> QED BY <1>2, <2>1, <2>3, <3>1, <3>3 DEF SumsAt
  <2> QED BY <2>2, <2>3
<1>4. IsFiniteSet(T)
  BY FS_Subset
<1>5. SUBSET T \subseteq Q
  BY <1>3, <1>4, SubsetsAll
<1>6. T \in SUBSET T
  OBVIOUS
<1> QED BY <1>2, <1>5, <1>6

\* The sums of the subsets of S are their totals.
LEMMA TotalOf ==
  ASSUME NEW E, NEW S, Weighed(E, S), NEW g, Sums(g, E, S)
  PROVE  \A s \in SUBSET S : Total(E, s) = g[s]
<1> TAKE s \in SUBSET S
<1>1. Weighed(E, s)
  BY FS_Subset DEF Weighed
<1>2. PICK h : h = CHOOSE x : Sums(x, E, s)
  OBVIOUS
<1>3. Sums(h, E, s)
  BY <1>1, <1>2, SumsExist DEF Weighed
<1>4. Total(E, s) = h[s]
  BY <1>2, TotalIs
<1>5. SumsAll(h, E, s)
  BY <1>1, <1>3, SumsAre DEF SumsAll
<1>6. SumsAll(g, E, S)
  BY SumsAre DEF SumsAll
<1>7. g[s] = h[s]
  BY <1>5, <1>6, SumsAgree DEF Weighed
<1> QED BY <1>4, <1>7

LEMMA TotalNone == ASSUME NEW E PROVE Total(E, {}) = 0
<1>1. IsFiniteSet({}) /\ Weighed(E, {})
  BY FS_EmptySet DEF Weighed
<1>2. PICK g : Sums(g, E, {})
  BY <1>1, SumsExist
<1>3. Total(E, {}) = g[{}] /\ SumsAt(g, E, {})
  BY <1>1, <1>2, TotalOf, SumsAre
<1> QED BY <1>3 DEF SumsAt

LEMMA TotalWith ==
  ASSUME NEW E, NEW S, Weighed(E, S), NEW x \in S
  PROVE  Total(E, S) = E[x].weight + Total(E, S \ {x}) /\ Total(E, S) \in Nat
<1>1. PICK g : Sums(g, E, S)
  BY SumsExist DEF Weighed
<1>2. PICK t : t = S \ {x}
  OBVIOUS
<1>3. S \in SUBSET S /\ t \in SUBSET S
  BY <1>2
<1>4. Total(E, S) = g[S] /\ Total(E, t) = g[t]
  BY <1>1, <1>3, TotalOf
<1>5. g[S] = E[x].weight + g[t] /\ g[S] \in Nat
  BY <1>1, <1>2, <1>3, SumsAre
<1> QED BY <1>2, <1>4, <1>5

\* The total of two sets with no common member.
LEMMA TotalBoth ==
  ASSUME NEW E, NEW S, NEW T, Weighed(E, S), Weighed(E, T), S \cap T = {}
  PROVE  Total(E, S \cup T) = Total(E, S) + Total(E, T)
<1>1. PICK U : U = S \cup T
  OBVIOUS
<1>2. Weighed(E, U)
  BY <1>1, FS_Union DEF Weighed
<1>3. PICK g : Sums(g, E, U)
  BY <1>2, SumsExist DEF Weighed
<1>4. \A t \in SUBSET U : /\ Total(E, t) = g[t] /\ g[t] \in Nat /\ SumsAt(g, E, t)
                          /\ \A x \in t : g[t] = E[x].weight + g[t \ {x}]
  BY <1>2, <1>3, TotalOf, SumsAre
<1>5. PICK Q : Q = {t \in SUBSET T : g[S \cup t] = g[S] + g[t]}
  OBVIOUS
<1>6. ASSUME NEW t \in SUBSET T, \A u \in SUBSET T : Cardinality(u) < Cardinality(t) => u \in Q
      PROVE  t \in Q
  <2>1. CASE t = {}
    <3>1. g[t] = 0 /\ g[S] \in Nat /\ S \cup t = S
      BY <1>1, <1>4, <2>1 DEF SumsAt
    <3> QED BY <1>5, <3>1
  <2>2. CASE t # {}
    <3>1. PICK x \in t : TRUE
      BY <2>2
    <3>2. PICK u, v, w : u = t \ {x} /\ v = S \cup t /\ w = S \cup u
      OBVIOUS
    <3>3. u \in SUBSET T /\ u \in SUBSET U /\ v \in SUBSET U /\ w \in SUBSET U /\ w = v \ {x} /\ x \in v
      BY <1>1, <3>1, <3>2
    <3>4. Cardinality(u) < Cardinality(t)
      <4>1. IsFiniteSet(t)
        BY FS_Subset DEF Weighed
      <4>2. Cardinality(u) = Cardinality(t) - 1 /\ Cardinality(t) \in Nat
        BY <3>1, <3>2, <4>1, OneLess
      <4> QED BY <4>2
    <3>5. g[w] = g[S] + g[u]
      BY <1>5, <1>6, <3>2, <3>3, <3>4
    <3>6. g[v] = E[x].weight + g[w] /\ g[t] = E[x].weight + g[u]
      BY <1>1, <1>4, <3>1, <3>2, <3>3
    <3>7. E[x].weight \in Nat /\ g[S] \in Nat /\ g[u] \in Nat
      BY <1>1, <1>4, <3>1, <3>3 DEF Weighed
    <3>8. g[v] = g[S] + g[t]
      BY <3>5, <3>6, <3>7
    <3> QED BY <1>5, <3>2, <3>8
  <2> QED BY <2>1, <2>2
<1>7. SUBSET T \subseteq Q
  BY <1>6, SubsetsAll DEF Weighed
<1>8. T \in SUBSET T /\ T \in SUBSET U /\ S \in SUBSET U /\ U \in SUBSET U
  BY <1>1
<1>9. g[U] = g[S] + g[T]
  BY <1>1, <1>5, <1>7, <1>8
<1> QED BY <1>1, <1>4, <1>8, <1>9

-----------------------------------------------------------------------------
(* The lengths that are asked for.                                          *)

Before(e) == {d \in Edge : Earlier(d, e)}

Counts(e) == job.edge[e].constraint /\ leader[job.edge[e].tail] # leader[job.edge[e].head]

StoodBy(e, f) == fast[f].minlen >= job.edge[e].minlen /\ {fast[f].tail, fast[f].head} = Ends(e)

\* There is a live edge, as long as is asked for, for each edge that has had its turn.
Stands ==
  /\ pc = "collapse" => \A e \in Edge : virt[e] = NONE
  /\ \A e \in Stood : \E f \in AllLive : StoodBy(e, f)
  /\ pc = "class1" => \A e \in Edge : Counts(e) /\ Cardinality(Before(e)) < at - 1 => e \in Stood
  /\ pc \notin {"collapse", "class1"} => \A e \in Edge : Counts(e) => e \in Stood

LEMMA BeforeIs ==
  ASSUME JobOk, NEW e \in Edge
  PROVE  /\ IsFiniteSet(Before(e)) /\ Cardinality(Before(e)) \in Nat
         /\ Cardinality(Before(e)) < Len(job.edge)
         /\ \A d \in Before(e) : Cardinality(Before(d)) < Cardinality(Before(e))
<1>1. PICK n \in Nat : n = Len(job.edge)
  BY DEF JobOk
<1>2. Edge = 1 .. n
  BY <1>1 DEF Edge, JobOk
<1>3. PICK a \in Int, b \in Int : a = 1 /\ b = n
  OBVIOUS
<1>4. IsFiniteSet(Edge) /\ Cardinality(Edge) = n
  <2>1. IsFiniteSet(a .. b) /\ Cardinality(a .. b) = IF a > b THEN 0 ELSE b - a + 1
    BY FS_Interval
  <2>2. (IF a > b THEN 0 ELSE b - a + 1) = n
    BY <1>3
  <2> QED BY <1>2, <1>3, <2>1, <2>2
<1>5. \A d \in Edge : job.edge[d].tail \in Int /\ d \in Int
  <2> TAKE d \in Edge
  <2>1. job.edge[d].tail \in Node
    BY EdgeIs
  <2>2. job.edge[d].tail \in Nat
    BY <2>1, NodeNat
  <2>3. d \in Nat
    BY <1>2
  <2> QED BY <2>2, <2>3
<1>6. \A d \in Edge : Before(d) \subseteq Edge /\ d \notin Before(d)
  BY <1>5 DEF Before, Earlier
<1>7. \A d \in Edge : IsFiniteSet(Before(d)) /\ Cardinality(Before(d)) \in Nat
  BY <1>4, <1>6, FS_Subset, FS_CardinalityType
<1>8. Cardinality(Before(e)) < Cardinality(Edge)
  <2>1. Before(e) \in SUBSET Edge /\ Before(e) # Edge
    BY <1>6
  <2>2. Cardinality(Before(e)) <= Cardinality(Edge) /\ Cardinality(Before(e)) # Cardinality(Edge)
    BY <1>4, <2>1, FS_Subset
  <2> QED BY <1>4, <1>7, <2>2
<1>9. ASSUME NEW d \in Before(e) PROVE Cardinality(Before(d)) < Cardinality(Before(e))
  <2>1. d \in Edge /\ Earlier(d, e)
    BY DEF Before
  <2>2. Before(d) \subseteq Before(e)
    <3> SUFFICES ASSUME NEW c \in Edge, Earlier(c, d) PROVE Earlier(c, e)
      BY DEF Before
    <3> QED BY <1>5, <2>1 DEF Earlier
  <2>3. d \notin Before(d)
    BY <1>6, <2>1
  <2>4. Before(d) \in SUBSET Before(e) /\ Before(d) # Before(e)
    BY <2>2, <2>3
  <2>5. /\ Cardinality(Before(d)) <= Cardinality(Before(e))
        /\ Cardinality(Before(d)) # Cardinality(Before(e))
    BY <1>7, <2>4, FS_Subset
  <2> QED BY <1>7, <2>1, <2>5
<1> QED BY <1>1, <1>4, <1>7, <1>8, <1>9

LEMMA TurnOnce ==
  ASSUME JobOk, NEW d \in Edge, NEW e \in Edge, Cardinality(Before(d)) = Cardinality(Before(e))
  PROVE  d = e
<1>1. job.edge[d].tail \in Int /\ d \in Int /\ job.edge[e].tail \in Int /\ e \in Int
  <2>1. Edge \subseteq Nat
    BY DEF JobOk, Edge
  <2>2. job.edge[d].tail \in Node /\ job.edge[e].tail \in Node
    BY EdgeIs
  <2>3. job.edge[d].tail \in Nat /\ job.edge[e].tail \in Nat /\ d \in Nat /\ e \in Nat
    BY <2>1, <2>2, NodeNat
  <2> QED BY <2>3
<1>2. CASE d \in Before(e)
  <2>1. Cardinality(Before(d)) < Cardinality(Before(e)) /\ Cardinality(Before(d)) \in Nat
    BY <1>2, BeforeIs
  <2> QED BY <2>1
<1>3. CASE e \in Before(d)
  <2>1. Cardinality(Before(e)) < Cardinality(Before(d)) /\ Cardinality(Before(d)) \in Nat
    BY <1>3, BeforeIs
  <2> QED BY <2>1
<1>4. d \in Before(e) \/ e \in Before(d) \/ d = e
  BY <1>1 DEF Before, Earlier
<1> QED BY <1>2, <1>3, <1>4

\* A stood edge has its live edge still, when each live edge has one as long between its ends.
LEMMA StandsOn ==
  ASSUME Shape, job' = job, leader' = leader, \A e \in Stood : \E f \in AllLive : StoodBy(e, f),
         \A d \in AllLive : \E f \in AllLive' : /\ fast'[f].minlen >= fast[d].minlen /\ fast'[f].minlen \in Int
                                                /\ {fast'[f].tail, fast'[f].head} = {fast[d].tail, fast[d].head}
  PROVE  \A e \in Stood : \E f \in AllLive' : StoodBy(e, f)'
<1> TAKE e \in Stood
<1>1. PICK d \in AllLive : StoodBy(e, d)
  OBVIOUS
<1>2. PICK f \in AllLive' : /\ fast'[f].minlen >= fast[d].minlen /\ fast'[f].minlen \in Int
                            /\ {fast'[f].tail, fast'[f].head} = {fast[d].tail, fast[d].head}
  OBVIOUS
<1>3. e \in Edge /\ job.edge[e].minlen \in Nat
  BY EdgeIs DEF Stood, Shape
<1>4. fast[d].minlen \in Nat
  <2>1. Lists(G, Node, AllLive) /\ G.fast = fast
    BY DEF Shape, Graph, G
  <2> QED BY <2>1, ListsIs
<1>5. fast'[f].minlen >= job.edge[e].minlen
  BY <1>1, <1>2, <1>3, <1>4 DEF StoodBy
<1>6. Ends(e)' = Ends(e)
  BY DEF Ends
<1> QED BY <1>1, <1>2, <1>5, <1>6 DEF StoodBy

LEMMA LiveLength == Shape => \A d \in AllLive : fast[d].minlen \in Nat /\ d \in DOMAIN fast
<1> SUFFICES ASSUME Shape PROVE \A d \in AllLive : fast[d].minlen \in Nat /\ d \in DOMAIN fast
  OBVIOUS
<1>1. Lists(G, Node, AllLive) /\ G.fast = fast
  BY DEF Shape, Graph, G
<1> QED BY <1>1, ListsIs

LEMMA CollapseStands ==
  ASSUME Shape, Stands, CollapseRankset \/ CollapseDone
  PROVE  Stands'
<1>1. /\ job' = job /\ virt' = virt /\ pc = "collapse"
      /\ \/ pc' = "collapse"
         \/ pc' = "class1" /\ at' = 1
  BY DEF CollapseRankset, CollapseDone
<1>2. Edge' = Edge /\ Stood = {} /\ Stood' = {}
  BY <1>1 DEF Stands, Stood, Edge
<1>3. ASSUME pc' = "class1", NEW e \in Edge PROVE ~(Cardinality(Before(e))' < at' - 1)
  <2>1. Before(e)' = Before(e)
    BY <1>1 DEF Before, Earlier, Edge
  <2>2. Cardinality(Before(e)) \in Nat
    BY BeforeIs DEF Shape
  <2>3. at' = 1
    BY <1>1, <1>3
  <2> QED BY <2>1, <2>2, <2>3
<1> QED BY <1>1, <1>2, <1>3 DEF Stands

\* Where edges are turned round or added, in the end.
LEMMA TurnedStands ==
  ASSUME Shape, Stands, Shape', MaxsetReverse \/ MinsetReverse \/ DfsEdge \/ Minmax2
  PROVE  Stands'
<1>1. /\ job' = job /\ virt' = virt /\ leader' = leader /\ pc' = pc
      /\ pc \notin {"collapse", "class1"}
  BY DEF MaxsetReverse, MinsetReverse, DfsEdge, Minmax2, sets
<1>2. Edge' = Edge /\ Stood' = Stood /\ \A e \in Edge : Counts(e)' <=> Counts(e)
  BY <1>1 DEF Stood, Edge, Counts
<1>3. \A d \in AllLive : \E f \in AllLive' : /\ fast'[f].minlen >= fast[d].minlen /\ fast'[f].minlen \in Int
                                             /\ {fast'[f].tail, fast'[f].head} = {fast[d].tail, fast[d].head}
  <2>1. \A d \in AllLive : fast[d].minlen \in Nat /\ d \in DOMAIN fast
    BY LiveLength
  <2>2. \A d \in AllLive' : fast'[d].minlen \in Nat
    <3>1. (\A d \in AllLive : fast[d].minlen \in Nat /\ d \in DOMAIN fast)'
      BY LiveLength, PTL
    <3> QED BY <3>1
  <2>3. CASE UNCHANGED fastgraph
    <3>1. fast' = fast /\ AllLive' = AllLive
      BY <1>1, <2>3 DEF fastgraph, AllLive, Edges, Live, Node
    <3> QED BY <2>1, <3>1
  <2>4. ASSUME NEW e \in AllLive, Set(Reversed(G, e))
        PROVE  \A d \in AllLive : \E f \in AllLive' :
                 /\ fast'[f].minlen >= fast[d].minlen /\ fast'[f].minlen \in Int
                 /\ {fast'[f].tail, fast'[f].head} = {fast[d].tail, fast[d].head}
    <3>1. Good(G, AllLive) /\ G.fast = fast
      BY GoodG DEF Shape
    <3>2. PICK h : h = Reversed(G, e)
      OBVIOUS
    <3>3. PICK B, f : GoodTurned(G, h, AllLive, B, e, f)
      BY <3>1, <3>2, GoodReversed
    <3>4. AllLive' = B /\ fast' = h.fast
      BY <1>1, <2>4, <3>2, <3>3, GoodNext DEF GoodTurned, Set
    <3>5. /\ B = (AllLive \ {e}) \cup {f} /\ Joins(fast', f, fast[e].head, fast[e].tail)
          /\ Extends(fast, fast') /\ fast'[f].minlen >= fast[e].minlen
          /\ \A d \in DOMAIN fast : fast'[d].minlen >= fast[d].minlen
      BY <3>1, <3>3, <3>4 DEF GoodTurned, Turned, LongAfter
    <3> TAKE d \in AllLive
    <3>6. CASE d = e
      <4>1. f \in AllLive' /\ fast'[f].minlen \in Int
        BY <2>2, <3>4, <3>5
      <4>2. {fast'[f].tail, fast'[f].head} = {fast[d].tail, fast[d].head}
        BY <3>5, <3>6 DEF Joins
      <4> QED BY <3>5, <3>6, <4>1, <4>2
    <3>7. CASE d # e
      <4>1. d \in AllLive' /\ fast'[d].minlen \in Int /\ d \in DOMAIN fast
        BY <2>1, <2>2, <3>4, <3>5, <3>7
      <4>2. fast'[d].tail = fast[d].tail /\ fast'[d].head = fast[d].head /\ fast'[d].minlen >= fast[d].minlen
        BY <3>5, <4>1 DEF Extends
      <4> QED BY <4>1, <4>2
    <3> QED BY <3>6, <3>7
  <2>5. CASE MaxsetReverse \/ MinsetReverse
    <3>1. PICK e : Against(e)
      BY <2>5, AgainstIs
    <3> QED BY <2>4, <3>1 DEF Against
  <2>6. CASE DfsEdge
    <3>1. PICK e \in AllLive, w \in Leaders, i \in Nat \ {0} : Followed(e, w, i)
      BY <2>6, FollowedIs
    <3> QED BY <2>3, <2>4, <3>1 DEF Followed
  <2>7. CASE Minmax2
    <3>1. PICK h, B : Minmax2So(h, B)
      BY <2>7, Minmax2Is
    <3>2. CASE Set(h) /\ TiedSo(G, h, AllLive, B, at)
      <4>1. AllLive' = B /\ fast' = h.fast /\ G.fast = fast
        BY <1>1, <3>2, GoodNext DEF TiedSo, Set, G
      <4>2. \A d \in AllLive : d \in AllLive' /\ fast'[d] = fast[d]
        BY <2>1, <3>2, <4>1 DEF TiedSo, Grown
      <4> TAKE d \in AllLive
      <4> QED BY <2>1, <4>2
    <3> QED BY <2>3, <3>1, <3>2 DEF Minmax2So
  <2> QED BY <2>5, <2>6, <2>7
<1>4. \A e \in Stood : \E f \in AllLive' : StoodBy(e, f)'
  BY <1>1, <1>3, StandsOn DEF Stands
<1> QED BY <1>1, <1>2, <1>4 DEF Stands

LEMMA PlacedStands ==
  ASSUME Shape, Stands, Class1, Shape', NEW e \in Edge, Placed(e)
  PROVE  /\ \A d \in Edge : virt[d] # NONE => virt'[d] # NONE
         /\ Counts(e) => virt'[e] # NONE
         /\ \A d \in Edge : virt'[d] # NONE => \E f \in AllLive' : StoodBy(d, f)'
<1>1. job' = job /\ leader' = leader /\ virt \in [Edge -> Nat] /\ Edge' = Edge
  BY DEF Class1, sets, Shape, Edge
<1>2. PICK x, t, h : x = job.edge[e] /\ t = leader[x.tail] /\ h = leader[x.head]
  OBVIOUS
<1>3. x.minlen \in Nat /\ x.weight \in Nat /\ t \in Leaders /\ h \in Leaders /\ t \in Node /\ h \in Node
  BY <1>2, EdgeIs, LeaderIs DEF Shape
<1>4. PICK rep : rep = Find(G, t, h)
  OBVIOUS
<1>5. Good(G, AllLive) /\ G.fast = fast
  BY GoodG DEF Shape
<1>6. /\ rep = NONE => NoneJoins(fast, AllLive, t, h)
      /\ rep # NONE => rep \in AllLive /\ Joins(fast, rep, t, h)
  BY <1>3, <1>4, <1>5, FindIs DEF Good
<1>7. \A d \in AllLive : fast[d].minlen \in Nat /\ d \in DOMAIN fast
  BY LiveLength
<1>8. \A d \in AllLive' : fast'[d].minlen \in Nat
  <2>1. (\A d \in AllLive : fast[d].minlen \in Nat /\ d \in DOMAIN fast)'
    BY LiveLength, PTL
  <2> QED BY <2>1
<1>9. Ends(e)' = {t, h} /\ (Counts(e) => x.constraint /\ t # h)
  BY <1>1, <1>2 DEF Ends, Counts
<1>10. ASSUME \A d \in AllLive : /\ d \in AllLive' /\ fast'[d].minlen >= fast[d].minlen
                                 /\ fast'[d].tail = fast[d].tail /\ fast'[d].head = fast[d].head
       PROVE  \A d \in Stood : \E f \in AllLive' : StoodBy(d, f)'
  <2>1. \A d \in AllLive : \E f \in AllLive' : /\ fast'[f].minlen >= fast[d].minlen /\ fast'[f].minlen \in Int
                                               /\ {fast'[f].tail, fast'[f].head} = {fast[d].tail, fast[d].head}
    <3> TAKE d \in AllLive
    <3>1. d \in AllLive' /\ fast'[d].minlen \in Int
      BY <1>8, <1>10
    <3> QED BY <1>10, <3>1
  <2> QED BY <1>1, <2>1, StandsOn DEF Stands
<1>11. CASE (~x.constraint \/ t = h) /\ UNCHANGED <<fastgraph, virt>>
  <2>1. virt' = virt /\ fast' = fast /\ AllLive' = AllLive
    BY <1>1, <1>11 DEF fastgraph, AllLive, Edges, Live, Node
  <2>2. \A d \in Stood : \E f \in AllLive' : StoodBy(d, f)'
    BY <1>7, <1>10, <2>1
  <2> QED BY <1>9, <1>11, <2>1, <2>2 DEF Stood
<1>12. CASE rep # NONE /\ Set(Merge(G, x.minlen, x.weight, rep)) /\ virt' = [virt EXCEPT ![e] = rep]
  <2>1. PICK g : g = Merge(G, x.minlen, x.weight, rep)
    OBVIOUS
  <2>2. Good(g, AllLive) /\ SameEnds(fast, g.fast)
    BY <1>3, <1>5, <2>1, GoodMerge
  <2>3. \A d \in DOMAIN fast : g.fast[d].minlen >= fast[d].minlen /\ (d = rep => g.fast[d].minlen >= x.minlen)
    <3>1. Lists(G, Node, AllLive) /\ G.fast = fast
      BY <1>5 DEF Good
    <3> QED BY <1>3, <2>1, <3>1, MergeLong
  <2>4. AllLive' = AllLive /\ fast' = g.fast
    BY <1>1, <1>12, <2>1, <2>2, GoodNext DEF Set
  <2>5. \A d \in Stood : \E f \in AllLive' : StoodBy(d, f)'
    <3>1. \A d \in AllLive : /\ d \in AllLive' /\ fast'[d].minlen >= fast[d].minlen
                             /\ fast'[d].tail = fast[d].tail /\ fast'[d].head = fast[d].head
      BY <1>7, <2>2, <2>3, <2>4 DEF SameEnds
    <3> QED BY <1>10, <3>1
  <2>6. rep \in AllLive' /\ StoodBy(e, rep)'
    <3>1. rep \in AllLive /\ rep \in DOMAIN fast /\ fast'[rep].minlen >= x.minlen
      BY <1>6, <1>7, <1>12, <2>3, <2>4
    <3>2. {fast'[rep].tail, fast'[rep].head} = {t, h}
      BY <1>6, <1>12, <2>2, <2>4, <3>1 DEF Joins, SameEnds
    <3> QED BY <1>1, <1>2, <1>9, <2>4, <3>1, <3>2 DEF StoodBy
  <2>7. virt'[e] = rep /\ \A d \in Edge : d # e => virt'[d] = virt[d]
    BY <1>1, <1>12
  <2>8. \A d \in Edge : virt'[d] # NONE => \E f \in AllLive' : StoodBy(d, f)'
    BY <2>5, <2>6, <2>7 DEF Stood
  <2> QED BY <1>12, <2>7, <2>8
<1>13. CASE /\ t # h /\ rep = NONE /\ Set(Add(G, t, h, x.minlen, x.weight))
            /\ virt' = [virt EXCEPT ![e] = Len(fast) + 1]
  <2>1. PICK g, n : g = Add(G, t, h, x.minlen, x.weight) /\ n = Len(fast) + 1
    OBVIOUS
  <2>2. Good(g, AllLive \cup {n}) /\ Grown(fast, g.fast) /\ Joins(g.fast, n, t, h) /\ g.fast[n].minlen = x.minlen
    <3>1. Good(g, AllLive \cup {n}) /\ Grown(fast, g.fast) /\ Joins(g.fast, n, t, h)
      BY <1>3, <1>5, <1>6, <1>13, <2>1, GoodAdd
    <3>2. g.fast[n].minlen = x.minlen
      BY <1>3, <1>5, <1>13, <2>1, AddLong
    <3> QED BY <3>1, <3>2
  <2>3. AllLive' = AllLive \cup {n} /\ fast' = g.fast
    BY <1>1, <1>13, <2>1, <2>2, GoodNext DEF Set
  <2>4. \A d \in Stood : \E f \in AllLive' : StoodBy(d, f)'
    <3>1. \A d \in AllLive : /\ d \in AllLive' /\ fast'[d].minlen >= fast[d].minlen
                             /\ fast'[d].tail = fast[d].tail /\ fast'[d].head = fast[d].head
      BY <1>7, <2>2, <2>3 DEF Grown
    <3> QED BY <1>10, <3>1
  <2>5. n \in AllLive' /\ StoodBy(e, n)'
    <3>1. {fast'[n].tail, fast'[n].head} = {t, h} /\ fast'[n].minlen >= x.minlen
      BY <1>3, <2>2, <2>3 DEF Joins
    <3> QED BY <1>1, <1>2, <1>9, <2>3, <3>1 DEF StoodBy
  <2>6. n # NONE
    <3>1. Len(fast) \in Nat
      BY <1>5, ListsIs DEF Good
    <3> QED BY <2>1, <3>1 DEF NONE
  <2>7. virt'[e] = n /\ \A d \in Edge : d # e => virt'[d] = virt[d]
    BY <1>1, <1>13, <2>1
  <2>8. \A d \in Edge : virt'[d] # NONE => \E f \in AllLive' : StoodBy(d, f)'
    BY <2>4, <2>5, <2>7 DEF Stood
  <2> QED BY <2>6, <2>7, <2>8
<1> QED BY <1>2, <1>4, <1>11, <1>12, <1>13 DEF Placed

LEMMA Class1Stands ==
  ASSUME Shape, Stands, Class1, Shape'
  PROVE  Stands'
<1>1. job' = job /\ leader' = leader /\ Edge' = Edge /\ pc = "class1" /\ pc' = pc /\ at' = at + 1 /\ at \in Nat
  BY DEF Class1, sets, Shape, Edge
<1>2. PICK e \in Edge : Turn(e) /\ Placed(e)
  BY PlacedIs
<1>3. /\ \A d \in Edge : virt[d] # NONE => virt'[d] # NONE
      /\ Counts(e) => virt'[e] # NONE
      /\ \A d \in Edge : virt'[d] # NONE => \E f \in AllLive' : StoodBy(d, f)'
  BY <1>2, PlacedStands
<1>4. \A d \in Edge : Before(d)' = Before(d) /\ (Counts(d)' <=> Counts(d)) /\ (d \in Stood' <=> virt'[d] # NONE)
  BY <1>1 DEF Before, Earlier, Counts, Stood, Edge
<1>5. ASSUME NEW d \in Edge, Counts(d), Cardinality(Before(d)) < at' - 1 PROVE virt'[d] # NONE
  <2>1. Cardinality(Before(d)) \in Nat
    BY BeforeIs DEF Shape
  <2>2. Cardinality(Before(e)) = at - 1
    BY <1>2 DEF Turn, Before
  <2>3. CASE Cardinality(Before(d)) < at - 1
    <3>1. d \in Stood
      BY <1>1, <1>5, <2>3 DEF Stands
    <3> QED BY <1>3, <3>1 DEF Stood
  <2>4. CASE Cardinality(Before(d)) = at - 1
    <3>1. d = e
      BY <2>2, <2>4, TurnOnce DEF Shape
    <3> QED BY <1>3, <1>5, <3>1
  <2> QED BY <1>1, <1>5, <2>1, <2>3, <2>4
<1>6. \A d \in Stood' : \E f \in AllLive' : StoodBy(d, f)'
  BY <1>1, <1>3 DEF Stood
<1>7. \A d \in Edge' : Counts(d)' /\ Cardinality(Before(d))' < at' - 1 => d \in Stood'
  BY <1>1, <1>4, <1>5
<1> QED BY <1>1, <1>6, <1>7 DEF Stands

LEMMA QuietStands ==
  ASSUME Shape, Stands,
         \/ Class1Done \/ MaxsetDone \/ FirstDecompose \/ BeginComponent \/ DfsRoot \/ DfsReturn
         \/ AcyclicDone \/ SecondDecompose \/ RankComponent \/ Expand \/ UNCHANGED vars
  PROVE  Stands'
<1>1. /\ job' = job /\ leader' = leader /\ UNCHANGED fastgraph /\ virt' = virt
      /\ \/ pc' = pc /\ at' = at
         \/ pc = "class1" /\ at > Len(job.edge) /\ pc' \notin {"collapse", "class1"}
         \/ pc \notin {"collapse", "class1"} /\ pc' \notin {"collapse", "class1"}
  <2>1. CASE Class1Done \/ MaxsetDone \/ FirstDecompose \/ BeginComponent \/ DfsReturn \/ AcyclicDone \/ Expand
    BY <2>1 DEF Class1Done, MaxsetDone, FirstDecompose, BeginComponent, DfsReturn, AcyclicDone, Expand, sets
  <2>2. CASE DfsRoot
    <3>1. pc = "dfs" /\ pc' \in {"dfs", "acyclic"} /\ UNCHANGED <<job, sets, fastgraph, virt>>
      BY <2>2 DEF DfsRoot
    <3> QED BY <3>1 DEF sets
  <2>3. CASE SecondDecompose \/ RankComponent
    <3>1. pc \in {"minmax2", "rank"} /\ pc' \in {"rank", "trouble"} /\ UNCHANGED <<job, sets, fastgraph, virt>>
      BY <2>3 DEF SecondDecompose, RankComponent
    <3> QED BY <3>1 DEF sets
  <2>4. CASE UNCHANGED vars
    BY <2>4 DEF vars, fastgraph
  <2> QED BY <2>1, <2>2, <2>3, <2>4
<1>2. fast' = fast /\ AllLive' = AllLive /\ Edge' = Edge /\ Stood' = Stood
  BY <1>1 DEF fastgraph, AllLive, Edges, Live, Node, Edge, Stood
<1>3. \A e \in Edge : /\ Before(e)' = Before(e) /\ (Counts(e)' <=> Counts(e))
                      /\ \A f : StoodBy(e, f)' <=> StoodBy(e, f)
  BY <1>1, <1>2 DEF Before, Earlier, Counts, StoodBy, Ends
<1>4. \A e \in Stood : \E f \in AllLive : StoodBy(e, f)'
  BY <1>3 DEF Stands, Stood
<1>5. CASE pc' = pc /\ at' = at
  BY <1>1, <1>2, <1>3, <1>4, <1>5 DEF Stands
<1>6. CASE pc = "class1" /\ at > Len(job.edge) /\ pc' \notin {"collapse", "class1"}
  <2>1. ASSUME NEW e \in Edge, Counts(e) PROVE e \in Stood
    <3>1. Cardinality(Before(e)) \in Nat /\ Cardinality(Before(e)) < Len(job.edge)
      BY BeforeIs DEF Shape
    <3>2. Len(job.edge) \in Nat /\ at \in Nat
      BY DEF Shape, JobOk
    <3>3. Cardinality(Before(e)) < at - 1
      BY <1>6, <3>1, <3>2
    <3> QED BY <1>6, <2>1, <3>3 DEF Stands
  <2> QED BY <1>2, <1>3, <1>4, <1>6, <2>1 DEF Stands
<1>7. CASE pc \notin {"collapse", "class1"} /\ pc' \notin {"collapse", "class1"}
  BY <1>2, <1>3, <1>4, <1>7 DEF Stands
<1> QED BY <1>1, <1>5, <1>6, <1>7

LEMMA StandsInit == ASSUME Init PROVE Stands
<1>1. pc = "collapse" /\ virt = [e \in Edge |-> NONE]
  BY DEF Init, Edge
<1> QED BY <1>1 DEF Stands, Stood

LEMMA StandsNext == ASSUME Shape, Stands, [Next]_vars PROVE Stands'
<1>1. Shape'
  BY ShapeNext
<1> QED
  BY <1>1, CollapseStands, Class1Stands, TurnedStands, QuietStands
     DEF Next

-----------------------------------------------------------------------------
(* The ranks.                                                               *)

\* The edges out of S are as long as they must be.
FeasibleIn(S) ==
  \A e \in AllLive : fast[e].tail \in S => rank[fast[e].head] - rank[fast[e].tail] >= fast[e].minlen

Ranked ==
  /\ rank \in [Node -> Nat]
  /\ pc \notin {"rank", "trouble", "done"} => \A n \in Node : rank[n] = 0
  /\ pc = "rank" => /\ \A n \in Node \ Leaders : rank[n] = 0
                    /\ \A c \in DOMAIN comp : c < at => FeasibleIn(Range(comp[c]))
  /\ pc = "done" => FeasibleIn(Node) /\ \A n \in Node : rank[n] = rank[leader[n]]

LEMMA EarlyRanked ==
  ASSUME Shape, Ranked,
         \/ CollapseRankset \/ CollapseDone \/ Class1 \/ Class1Done \/ MaxsetReverse \/ MaxsetDone \/ MinsetReverse
         \/ FirstDecompose \/ BeginComponent \/ DfsRoot \/ DfsEdge \/ DfsReturn \/ AcyclicDone \/ Minmax2
         \/ SecondDecompose
  PROVE  Ranked'
<1>1. /\ job' = job /\ rank' = rank /\ pc \notin {"rank", "trouble", "done"}
      /\ \/ pc' \notin {"rank", "trouble", "done"}
         \/ pc' = "rank" /\ at' = 1
  <2>1. CASE \/ CollapseRankset \/ CollapseDone \/ Class1 \/ Class1Done \/ MaxsetReverse \/ MaxsetDone
             \/ MinsetReverse \/ FirstDecompose
    BY <2>1 DEF CollapseRankset, CollapseDone, Class1, Class1Done, MaxsetReverse, MaxsetDone, MinsetReverse,
                FirstDecompose
  <2>2. CASE BeginComponent \/ DfsEdge \/ DfsReturn \/ AcyclicDone \/ Minmax2 \/ SecondDecompose
    BY <2>2 DEF BeginComponent, DfsEdge, DfsReturn, AcyclicDone, Minmax2, SecondDecompose
  <2>3. CASE DfsRoot
    <3>1. pc = "dfs" /\ pc' \in {"dfs", "acyclic"} /\ UNCHANGED <<job, rank>>
      BY <2>3 DEF DfsRoot
    <3> QED BY <3>1
  <2> QED BY <2>1, <2>2, <2>3
<1>2. Node' = Node
  BY <1>1 DEF Node
<1>3. pc' = "rank" => \A c \in DOMAIN comp' : ~(c < at')
  <2>1. comp' \in Seq(Seq(Node'))
    BY ShapeNext DEF Shape, Next
  <2>2. \A c \in DOMAIN comp' : c \in Nat /\ c >= 1
    BY <2>1
  <2> QED BY <1>1, <2>2
<1> QED BY <1>1, <1>2, <1>3 DEF Ranked

\* What rank() has found for the component whose turn it is.
LEMMA RankComponentIs ==
  ASSUME Shape, Ranked, RankComponent, Cyclic(Range(comp[at])) = {}
  PROVE  \E r : /\ \A n \in Range(comp[at]) : r[n] \in Nat
                /\ Feasible(r, Range(comp[at]))
                /\ rank' = [n \in Node |-> IF n \in Range(comp[at]) THEN r[n] ELSE rank[n]]
                /\ at' = at + 1 /\ pc' = pc
<1>1. PICK S : S = Range(comp[at])
  OBVIOUS
<1>2. PICK r \in [S -> 0 .. Max({Depth(n) : n \in S}) + Extra] :
        Feasible(r, S) /\ rank' = [n \in Node |-> IF n \in S THEN r[n] ELSE rank[n]]
  BY <1>1 DEF RankComponent
<1>3. PICK m : m = Max({Depth(n) : n \in S}) + Extra
  OBVIOUS
<1>4. \A n \in S : r[n] \in 0 .. m
  BY <1>2, <1>3
<1>5. \A n \in S : r[n] \in Nat
  BY <1>4
<1>6. at' = at + 1 /\ pc' = pc
  BY DEF RankComponent
<1> QED BY <1>1, <1>2, <1>5, <1>6

LEMMA RankComponentRanked ==
  ASSUME Shape, Ranked, Apart, RankComponent
  PROVE  Ranked'
<1>1. /\ job' = job /\ leader' = leader /\ UNCHANGED fastgraph /\ comp' = comp /\ pc = "rank" /\ at <= Len(comp)
  BY DEF RankComponent, sets, marks
<1>2. fast' = fast /\ AllLive' = AllLive /\ Node' = Node /\ Leaders' = Leaders
  BY <1>1 DEF fastgraph, AllLive, Edges, Live, Node, Leaders
<1>3. CASE Cyclic(Range(comp[at])) # {}
  <2>1. pc' = "trouble" /\ rank' = rank
    BY <1>3 DEF RankComponent
  <2> QED BY <1>2, <2>1 DEF Ranked
<1>4. CASE Cyclic(Range(comp[at])) = {}
  <2>1. PICK S : S = Range(comp[at])
    OBVIOUS
  <2>2. PICK r : /\ \A n \in S : r[n] \in Nat
                 /\ Feasible(r, S)
                 /\ rank' = [n \in Node |-> IF n \in S THEN r[n] ELSE rank[n]]
                 /\ at' = at + 1 /\ pc' = pc
    BY <1>4, <2>1, RankComponentIs
  <2>3. rank' \in [Node -> Nat]
    BY <2>2 DEF Ranked
  <2>4. at \in DOMAIN comp /\ DOMAIN comp = 1 .. Len(comp) /\ at \in Nat
    BY <1>1 DEF Shape
  <2>5. InOne(comp, Leaders) /\ \A e \in AllLive : Inside(e)
    BY <1>1 DEF Apart, Parted
  <2>6. S \subseteq Leaders /\ S \subseteq Node
    BY <2>1, <2>4, <2>5 DEF InOne, Leaders
  <2>7. \A n \in Node \ Leaders : rank'[n] = 0
    BY <1>1, <2>2, <2>6 DEF Ranked
  <2>8. ASSUME NEW c \in DOMAIN comp, c < at + 1, NEW e \in AllLive, fast[e].tail \in Range(comp[c])
        PROVE  rank'[fast[e].head] - rank'[fast[e].tail] >= fast[e].minlen
    <3>1. fast[e].tail \in Node /\ fast[e].head \in Node
      BY ProperNow DEF Proper
    <3>2. fast[e].head \in Range(comp[c])
      <4>1. PICK d \in DOMAIN comp : fast[e].tail \in Range(comp[d]) /\ fast[e].head \in Range(comp[d])
        BY <2>5 DEF Inside
      <4> QED BY <2>5, <2>8, <4>1 DEF InOne
    <3>3. CASE c = at
      <4>1. e \in Edges(S)
        <5>1. Lists(G, Node, AllLive)
          BY DEF Shape, Graph
        <5>2. PICK u \in Node : u = fast[e].tail
          BY <3>1
        <5>3. Once(out[u], From(fast, AllLive, u)) /\ e \in From(fast, AllLive, u)
          BY <5>1, <5>2 DEF Lists, G, From
        <5>4. PICK i \in 1 .. Len(out[u]) : out[u][i] = e
          BY <5>3, OnceIs
        <5>5. e \in Live(fast[e].tail)
          <6>1. i \in DOMAIN out[u]
            BY <5>3, <5>4, OnceIs
          <6> QED BY <5>2, <5>4, <6>1 DEF Live, Range
        <5> QED BY <2>1, <2>8, <3>3, <5>5 DEF Edges
      <4>2. r[fast[e].head] - r[fast[e].tail] >= fast[e].minlen
        BY <2>2, <4>1 DEF Feasible
      <4>3. rank'[fast[e].head] = r[fast[e].head] /\ rank'[fast[e].tail] = r[fast[e].tail]
        BY <2>1, <2>2, <2>8, <3>1, <3>2, <3>3
      <4> QED BY <4>2, <4>3
    <3>4. CASE c # at
      <4>1. c < at
        BY <2>4, <2>8, <3>4
      <4>2. fast[e].tail \notin S /\ fast[e].head \notin S
        BY <2>1, <2>4, <2>5, <2>8, <3>2, <3>4 DEF InOne
      <4>3. rank'[fast[e].head] = rank[fast[e].head] /\ rank'[fast[e].tail] = rank[fast[e].tail]
        BY <2>2, <3>1, <4>2
      <4> QED BY <1>1, <2>8, <4>1, <4>3 DEF Ranked, FeasibleIn
    <3> QED BY <3>3, <3>4
  <2>9. \A c \in DOMAIN comp' : c < at' => FeasibleIn(Range(comp[c]))'
    BY <1>1, <1>2, <2>2, <2>8 DEF FeasibleIn
  <2> QED BY <1>1, <1>2, <2>2, <2>3, <2>7, <2>9 DEF Ranked
<1> QED BY <1>3, <1>4

LEMMA ExpandRanked ==
  ASSUME Shape, Ranked, Apart, Expand
  PROVE  Ranked'
<1>1. /\ job' = job /\ leader' = leader /\ UNCHANGED fastgraph /\ pc = "rank" /\ pc' = "done" /\ at > Len(comp)
      /\ rank' = [n \in Node |-> rank[n] + IF leader[n] # n THEN rank[leader[n]] ELSE 0]
  BY DEF Expand, sets
<1>2. fast' = fast /\ AllLive' = AllLive /\ Node' = Node
  BY <1>1 DEF fastgraph, AllLive, Edges, Live, Node
<1>3. rank \in [Node -> Nat] /\ \A n \in Node \ Leaders : rank[n] = 0
  BY <1>1 DEF Ranked
<1>4. \A n \in Node : leader[n] \in Leaders /\ leader[n] \in Node /\ rank[leader[n]] \in Nat
  BY <1>3, LeaderIs DEF Shape
<1>5. \A n \in Node : rank'[n] = rank[leader[n]]
  <2> TAKE n \in Node
  <2>1. rank'[n] = rank[n] + IF leader[n] # n THEN rank[leader[n]] ELSE 0
    BY <1>1
  <2>2. CASE leader[n] = n
    BY <1>3, <2>1, <2>2
  <2>3. CASE leader[n] # n
    <3>1. rank[n] = 0
      BY <1>3, <2>3 DEF Leaders
    <3> QED BY <1>4, <2>1, <2>3, <3>1
  <2> QED BY <2>2, <2>3
<1>6. rank' \in [Node -> Nat]
  <2>1. DOMAIN rank' = Node /\ rank' = [n \in Node |-> rank'[n]]
    BY <1>1
  <2> QED BY <1>4, <1>5, <2>1
<1>7. \A n \in Node : rank'[n] = rank'[leader[n]]
  <2> TAKE n \in Node
  <2>1. leader[leader[n]] = leader[n]
    BY DEF Shape, Sets
  <2> QED BY <1>4, <1>5, <2>1
<1>8. ASSUME NEW e \in AllLive PROVE rank'[fast[e].head] - rank'[fast[e].tail] >= fast[e].minlen
  <2>1. PICK c \in DOMAIN comp : fast[e].tail \in Range(comp[c])
    BY <1>1 DEF Apart, Parted, Inside
  <2>2. c < at
    BY <1>1 DEF Shape
  <2>3. rank[fast[e].head] - rank[fast[e].tail] >= fast[e].minlen
    BY <1>1, <2>1, <2>2 DEF Ranked, FeasibleIn
  <2>4. fast[e].tail \in Leaders /\ fast[e].head \in Leaders
    BY DEF Shape, Graph, LeadersJoined
  <2>5. rank'[fast[e].head] = rank[fast[e].head] /\ rank'[fast[e].tail] = rank[fast[e].tail]
    BY <1>5, <2>4 DEF Leaders
  <2> QED BY <2>3, <2>5
<1>9. FeasibleIn(Node)'
  BY <1>2, <1>8 DEF FeasibleIn
<1>10. rank' \in [Node' -> Nat] /\ \A n \in Node' : rank'[n] = rank'[leader'[n]]
  BY ONLY <1>1, <1>2, <1>6, <1>7
<1> QED BY <1>1, <1>9, <1>10 DEF Ranked

LEMMA RankedInit == ASSUME Init PROVE Ranked
<1>1. pc = "collapse" /\ rank = [n \in Node |-> 0]
  BY DEF Init, Node
<1> QED BY <1>1 DEF Ranked

LEMMA RankedNext == ASSUME Shape, Apart, Ranked, [Next]_vars PROVE Ranked'
<1>1. CASE UNCHANGED vars
  <2>1. /\ job' = job /\ leader' = leader /\ UNCHANGED fastgraph /\ pc' = pc /\ at' = at /\ comp' = comp /\ rank' = rank
    BY <1>1 DEF vars, fastgraph
  <2>2. fast' = fast /\ AllLive' = AllLive /\ Node' = Node /\ Leaders' = Leaders
    BY <2>1 DEF fastgraph, AllLive, Edges, Live, Node, Leaders
  <2> QED BY <2>1, <2>2 DEF Ranked, FeasibleIn
<1> QED BY <1>1, EarlyRanked, RankComponentRanked, ExpandRanked DEF Next

LEMMA StandsLongEnough ==
  ASSUME Shape, Stands, Ranked
  PROVE  LongEnough
<1> SUFFICES ASSUME pc = "done", NEW e \in Edge, job.edge[e].constraint,
                    leader[job.edge[e].tail] # leader[job.edge[e].head]
             PROVE  \/ rank[job.edge[e].head] - rank[job.edge[e].tail] >= job.edge[e].minlen
                    \/ -(rank[job.edge[e].head] - rank[job.edge[e].tail]) >= job.edge[e].minlen
  BY DEF LongEnough
<1>1. PICK t, h, m : t = job.edge[e].tail /\ h = job.edge[e].head /\ m = job.edge[e].minlen
  OBVIOUS
<1>2. t \in Node /\ h \in Node /\ m \in Nat
  BY <1>1, EdgeIs DEF Shape
<1>3. Counts(e)
  BY DEF Counts
<1>4. e \in Stood
  BY <1>3 DEF Stands
<1>5. PICK f \in AllLive : fast[f].minlen >= m /\ {fast[f].tail, fast[f].head} = {leader[t], leader[h]}
  BY <1>1, <1>4 DEF Stands, StoodBy, Ends
<1>6. PICK a, b, l : a = fast[f].tail /\ b = fast[f].head /\ l = fast[f].minlen
  OBVIOUS
<1>7. a \in Node /\ b \in Node /\ l \in Nat /\ a # b
  BY <1>6, LiveLength, ProperNow DEF Proper
<1>8. rank[b] - rank[a] >= l
  BY <1>6, <1>7 DEF Ranked, FeasibleIn
<1>9. rank[t] = rank[leader[t]] /\ rank[h] = rank[leader[h]]
  BY <1>2 DEF Ranked
<1>10. \/ a = leader[t] /\ b = leader[h]
       \/ a = leader[h] /\ b = leader[t]
  BY <1>5, <1>6, <1>7
<1>11. rank[a] \in Nat /\ rank[b] \in Nat /\ l >= m
  BY <1>5, <1>6, <1>7 DEF Ranked
<1>12. PICK ra \in Nat, rb \in Nat : ra = rank[a] /\ rb = rank[b]
  BY <1>11
<1>13. rb - ra >= m
  BY <1>2, <1>7, <1>8, <1>11, <1>12
<1>14. \/ rank[t] = ra /\ rank[h] = rb
       \/ rank[t] = rb /\ rank[h] = ra
  BY <1>9, <1>10, <1>12
<1>15. rank[h] - rank[t] >= m \/ -(rank[h] - rank[t]) >= m
  BY <1>2, <1>13, <1>14
<1> QED BY <1>1, <1>15

\* However often the edge that stands for an edge is merged or turned round, one is left
\* between the leaders of its ends that is as long, and the ranks that rank() finds for
\* the components make it span that many; an edge between two rank sets, or a node and
\* a set, is as long as is asked for when the leaders hand their ranks to their sets.
THEOREM EdgesLong ==
  ASSUME 254 \notin Marks
  PROVE  Spec => []LongEnough
<1>1. Init => Shape /\ Apart /\ Stands /\ Ranked
  BY ShapeInit, ApartInit, StandsInit, RankedInit
<1>2. Shape /\ Apart /\ Stands /\ Ranked /\ [Next]_vars => Shape' /\ Apart' /\ Stands' /\ Ranked'
  BY ShapeNext, ApartNext, StandsNext, RankedNext
<1>3. Shape /\ Stands /\ Ranked => LongEnough
  BY StandsLongEnough
<1> QED BY <1>1, <1>2, <1>3, PTL DEF Spec

-----------------------------------------------------------------------------
(* The rank sets.                                                           *)

Together(S) == \A x, y \in S : leader[x] = leader[y]
With(S, set) == set # NONE /\ \A x \in S : leader[x] = leader[set]

\* The i-th rank set has one leader, that of the least or the greatest set where its kind is so.
Bound(i) ==
  LET S == job.sets[i].nodes
      kind == job.sets[i].kind
  IN  /\ Together(S)
      /\ kind \in {"min", "source"} => With(S, minset)
      /\ kind \in {"max", "sink"} => With(S, maxset)

\* n has an edge towards the greatest set, and one from the least.
Linked(n) ==
  /\ maxset # NONE /\ n # maxset => \E e \in AllLive : fast[e].tail = n
  /\ minset # NONE /\ n # minset => \E e \in AllLive : fast[e].head = n

Asks ==
  /\ \A i \in DOMAIN job.sets : (pc = "collapse" => i < at) => Bound(i)
  /\ pc = "minmax2" => \A n \in Leaders : n < at => Linked(n)
  /\ pc \in {"rank", "done"} => \A n \in Leaders : Linked(n)

\* What a set becomes when S, of which u is, is collapsed: it keeps its members, and u
\* joins them if the kind of S says so.
SetAfter(u, set, set2, joins) ==
  /\ set # NONE => set2 # NONE /\ leader'[set2] = leader'[set]
  /\ joins => set2 # NONE /\ leader'[set2] = leader'[u]

Collapsed(S, kind, u) ==
  /\ u \in S /\ Coarser(leader, leader') /\ \A x, y \in S : leader'[x] = leader'[y]
  /\ SetAfter(u, minset, minset', kind \in {"min", "source"})
  /\ SetAfter(u, maxset, maxset', kind \in {"max", "sink"})

LEMMA CoarserOn ==
  ASSUME NEW l, NEW m, NEW k, Coarser(l, m), Coarser(m, k)
  PROVE  Coarser(l, k)
  BY DEF Coarser

LEMMA JoinAfter ==
  ASSUME NEW l, NEW set, NEW u \in Node, NEW m, NEW s, JoinsSo(l, set, u, m, s), m = leader', NEW joins
  PROVE  Coarser(l, leader') /\ SetAfter(u, set, s, joins)
<1>1. s # NONE
  BY NodeNat DEF JoinsSo
<1> QED BY <1>1 DEF JoinsSo, SetAfter

LEMMA CollapsedIs ==
  ASSUME Shape, NEW S, NEW kind, NEW u, NEW l, Gathers(S, kind, u, l)
  PROVE  Collapsed(S, kind, u)
<1>1. /\ Leads(leader) /\ Leads(l) /\ S \in SUBSET Node /\ S # {} /\ u \in Node /\ l = Gathered(S)
      /\ minset \in Node \cup {NONE} /\ maxset \in Node \cup {NONE} /\ u \in S
  BY DEF Gathers, Shape, Sets
<1>2. Coarser(leader, l) /\ \A x, y \in S : l[x] = l[y]
  BY <1>1, GatheredParts
<1>3. Coarser(l, leader') => Coarser(leader, leader') /\ \A x, y \in S : leader'[x] = leader'[y]
  <2> SUFFICES ASSUME Coarser(l, leader')
               PROVE  Coarser(leader, leader') /\ \A x, y \in S : leader'[x] = leader'[y]
    OBVIOUS
  <2>1. Coarser(leader, leader')
    BY <1>2, CoarserOn
  <2>2. \A x, y \in S : leader'[x] = leader'[y]
    BY <1>1, <1>2 DEF Coarser
  <2> QED BY <2>1, <2>2
<1>4. CASE kind = "same" /\ leader' = l /\ minset' = minset /\ maxset' = maxset
  <2>1. Coarser(l, leader')
    BY <1>4 DEF Coarser
  <2>2. kind \notin {"min", "source"} /\ kind \notin {"max", "sink"}
    BY <1>4
  <2>3. SetAfter(u, minset, minset', kind \in {"min", "source"}) /\ SetAfter(u, maxset, maxset', kind \in {"max", "sink"})
    BY <1>4, <2>2 DEF SetAfter
  <2> QED BY <1>1, <1>3, <2>1, <2>3 DEF Collapsed
<1>5. CASE /\ kind \in {"min", "source"}
           /\ leader' = Joined(l, minset, u).l /\ minset' = Joined(l, minset, u).set /\ maxset' = maxset
  <2>1. JoinsSo(l, minset, u, leader', minset')
    BY <1>1, <1>5, JoinedParts
  <2>2. Coarser(l, leader') /\ SetAfter(u, minset, minset', kind \in {"min", "source"})
    BY <1>1, <2>1, JoinAfter
  <2>3. kind \notin {"max", "sink"}
    BY <1>5
  <2>4. SetAfter(u, maxset, maxset', kind \in {"max", "sink"})
    BY <1>5, <2>3 DEF SetAfter
  <2> QED BY <1>1, <1>3, <2>2, <2>4 DEF Collapsed
<1>6. CASE /\ kind \in {"max", "sink"}
           /\ leader' = Joined(l, maxset, u).l /\ maxset' = Joined(l, maxset, u).set /\ minset' = minset
  <2>1. JoinsSo(l, maxset, u, leader', maxset')
    BY <1>1, <1>6, JoinedParts
  <2>2. Coarser(l, leader') /\ SetAfter(u, maxset, maxset', kind \in {"max", "sink"})
    BY <1>1, <2>1, JoinAfter
  <2>3. kind \notin {"min", "source"}
    BY <1>6
  <2>4. SetAfter(u, minset, minset', kind \in {"min", "source"})
    BY <1>6, <2>3 DEF SetAfter
  <2> QED BY <1>1, <1>3, <2>2, <2>4 DEF Collapsed
<1> QED BY <1>4, <1>5, <1>6 DEF Gathers

LEMMA CollapseAsks ==
  ASSUME Shape, Asks, CollapseRankset
  PROVE  Asks'
<1>1. PICK S, kind, u, l : Gathers(S, kind, u, l)
  BY GathersIs
<1>2. Collapsed(S, kind, u)
  BY <1>1, CollapsedIs
<1>3. pc = "collapse" /\ pc' = pc /\ at' = at + 1 /\ job' = job /\ at \in Nat
  BY DEF CollapseRankset, Shape
<1>4. ASSUME NEW i \in DOMAIN job.sets, i < at + 1 PROVE Bound(i)'
  <2>1. PICK T, k : T = job.sets[i].nodes /\ k = job.sets[i].kind
    OBVIOUS
  <2>2. T \in SUBSET Node
    BY <2>1, SetIs DEF Shape
  <2>3. CASE i = at
    <3>1. T = S /\ k = kind
      BY <1>1, <2>1, <2>3 DEF Gathers
    <3>2. Together(T)'
      BY <1>2, <3>1 DEF Collapsed, Together
    <3>3. k \in {"min", "source"} => With(T, minset)'
      BY <1>2, <3>1 DEF Collapsed, SetAfter, With
    <3>4. k \in {"max", "sink"} => With(T, maxset)'
      BY <1>2, <3>1 DEF Collapsed, SetAfter, With
    <3> QED BY <1>3, <2>1, <3>2, <3>3, <3>4 DEF Bound
  <2>4. CASE i # at
    <3>1. i < at
      <4>1. i \in Nat
        BY DEF Shape, JobOk
      <4> QED BY <1>3, <1>4, <2>4, <4>1
    <3>2. Together(T) /\ (k \in {"min", "source"} => With(T, minset)) /\ (k \in {"max", "sink"} => With(T, maxset))
      BY <2>1, <3>1 DEF Asks, Bound
    <3>3. Together(T)'
      BY <1>2, <2>2, <3>2 DEF Collapsed, Together, Coarser
    <3>4. ASSUME NEW set \in Node \cup {NONE}, NEW set2, NEW joins, SetAfter(u, set, set2, joins), With(T, set)
          PROVE  set2 # NONE /\ \A x \in T : leader'[x] = leader'[set2]
      <4>1. set \in Node /\ set2 # NONE /\ leader'[set2] = leader'[set]
        BY <3>4 DEF SetAfter, With
      <4>2. \A x \in T : leader'[x] = leader'[set]
        BY <1>2, <2>2, <3>4, <4>1 DEF Collapsed, Coarser, With
      <4> QED BY <4>1, <4>2
    <3>5. minset \in Node \cup {NONE} /\ maxset \in Node \cup {NONE}
      BY DEF Shape, Sets
    <3>6. k \in {"min", "source"} => With(T, minset)'
      BY <1>2, <3>2, <3>4, <3>5 DEF Collapsed, With
    <3>7. k \in {"max", "sink"} => With(T, maxset)'
      BY <1>2, <3>2, <3>4, <3>5 DEF Collapsed, With
    <3> QED BY <1>3, <2>1, <3>3, <3>6, <3>7 DEF Bound
  <2> QED BY <2>3, <2>4
<1> QED BY <1>3, <1>4 DEF Asks

LEMMA BoundSame ==
  ASSUME NEW i, Bound(i), job' = job, leader' = leader, minset' = minset, maxset' = maxset
  PROVE  Bound(i)'
  BY DEF Bound, Together, With

\* The graph is collapsed, and the nodes of the least and the greatest set become their leaders.
LEMMA EarlyAsks ==
  ASSUME Shape, Asks,
         CollapseDone \/ Class1 \/ Class1Done \/ MaxsetReverse \/ MaxsetDone \/ MinsetReverse \/ FirstDecompose
  PROVE  Asks'
<1>1. /\ job' = job /\ leader' = leader
      /\ pc' \in {"class1", "maxset", "minset", "acyclic"} /\ (pc = "collapse" => at > Len(job.sets))
  BY DEF CollapseDone, Class1, Class1Done, MaxsetReverse, MaxsetDone, MinsetReverse, FirstDecompose, sets
<1>2. \A i \in DOMAIN job.sets : Bound(i)
  <2>1. \A i \in DOMAIN job.sets : i \in Nat /\ i <= Len(job.sets)
    BY DEF Shape, JobOk
  <2>2. Len(job.sets) \in Nat /\ at \in Nat
    BY DEF Shape, JobOk
  <2>3. \A i \in DOMAIN job.sets : pc = "collapse" => i < at
    BY <1>1, <2>1, <2>2
  <2> QED BY <2>3 DEF Asks
<1>3. \A i \in DOMAIN job.sets : Bound(i)'
  <2>1. CASE Class1Done
    <3>1. /\ minset' = IF minset = NONE THEN NONE ELSE leader[minset]
          /\ maxset' = IF maxset = NONE THEN NONE ELSE leader[maxset]
      BY <2>1 DEF Class1Done
    <3>2. ASSUME NEW set \in Node \cup {NONE}, NEW T, With(T, set)
          PROVE  leader[set] # NONE /\ set # NONE /\ \A x \in T : leader[x] = leader[leader[set]]
      <4>1. set \in Node
        BY <3>2 DEF With
      <4>2. leader[set] \in Node /\ leader[leader[set]] = leader[set]
        BY <4>1 DEF Shape, Sets
      <4> QED BY <3>2, <4>1, <4>2, NodeNat DEF With
    <3>3. minset \in Node \cup {NONE} /\ maxset \in Node \cup {NONE}
      BY DEF Shape, Sets
    <3>4. ASSUME NEW T, With(T, minset) PROVE With(T, minset)'
      BY <1>1, <3>1, <3>2, <3>3, <3>4 DEF With
    <3>5. ASSUME NEW T, With(T, maxset) PROVE With(T, maxset)'
      BY <1>1, <3>1, <3>2, <3>3, <3>5 DEF With
    <3>6. \A T : Together(T) => Together(T)'
      BY <1>1 DEF Together
    <3> TAKE i \in DOMAIN job.sets
    <3>7. PICK T, k : T = job.sets[i].nodes /\ k = job.sets[i].kind
      OBVIOUS
    <3>8. Together(T) /\ (k \in {"min", "source"} => With(T, minset)) /\ (k \in {"max", "sink"} => With(T, maxset))
      BY <1>2, <3>7 DEF Bound
    <3>9. Together(T)' /\ (k \in {"min", "source"} => With(T, minset)') /\ (k \in {"max", "sink"} => With(T, maxset)')
      BY <3>4, <3>5, <3>6, <3>8
    <3> QED BY <1>1, <3>7, <3>9 DEF Bound
  <2>2. CASE CollapseDone \/ Class1 \/ MaxsetReverse \/ MaxsetDone \/ MinsetReverse \/ FirstDecompose
    <3>1. minset' = minset /\ maxset' = maxset
      BY <2>2 DEF CollapseDone, Class1, MaxsetReverse, MaxsetDone, MinsetReverse, FirstDecompose, sets
    <3> QED BY <1>1, <1>2, <3>1, BoundSame
  <2> QED BY <2>1, <2>2
<1> QED BY <1>1, <1>3 DEF Asks

\* Components are searched, ranked and expanded, and the rank sets stay.
LEMMA LaterAsks ==
  ASSUME Shape, Asks,
         \/ BeginComponent \/ DfsRoot \/ DfsEdge \/ DfsReturn \/ AcyclicDone
         \/ RankComponent \/ Expand
  PROVE  Asks'
<1>1. /\ job' = job /\ leader' = leader /\ minset' = minset /\ maxset' = maxset /\ pc # "collapse"
      /\ pc' # "collapse"
      /\ \/ pc' \in {"dfs", "acyclic", "trouble"}
         \/ pc' = "minmax2" /\ at' = 1
         \/ UNCHANGED fastgraph /\ pc = "rank" /\ pc' \in {"rank", "done"}
  <2>1. CASE \/ BeginComponent \/ DfsEdge \/ DfsReturn \/ AcyclicDone
    BY <2>1 DEF BeginComponent, DfsEdge, DfsReturn, AcyclicDone, sets
  <2>2. CASE DfsRoot
    <3>1. pc = "dfs" /\ pc' \in {"dfs", "acyclic"} /\ UNCHANGED <<job, sets>>
      BY <2>2 DEF DfsRoot
    <3> QED BY <3>1 DEF sets
  <2>3. CASE RankComponent
    <3>1. pc = "rank" /\ pc' \in {"rank", "trouble"} /\ UNCHANGED <<job, sets, fastgraph>>
      BY <2>3 DEF RankComponent
    <3> QED BY <3>1 DEF sets
  <2>4. CASE Expand
    BY <2>4 DEF Expand, sets
  <2> QED BY <2>1, <2>2, <2>3, <2>4
<1>2. \A i \in DOMAIN job.sets : Bound(i)'
  BY <1>1, BoundSame DEF Asks
<1>3. Node' = Node /\ Leaders' = Leaders
  BY <1>1 DEF Node, Leaders
<1>4. CASE pc' \in {"dfs", "acyclic", "trouble"}
  BY <1>1, <1>2, <1>4 DEF Asks
<1>5. CASE pc' = "minmax2" /\ at' = 1
  <2>1. \A n \in Leaders : ~(n < 1)
    BY DEF Leaders, Node
  <2> QED BY <1>1, <1>2, <1>3, <1>5, <2>1 DEF Asks
<1>6. CASE UNCHANGED fastgraph /\ pc = "rank" /\ pc' \in {"rank", "done"}
  <2>1. fast' = fast /\ AllLive' = AllLive
    BY <1>1, <1>6, SettledKept
  <2>2. \A n \in Leaders : Linked(n)'
    BY <1>1, <1>6, <2>1 DEF Asks, Linked
  <2> QED BY <1>1, <1>2, <1>3, <1>6, <2>2 DEF Asks
<1> QED BY <1>1, <1>4, <1>5, <1>6

LEMMA Minmax2Asks ==
  ASSUME Shape, Asks, Minmax2
  PROVE  Asks'
<1>1. /\ job' = job /\ leader' = leader /\ minset' = minset /\ maxset' = maxset
      /\ pc = "minmax2" /\ pc' = pc /\ at' = at + 1 /\ at \in Nat
  BY DEF Minmax2, sets, Shape
<1>2. \A i \in DOMAIN job.sets : Bound(i)'
  BY <1>1, BoundSame DEF Asks
<1>3. Node' = Node /\ Leaders' = Leaders
  BY <1>1 DEF Node, Leaders
<1>4. PICK h, B : Minmax2So(h, B)
  BY Minmax2Is
<1>5. \A n \in Leaders : n \in Nat /\ (n < at + 1 => n < at \/ n = at)
  BY <1>1, NodeNat DEF Leaders
<1>6. CASE at \in Leaders /\ Set(h) /\ TiedSo(G, h, AllLive, B, at)
  <2>1. AllLive' = B /\ fast' = h.fast
    BY <1>1, <1>6, GoodNext DEF TiedSo, Set
  <2>2. AllLive \subseteq B /\ Grown(fast, fast') /\ AllLive \subseteq DOMAIN fast
    BY <1>6, <2>1, ProperNow DEF TiedSo, G
  <2>3. ASSUME NEW n \in Leaders, Linked(n) PROVE Linked(n)'
    BY <1>1, <2>1, <2>2, <2>3 DEF Linked, Grown
  <2>4. PICK m \in Leaders : m = at
    BY <1>6
  <2>5. Linked(m)'
    BY <1>1, <1>6, <2>1, <2>4 DEF TiedSo, Linked
  <2>6. \A n \in Leaders : n < at + 1 => Linked(n)'
    BY <1>1, <1>5, <2>3, <2>4, <2>5 DEF Asks
  <2> QED BY <1>1, <1>2, <1>3, <2>6 DEF Asks
<1>7. CASE at \notin Leaders /\ UNCHANGED fastgraph
  <2>1. fast' = fast /\ AllLive' = AllLive
    BY <1>1, <1>7, SettledKept
  <2>2. \A n \in Leaders : Linked(n) => Linked(n)'
    BY <1>1, <2>1 DEF Linked
  <2>3. \A n \in Leaders : n < at + 1 => Linked(n)'
    BY <1>1, <1>5, <1>7, <2>2 DEF Asks
  <2> QED BY <1>1, <1>2, <1>3, <2>3 DEF Asks
<1> QED BY <1>4, <1>6, <1>7 DEF Minmax2So

LEMMA SecondDecomposeAsks ==
  ASSUME Shape, Asks, SecondDecompose
  PROVE  Asks'
<1>1. /\ job' = job /\ leader' = leader /\ minset' = minset /\ maxset' = maxset /\ UNCHANGED fastgraph
      /\ pc = "minmax2" /\ pc' = "rank" /\ at > job.n /\ at \in Nat /\ job.n \in Nat
  BY DEF SecondDecompose, sets, Shape, JobOk
<1>2. \A i \in DOMAIN job.sets : Bound(i)'
  BY <1>1, BoundSame DEF Asks
<1>3. Node' = Node /\ Leaders' = Leaders
  BY <1>1 DEF Node, Leaders
<1>4. \A n \in Leaders : n < at
  BY <1>1 DEF Leaders, Node
<1>5. fast' = fast /\ AllLive' = AllLive
  BY <1>1, SettledKept
<1>6. \A n \in Leaders : Linked(n)'
  BY <1>1, <1>4, <1>5 DEF Asks, Linked
<1> QED BY <1>1, <1>2, <1>3, <1>6 DEF Asks

LEMMA AsksInit == ASSUME Init PROVE Asks
<1>1. pc = "collapse" /\ at = 1 /\ job \in Jobs
  BY DEF Init
<1>2. job.sets \in Seq([kind : Kinds, nodes : (SUBSET Node) \ {{}}])
  BY <1>1, JobIs DEF JobOk
<1>3. \A i \in DOMAIN job.sets : ~(i < 1)
  BY <1>2
<1> QED BY <1>1, <1>3 DEF Asks

LEMMA AsksNext == ASSUME Shape, Asks, [Next]_vars PROVE Asks'
<1>1. CASE UNCHANGED vars
  <2>1. /\ job' = job /\ leader' = leader /\ minset' = minset /\ maxset' = maxset /\ UNCHANGED fastgraph
        /\ pc' = pc /\ at' = at
    BY <1>1 DEF vars, fastgraph
  <2>2. fast' = fast /\ AllLive' = AllLive /\ Leaders' = Leaders
    BY <2>1, SettledKept DEF Leaders, Node
  <2> QED BY <2>1, <2>2, BoundSame DEF Asks, Linked
<1> QED BY <1>1, CollapseAsks, EarlyAsks, LaterAsks, Minmax2Asks, SecondDecomposeAsks DEF Next

\* Edges lead from the least set to all others and from all others to the greatest, and
\* upwards in rank.
LEMMA LeastIsLeast ==
  ASSUME Shape, Unwound, Ranked, Asks, pc = "done", minset # NONE, NEW v \in Leaders
  PROVE  rank[minset] <= rank[v]
<1>1. PICK T : T = {x \in Leaders : rank[x] < rank[minset]}
  OBVIOUS
<1>2. \A x \in Node : rank[x] \in Nat
  BY DEF Ranked
<1>3. minset \in Node /\ v \in Node /\ T \in SUBSET Node
  BY <1>1 DEF Shape, Sets, Leaders
<1>4. \A x \in T : \E e \in AllLive : fast[e].head = x /\ fast[e].tail \in T
  <2> TAKE x \in T
  <2>1. x \in Leaders /\ x \in Node /\ rank[x] < rank[minset]
    BY <1>1, <1>3
  <2>2. x # minset
    BY <1>2, <1>3, <2>1
  <2>3. PICK e \in AllLive : fast[e].head = x
    BY <2>1, <2>2 DEF Asks, Linked
  <2>4. PICK y : y = fast[e].tail
    OBVIOUS
  <2>5. y \in Leaders /\ y \in Node
    BY <2>4 DEF Shape, Graph, LeadersJoined, Leaders
  <2>6. PICK l \in Nat : l = fast[e].minlen
    BY LiveLength
  <2>7. rank[x] - rank[y] >= l
    BY <2>3, <2>4, <2>5, <2>6 DEF Ranked, FeasibleIn
  <2>8. rank[y] < rank[minset]
    BY <1>2, <1>3, <2>1, <2>5, <2>7
  <2> QED BY <1>1, <2>3, <2>4, <2>5, <2>8
<1>5. T = {}
  BY <1>3, <1>4, ProperNow, SettledOpenBelow DEF Unwound
<1>6. ~(rank[v] < rank[minset])
  BY <1>1, <1>5
<1> QED BY <1>2, <1>3, <1>6

LEMMA GreatestIsGreatest ==
  ASSUME Shape, Unwound, Ranked, Asks, pc = "done", maxset # NONE, NEW v \in Leaders
  PROVE  rank[maxset] >= rank[v]
<1>1. PICK T : T = {x \in Leaders : rank[x] > rank[maxset]}
  OBVIOUS
<1>2. \A x \in Node : rank[x] \in Nat
  BY DEF Ranked
<1>3. maxset \in Node /\ v \in Node /\ T \in SUBSET Node
  BY <1>1 DEF Shape, Sets, Leaders
<1>4. \A x \in T : \E e \in AllLive : fast[e].tail = x /\ fast[e].head \in T
  <2> TAKE x \in T
  <2>1. x \in Leaders /\ x \in Node /\ rank[x] > rank[maxset]
    BY <1>1, <1>3
  <2>2. x # maxset
    BY <1>2, <1>3, <2>1
  <2>3. PICK e \in AllLive : fast[e].tail = x
    BY <2>1, <2>2 DEF Asks, Linked
  <2>4. PICK y : y = fast[e].head
    OBVIOUS
  <2>5. y \in Leaders /\ y \in Node
    BY <2>4 DEF Shape, Graph, LeadersJoined, Leaders
  <2>6. PICK l \in Nat : l = fast[e].minlen
    BY LiveLength
  <2>7. rank[y] - rank[x] >= l
    BY <2>1, <2>3, <2>4, <2>6 DEF Ranked, FeasibleIn
  <2>8. rank[y] > rank[maxset]
    BY <1>2, <1>3, <2>1, <2>5, <2>7
  <2> QED BY <1>1, <2>3, <2>4, <2>5, <2>8
<1>5. T = {}
  BY <1>3, <1>4, SettledOpen DEF Unwound
<1>6. ~(rank[v] > rank[maxset])
  BY <1>1, <1>5
<1> QED BY <1>2, <1>3, <1>6

LEMMA RankedAsAsked ==
  ASSUME Shape, Unwound, Ranked, Asks
  PROVE  RanksAsAsked
<1> SUFFICES ASSUME pc = "done"
             PROVE  /\ \A i \in DOMAIN job.sets : \A u, v \in job.sets[i].nodes : rank[u] = rank[v]
                    /\ \A u \in Asked({"min", "source"}), v \in Node : rank[u] <= rank[v]
                    /\ \A u \in Asked({"max", "sink"}), v \in Node : rank[u] >= rank[v]
  BY DEF RanksAsAsked
<1>1. \A n \in Node : rank[n] = rank[leader[n]] /\ leader[n] \in Leaders
  BY LeaderIs DEF Ranked, Shape
<1>2. \A i \in DOMAIN job.sets : Bound(i) /\ job.sets[i].nodes \in SUBSET Node
  BY SetIs DEF Asks, Shape
<1>3. \A i \in DOMAIN job.sets : \A u, v \in job.sets[i].nodes : rank[u] = rank[v]
  <2> SUFFICES ASSUME NEW i \in DOMAIN job.sets, NEW u \in job.sets[i].nodes, NEW v \in job.sets[i].nodes
               PROVE  rank[u] = rank[v]
    OBVIOUS
  <2>1. u \in Node /\ v \in Node /\ leader[u] = leader[v]
    BY <1>2 DEF Bound, Together
  <2> QED BY <1>1, <2>1
<1>4. (minset # NONE => leader[minset] = minset) /\ (maxset # NONE => leader[maxset] = maxset)
  BY DEF Shape, Sets, Leaders
<1>5. ASSUME NEW u \in Asked({"min", "source"}), NEW v \in Node PROVE rank[u] <= rank[v]
  <2>1. PICK i \in DOMAIN job.sets : job.sets[i].kind \in {"min", "source"} /\ u \in job.sets[i].nodes
    BY DEF Asked
  <2>2. u \in Node /\ minset # NONE /\ leader[u] = leader[minset]
    BY <1>2, <2>1 DEF Bound, With
  <2>3. rank[u] = rank[minset]
    BY <1>1, <1>4, <2>2
  <2>4. rank[minset] <= rank[leader[v]]
    BY <1>1, <2>2, LeastIsLeast
  <2> QED BY <1>1, <2>3, <2>4
<1>6. ASSUME NEW u \in Asked({"max", "sink"}), NEW v \in Node PROVE rank[u] >= rank[v]
  <2>1. PICK i \in DOMAIN job.sets : job.sets[i].kind \in {"max", "sink"} /\ u \in job.sets[i].nodes
    BY DEF Asked
  <2>2. u \in Node /\ maxset # NONE /\ leader[u] = leader[maxset]
    BY <1>2, <2>1 DEF Bound, With
  <2>3. rank[u] = rank[maxset]
    BY <1>1, <1>4, <2>2
  <2>4. rank[maxset] >= rank[leader[v]]
    BY <1>1, <2>2, GreatestIsGreatest
  <2> QED BY <1>1, <2>3, <2>4
<1> QED BY <1>3, <1>5, <1>6

\* The nodes of a rank set come out on one rank, the least set below all others and the
\* greatest above: collapse_sets keeps every set under one leader, and minmax_edges2
\* leaves no other node without an edge in from below and one out to above.
THEOREM AskedRanks ==
  ASSUME Separable, 254 \notin Marks
  PROVE  Spec => []RanksAsAsked
<1>1. Init => Shape /\ Apart /\ Unwound /\ Ranked /\ Asks
  BY ShapeInit, ApartInit, UnwoundInit, RankedInit, AsksInit
<1>2. Shape /\ Apart /\ Unwound /\ Ranked /\ Asks /\ [Next]_vars
        => Shape' /\ Apart' /\ Unwound' /\ Ranked' /\ Asks'
  BY ShapeNext, ApartNext, UnwoundNext, RankedNext, AsksNext
<1>3. Shape /\ Unwound /\ Ranked /\ Asks => RanksAsAsked
  BY RankedAsAsked
<1> QED BY <1>1, <1>2, <1>3, PTL DEF Spec

-----------------------------------------------------------------------------
(* The edges that stand for the edges of the graph.                         *)

\* root[e] is the edge that e makes way for in the end, after depth[e] others.
Roots(f, root, depth) ==
  /\ root \in [DOMAIN f -> DOMAIN f] /\ depth \in [DOMAIN f -> Nat]
  /\ \A e \in DOMAIN f : f[root[e]].virt = NONE
  /\ \A e \in DOMAIN f : f[e].virt = NONE => root[e] = e /\ depth[e] = 0
  /\ \A e \in DOMAIN f :
       f[e].virt # NONE => /\ f[e].virt \in DOMAIN f
                           /\ root[e] = root[f[e].virt] /\ depth[e] = depth[f[e].virt] + 1

\* The chain of v leads to its root.
LEMMA ChainRoot ==
  ASSUME NEW n \in Nat, NEW f, DOMAIN f = 1 .. n, Len(f) = n,
         NEW root, NEW depth, Roots(f, root, depth), NEW v \in DOMAIN f
  PROVE  /\ root[v] \in Chain(f, v)
         /\ \A m \in Chain(f, v) : m \in DOMAIN f /\ root[m] = root[v]
<1>1. PICK onward : onward = [e \in 0 .. Len(f) |-> IF e = NONE THEN NONE ELSE f[e].virt]
  OBVIOUS
<1>2. PICK k \in Nat : k = depth[v]
  BY DEF Roots
<1>3. PICK it : it = Iterates(k, v, onward)
  OBVIOUS
<1>4. it[0] = v /\ \A i \in 1 .. k : it[i] = onward[it[i - 1]]
  BY <1>3, IteratesAre
<1>5. \A e \in DOMAIN f : e \in 0 .. n /\ e # NONE /\ onward[e] = f[e].virt
  BY <1>1 DEF NONE
<1>6. onward[NONE] = NONE
  BY <1>1 DEF NONE
<1>7. PICK P : P = {i \in Nat : i <= k => it[i] \in DOMAIN f /\ root[it[i]] = root[v] /\ depth[it[i]] = k - i}
  OBVIOUS
<1>8. ASSUME NEW i \in Nat, \A j \in Nat : j < i => j \in P PROVE i \in P
  <2> SUFFICES ASSUME i <= k PROVE it[i] \in DOMAIN f /\ root[it[i]] = root[v] /\ depth[it[i]] = k - i
    BY <1>7
  <2>1. CASE i = 0
    BY <1>2, <1>4, <2>1
  <2>2. CASE i # 0
    <3>1. i - 1 \in Nat /\ i - 1 < i /\ i - 1 <= k /\ i \in 1 .. k
      BY <2>2
    <3>2. PICK e : e = it[i - 1]
      OBVIOUS
    <3>3. e \in DOMAIN f /\ root[e] = root[v] /\ depth[e] = k - (i - 1)
      BY <1>7, <1>8, <3>1, <3>2
    <3>4. depth[e] # 0
      BY <3>1, <3>3
    <3>5. f[e].virt \in DOMAIN f /\ root[e] = root[f[e].virt] /\ depth[e] = depth[f[e].virt] + 1
      BY <3>3, <3>4 DEF Roots
    <3>6. it[i] = f[e].virt
      BY <1>4, <1>5, <3>1, <3>2, <3>3
    <3>7. depth[f[e].virt] \in Nat
      BY <3>5 DEF Roots
    <3> QED BY <3>1, <3>3, <3>5, <3>6, <3>7
  <2> QED BY <2>1, <2>2
<1>9. P = Nat
  <2>1. P \in SUBSET Nat
    BY <1>7
  <2> QED BY <1>8, <2>1, NatComplete
<1>10. \A i \in 0 .. k : it[i] \in DOMAIN f /\ root[it[i]] = root[v] /\ depth[it[i]] = k - i
  <2> TAKE i \in 0 .. k
  <2>1. i \in P /\ i <= k
    BY <1>9
  <2> QED BY <1>7, <2>1
<1>11. PICK q : q = [i \in 1 .. k + 1 |-> it[i - 1]]
  OBVIOUS
<1>12. PICK S : S = 1 .. n
  OBVIOUS
<1>13. \A i \in 1 .. k + 1 : i - 1 \in 0 .. k /\ q[i] = it[i - 1] /\ q[i] \in S
  <2> TAKE i \in 1 .. k + 1
  <2>1. i - 1 \in 0 .. k
    OBVIOUS
  <2> QED BY <1>10, <1>11, <1>12, <2>1
<1>14. q[k + 1] \in DOMAIN f /\ root[q[k + 1]] = root[v] /\ depth[q[k + 1]] = 0
  <2>1. k + 1 \in 1 .. k + 1 /\ (k + 1) - 1 = k /\ k \in 0 .. k /\ k - k = 0
    OBVIOUS
  <2>2. q[k + 1] = it[k]
    BY <1>13, <2>1
  <2>3. it[k] \in DOMAIN f /\ root[it[k]] = root[v] /\ depth[it[k]] = 0
    BY <1>10, <2>1
  <2> QED BY <2>2, <2>3
<1>15. q \in Seq(S) /\ Len(q) = k + 1 /\ q # <<>> /\ DOMAIN q = 1 .. k + 1
  BY <1>11, <1>13
<1>16. \A i, j \in 1 .. Len(q) : q[i] = q[j] => i = j
  <2> SUFFICES ASSUME NEW i \in 1 .. k + 1, NEW j \in 1 .. k + 1, q[i] = q[j] PROVE i = j
    BY <1>15
  <2>1. depth[q[i]] = k - (i - 1) /\ depth[q[j]] = k - (j - 1)
    BY <1>10, <1>13
  <2> QED BY <2>1
<1>17. Len(q) <= n
  <2>1. IsFiniteSet(S) /\ Cardinality(S) = n
    <3>1. PICK a, b \in Int : a = 1 /\ b = n
      OBVIOUS
    <3>2. IsFiniteSet(a .. b) /\ Cardinality(a .. b) = IF a > b THEN 0 ELSE b - a + 1
      BY FS_Interval
    <3> QED BY <1>12, <3>1, <3>2
  <2>2. Len(q) <= Cardinality(S)
    BY <1>15, <1>16, <2>1, Short
  <2> QED BY <2>1, <2>2
<1>18. Listed(n, v, onward, NONE) = q
  <2>1. NONE \notin S
    BY <1>12 DEF NONE
  <2>2. q[1] = v
    BY <1>4, <1>13
  <2>3. \A i \in 1 .. Len(q) - 1 : onward[q[i]] = q[i + 1]
    <3> TAKE i \in 1 .. Len(q) - 1
    <3>1. i \in 1 .. k /\ i \in 1 .. k + 1 /\ i + 1 \in 1 .. k + 1 /\ (i + 1) - 1 = i
      BY <1>15
    <3> QED BY <1>4, <1>13, <3>1
  <2>4. onward[q[Len(q)]] = NONE
    <3>1. PICK e : e = q[k + 1]
      OBVIOUS
    <3>2. e \in DOMAIN f /\ depth[e] = 0
      BY <1>14, <3>1
    <3>3. f[e].virt = NONE
      <4> SUFFICES ASSUME f[e].virt # NONE PROVE FALSE
        OBVIOUS
      <4>1. f[e].virt \in DOMAIN f /\ depth[e] = depth[f[e].virt] + 1
        BY <3>2 DEF Roots
      <4>2. depth[f[e].virt] \in Nat
        BY <4>1 DEF Roots
      <4> QED BY <3>2, <4>1, <4>2
    <3> QED BY <1>5, <1>15, <3>1, <3>2, <3>3
  <2>5. /\ n \in Nat /\ NONE \notin S /\ onward[NONE] = NONE /\ q \in Seq(S) /\ Len(q) <= n
        /\ q # <<>> /\ v = q[1] /\ onward[q[Len(q)]] = NONE
        /\ \A i \in 1 .. Len(q) - 1 : onward[q[i]] = q[i + 1]
    BY <1>6, <1>15, <1>17, <2>1, <2>2, <2>3, <2>4
  <2> QED BY ONLY <2>5, ListIs
<1>19. Chain(f, v) = Range(q)
  BY <1>1, <1>18 DEF Chain
<1>20. \A m \in Chain(f, v) : m \in DOMAIN f /\ root[m] = root[v]
  <2> SUFFICES ASSUME NEW i \in 1 .. k + 1 PROVE q[i] \in DOMAIN f /\ root[q[i]] = root[v]
    BY <1>15, <1>19 DEF Range
  <2>1. i - 1 \in 0 .. k
    OBVIOUS
  <2>2. q[i] = it[i - 1]
    BY <1>13
  <2>3. it[i - 1] \in DOMAIN f /\ root[it[i - 1]] = root[v]
    BY <1>10, <2>1
  <2> QED BY <2>2, <2>3
<1>21. root[v] \in Chain(f, v)
  <2>1. PICK e : e = q[k + 1]
    OBVIOUS
  <2>2. e \in DOMAIN f /\ depth[e] = 0 /\ root[e] = root[v]
    BY <1>14, <2>1
  <2>3. f[e].virt = NONE
    <3> SUFFICES ASSUME f[e].virt # NONE PROVE FALSE
      OBVIOUS
    <3>1. f[e].virt \in DOMAIN f /\ depth[e] = depth[f[e].virt] + 1
      BY <2>2 DEF Roots
    <3>2. depth[f[e].virt] \in Nat
      BY <3>1 DEF Roots
    <3> QED BY <2>2, <3>1, <3>2
  <2>4. root[e] = e
    BY <2>2, <2>3 DEF Roots
  <2>5. e \in Range(q)
    BY <1>15, <2>1 DEF Range
  <2> QED BY <1>19, <2>2, <2>4, <2>5
<1> QED BY <1>20, <1>21

\* What stands for an edge in the end is the root of what it makes way for.
LEMMA StandingIs ==
  ASSUME NEW n \in Nat, DOMAIN fast = 1 .. n, Len(fast) = n,
         NEW root, NEW depth, Roots(fast, root, depth), NEW e, virt[e] \in DOMAIN fast
  PROVE  Standing(e) = root[virt[e]]
<1>1. PICK v, f : v = virt[e] /\ f = fast
  OBVIOUS
<1>2. root[v] \in Chain(f, v) /\ \A m \in Chain(f, v) : m \in DOMAIN f /\ root[m] = root[v]
  BY <1>1, ChainRoot
<1>3. f[root[v]].virt = NONE
  BY <1>1 DEF Roots
<1>4. \A m \in Chain(f, v) : f[m].virt = NONE => m = root[v]
  BY <1>1, <1>2 DEF Roots
<1>5. (CHOOSE m \in Chain(f, v) : f[m].virt = NONE) = root[v]
  BY <1>2, <1>3, <1>4
<1> QED BY <1>1, <1>5 DEF Standing

\* The roots when e, which is its own root, makes way for x.
RootsThen(f, h, root, e, x, r) ==
  r = [d \in DOMAIN h |-> IF d = x \/ root[d] = e THEN x ELSE root[d]]

LEMMA RootsBorne ==
  ASSUME NEW f, NEW h, NEW A, Unreplaced(f, A), NEW e \in A, NEW x, Bears(f, h, A, e, x),
         A \subseteq DOMAIN f, NONE \notin DOMAIN h,
         NEW root, NEW depth, Roots(f, root, depth), NEW r, RootsThen(f, h, root, e, x, r)
  PROVE  \E k : Roots(h, r, k)
<1>1. PICK k : k = [d \in DOMAIN h |-> IF d = x THEN 0 ELSE IF root[d] = e THEN depth[d] + 1 ELSE depth[d]]
  OBVIOUS
<1>2. /\ e \in DOMAIN f /\ f[e].virt = NONE /\ x # e /\ DOMAIN h = DOMAIN f \cup {x} /\ x # NONE
      /\ x \in DOMAIN f => f[x].virt = NONE
      /\ h[e].virt = x /\ h[x].virt = NONE /\ \A d \in DOMAIN f : d # e => h[d].virt = f[d].virt
  BY DEF Bears, Unreplaced
<1>3. /\ \A d \in DOMAIN f : root[d] \in DOMAIN f /\ depth[d] \in Nat /\ f[root[d]].virt = NONE
      /\ \A d \in DOMAIN f : f[d].virt = NONE => root[d] = d /\ depth[d] = 0
      /\ \A d \in DOMAIN f : f[d].virt # NONE => /\ f[d].virt \in DOMAIN f
                                                 /\ root[d] = root[f[d].virt] /\ depth[d] = depth[f[d].virt] + 1
  BY DEF Roots
<1>4. ASSUME NEW d \in DOMAIN h
      PROVE  /\ d = x \/ d \in DOMAIN f
             /\ r[d] = (IF d = x \/ root[d] = e THEN x ELSE root[d])
             /\ k[d] = IF d = x THEN 0 ELSE IF root[d] = e THEN depth[d] + 1 ELSE depth[d]
  BY <1>1, <1>2 DEF RootsThen
<1>5. \A d \in DOMAIN h : r[d] \in DOMAIN h /\ k[d] \in Nat /\ h[r[d]].virt = NONE
  <2> TAKE d \in DOMAIN h
  <2>1. CASE d = x
    BY <1>2, <1>4, <2>1
  <2>2. CASE d # x
    <3>1. d \in DOMAIN f /\ root[d] \in DOMAIN f /\ depth[d] \in Nat /\ f[root[d]].virt = NONE
      BY <1>3, <1>4, <2>2
    <3> QED BY <1>2, <1>4, <2>2, <3>1
  <2> QED BY <2>1, <2>2
<1>6. \A d \in DOMAIN h : h[d].virt = NONE => r[d] = d /\ k[d] = 0
  <2> SUFFICES ASSUME NEW d \in DOMAIN h, h[d].virt = NONE PROVE r[d] = d /\ k[d] = 0
    OBVIOUS
  <2>1. CASE d = x
    BY <1>4, <2>1
  <2>2. CASE d # x
    <3>1. d \in DOMAIN f /\ d # e
      BY <1>2, <1>4, <2>2
    <3>2. root[d] = d /\ depth[d] = 0
      BY <1>2, <1>3, <3>1
    <3> QED BY <1>4, <2>2, <3>1, <3>2
  <2> QED BY <2>1, <2>2
<1>7. \A d \in DOMAIN h : h[d].virt # NONE => h[d].virt \in DOMAIN h /\ r[d] = r[h[d].virt] /\ k[d] = k[h[d].virt] + 1
  <2> SUFFICES ASSUME NEW d \in DOMAIN h, h[d].virt # NONE
               PROVE  h[d].virt \in DOMAIN h /\ r[d] = r[h[d].virt] /\ k[d] = k[h[d].virt] + 1
    OBVIOUS
  <2>1. d # x /\ d \in DOMAIN f
    BY <1>2, <1>4
  <2>2. CASE d = e
    <3>1. h[d].virt = x /\ root[d] = e /\ depth[d] = 0 /\ x \in DOMAIN h
      BY <1>2, <1>3, <2>2
    <3> QED BY <1>4, <2>1, <3>1
  <2>3. CASE d # e
    <3>1. PICK v : v = f[d].virt
      OBVIOUS
    <3>2. h[d].virt = v /\ v \in DOMAIN f /\ v \in DOMAIN h /\ root[d] = root[v] /\ depth[d] = depth[v] + 1
          /\ depth[v] \in Nat
      BY <1>2, <1>3, <2>1, <2>3, <3>1
    <3>3. CASE v = x
      <4>1. root[v] = x /\ depth[v] = 0
        BY <1>2, <1>3, <3>2, <3>3
      <4> QED BY <1>2, <1>4, <2>1, <3>2, <3>3, <4>1
    <3>4. CASE v # x
      BY <1>4, <2>1, <3>2, <3>4
    <3> QED BY <3>3, <3>4
  <2> QED BY <2>2, <2>3
<1>8. r \in [DOMAIN h -> DOMAIN h] /\ k \in [DOMAIN h -> Nat]
  BY <1>1, <1>5 DEF RootsThen
<1> QED BY <1>5, <1>6, <1>7, <1>8 DEF Roots

\* The roots when there are more edges, which are their own.
LEMMA RootsGrown ==
  ASSUME NEW f, NEW h, Grown(f, h), NONE \notin DOMAIN f, NEW root, NEW depth, Roots(f, root, depth),
         NEW r, r = [d \in DOMAIN h |-> IF d \in DOMAIN f THEN root[d] ELSE d]
  PROVE  \E k : Roots(h, r, k)
<1>1. PICK k : k = [d \in DOMAIN h |-> IF d \in DOMAIN f THEN depth[d] ELSE 0]
  OBVIOUS
<1>2. \A d \in DOMAIN f : d \in DOMAIN h /\ h[d] = f[d]
  BY DEF Grown
<1>3. \A d \in DOMAIN h : d \in DOMAIN f \/ h[d].virt = NONE
  BY DEF Grown
<1>4. \A d \in DOMAIN f : root[d] \in DOMAIN f /\ depth[d] \in Nat
  BY DEF Roots
<1>5. r \in [DOMAIN h -> DOMAIN h] /\ k \in [DOMAIN h -> Nat]
  BY <1>1, <1>2, <1>4
<1>6. \A d \in DOMAIN h : h[r[d]].virt = NONE
  BY <1>2, <1>3, <1>4 DEF Roots
<1>7. \A d \in DOMAIN h : h[d].virt = NONE => r[d] = d /\ k[d] = 0
  BY <1>1, <1>2 DEF Roots
<1>8. \A d \in DOMAIN h : h[d].virt # NONE => h[d].virt \in DOMAIN h /\ r[d] = r[h[d].virt] /\ k[d] = k[h[d].virt] + 1
  <2> SUFFICES ASSUME NEW d \in DOMAIN h, h[d].virt # NONE
               PROVE  h[d].virt \in DOMAIN h /\ r[d] = r[h[d].virt] /\ k[d] = k[h[d].virt] + 1
    OBVIOUS
  <2>1. d \in DOMAIN f /\ h[d] = f[d]
    BY <1>2, <1>3
  <2>2. PICK v : v = f[d].virt
    OBVIOUS
  <2>3. v \in DOMAIN f /\ v \in DOMAIN h /\ root[d] = root[v] /\ depth[d] = depth[v] + 1
    BY <1>2, <2>1, <2>2 DEF Roots
  <2> QED BY <1>1, <2>1, <2>2, <2>3
<1> QED BY <1>5, <1>6, <1>7, <1>8 DEF Roots

\* The edges for which f stands in the end.
Borne(root, f) == {d \in Stood : root[virt[d]] = f}

Late == {"minmax2", "rank", "trouble", "done"}

\* Each edge that stands for others in the end is in the lists, and has their weights,
\* and until minmax_edges2 each edge in the lists is such a one.
Carry(root) ==
  /\ Unreplaced(fast, AllLive)
  /\ \A e \in Stood : /\ virt[e] \in DOMAIN fast /\ root[virt[e]] \in AllLive
                      /\ StoodBy(e, root[virt[e]])
  /\ \A f \in AllLive : Borne(root, f) # {} \/ pc \notin Late =>
                          fast[f].weight = Total(job.edge, Borne(root, f))

Carries ==
  /\ \E root, depth : Roots(fast, root, depth) /\ Carry(root)
  /\ pc = "class1" => \A e \in Stood : Cardinality(Before(e)) < at - 1

LEMMA EdgesWeighed ==
  ASSUME JobOk
  PROVE  IsFiniteSet(Edge) /\ \A S \in SUBSET Edge : Weighed(job.edge, S)
<1>1. PICK n \in Nat : n = Len(job.edge)
  BY DEF JobOk
<1>2. Edge = 1 .. n
  BY <1>1 DEF Edge, JobOk
<1>3. PICK a \in Int, b \in Int : a = 1 /\ b = n
  OBVIOUS
<1>4. IsFiniteSet(Edge)
  BY <1>2, <1>3, FS_Interval
<1>5. \A S \in SUBSET Edge : IsFiniteSet(S) /\ \A d \in S : job.edge[d].weight \in Nat
  BY <1>4, FS_Subset, EdgeIs
<1> QED BY <1>4, <1>5 DEF Weighed

LEMMA AddWeight ==
  ASSUME NEW g, NEW A, Good(g, A), NEW u \in Node, NEW v \in Node, u # v,
         NEW minlen, minlen \in Nat, NEW weight, weight \in Nat,
         NEW h, h = Add(g, u, v, minlen, weight), NEW e, e = Len(g.fast) + 1
  PROVE  h.fast[e].weight = weight /\ h.fast[e].virt = NONE /\ e \in DOMAIN h.fast
<1>1. Gained(g, h, Node, A, u, v, minlen, weight)
  BY AddIs DEF Good
<1>2. PICK x : x = [tail |-> u, head |-> v, minlen |-> minlen, weight |-> weight, virt |-> NONE]
  OBVIOUS
<1>3. h.fast = Append(g.fast, x)
  BY <1>1, <1>2 DEF Gained
<1>4. x \in Fast(Node) /\ x.weight = weight /\ x.virt = NONE
  BY <1>2 DEF Fast, NONE
<1>5. PICK f : f = g.fast
  OBVIOUS
<1>6. f \in Seq(Fast(Node))
  BY <1>5, ListsIs DEF Good
<1>7. Append(f, x)[Len(f) + 1] = x /\ Len(f) + 1 \in DOMAIN Append(f, x)
  BY ONLY <1>4, <1>6, LongerBy
<1> QED BY <1>3, <1>4, <1>5, <1>7

LEMMA StoodOn ==
  ASSUME Shape, job' = job, leader' = leader, NEW e \in Edge, NEW d \in AllLive, StoodBy(e, d), NEW f,
         fast'[f].minlen >= fast[d].minlen, fast'[f].minlen \in Int,
         {fast'[f].tail, fast'[f].head} = {fast[d].tail, fast[d].head}
  PROVE  StoodBy(e, f)'
<1>1. job.edge[e].minlen \in Nat
  BY EdgeIs DEF Shape
<1>2. fast[d].minlen \in Nat
  BY LiveLength
<1>3. fast'[f].minlen >= job.edge[e].minlen
  BY <1>1, <1>2 DEF StoodBy
<1>4. Ends(e)' = Ends(e)
  BY DEF Ends
<1> QED BY <1>3, <1>4 DEF StoodBy

LEMMA FastIs ==
  Shape => /\ Len(fast) \in Nat /\ DOMAIN fast = 1 .. Len(fast) /\ AllLive \subseteq DOMAIN fast
           /\ NONE \notin DOMAIN fast
           /\ \A d \in DOMAIN fast : fast[d].minlen \in Nat /\ fast[d].weight \in Nat
<1> SUFFICES ASSUME Shape
             PROVE  /\ Len(fast) \in Nat /\ DOMAIN fast = 1 .. Len(fast) /\ AllLive \subseteq DOMAIN fast
                    /\ NONE \notin DOMAIN fast
                    /\ \A d \in DOMAIN fast : fast[d].minlen \in Nat /\ fast[d].weight \in Nat
  OBVIOUS
<1>1. Lists(G, Node, AllLive) /\ G.fast = fast
  BY DEF Shape, Graph, G
<1> QED BY <1>1, ListsIs DEF NONE

LEMMA FastThen ==
  ASSUME Shape'
  PROVE  /\ Len(fast') \in Nat /\ DOMAIN fast' = 1 .. Len(fast') /\ AllLive' \subseteq DOMAIN fast'
         /\ NONE \notin DOMAIN fast'
         /\ \A d \in DOMAIN fast' : fast'[d].minlen \in Nat /\ fast'[d].weight \in Nat
<1>1. (/\ Len(fast) \in Nat /\ DOMAIN fast = 1 .. Len(fast) /\ AllLive \subseteq DOMAIN fast
       /\ NONE \notin DOMAIN fast
       /\ \A d \in DOMAIN fast : fast[d].minlen \in Nat /\ fast[d].weight \in Nat)'
  BY FastIs, PTL
<1> QED BY <1>1

\* Nothing stands for anything yet.
LEMMA NoneCarries ==
  ASSUME Shape, fast = <<>>, Stood = {}
  PROVE  Carries
<1>1. AllLive = {}
  BY FastIs
<1>2. PICK root : root = <<>>
  OBVIOUS
<1>3. Roots(fast, root, root)
  BY <1>2 DEF Roots
<1>4. Carry(root)
  BY <1>1 DEF Carry, Unreplaced
<1> QED BY <1>3, <1>4 DEF Carries

\* What is merged into a live edge is borne by it.
LEMMA RootsSame ==
  ASSUME NEW f, NEW h, DOMAIN h = DOMAIN f, \A d \in DOMAIN f : h[d].virt = f[d].virt,
         NEW root, NEW depth, Roots(f, root, depth)
  PROVE  Roots(h, root, depth)
BY DEF Roots

\* An edge is turned round.
LEMMA TurnedCarry ==
  ASSUME Shape, Shape', job' = job, leader' = leader, virt' = virt, pc' = pc, pc \notin Late,
         NEW root, NEW depth, Roots(fast, root, depth), Carry(root),
         NEW e \in AllLive, Set(Reversed(G, e))
  PROVE  \E r, k : Roots(fast', r, k) /\ Carry(r)'
<1>1. Good(G, AllLive) /\ G.fast = fast
  BY GoodG DEF Shape
<1>2. PICK h : h = Reversed(G, e)
  OBVIOUS
<1>3. PICK B, x : GoodTurned(G, h, AllLive, B, e, x)
  BY <1>1, <1>2, GoodReversed
<1>4. AllLive' = B /\ fast' = h.fast
  BY <1>2, <1>3, GoodNext DEF GoodTurned, Set
<1>5. Unreplaced(fast, AllLive)
  BY DEF Carry
<1>6. /\ B = (AllLive \ {e}) \cup {x} /\ Joins(fast', x, fast[e].head, fast[e].tail)
      /\ Extends(fast, fast') /\ fast'[x].minlen >= fast[e].minlen
      /\ \A d \in DOMAIN fast : fast'[d].minlen >= fast[d].minlen
      /\ Bears(fast, fast', AllLive, e, x)
  BY <1>1, <1>3, <1>4, <1>5 DEF GoodTurned, Turned, LongAfter
<1>7. PICK r : RootsThen(fast, fast', root, e, x, r)
  BY DEF RootsThen
<1>8. AllLive \subseteq DOMAIN fast /\ NONE \notin DOMAIN fast' /\ \A d \in DOMAIN fast' : fast'[d].minlen \in Nat
  BY FastIs, FastThen
<1>9. PICK k : Roots(fast', r, k)
  <2>1. PICK f, g, A : f = fast /\ g = fast' /\ A = AllLive
    OBVIOUS
  <2>2. /\ Unreplaced(f, A) /\ e \in A /\ Bears(f, g, A, e, x) /\ A \subseteq DOMAIN f
        /\ NONE \notin DOMAIN g /\ Roots(f, root, depth) /\ RootsThen(f, g, root, e, x, r)
    BY <1>5, <1>6, <1>7, <1>8, <2>1
  <2>3. \E k : Roots(g, r, k)
    BY ONLY <2>2, RootsBorne
  <2> QED BY <2>1, <2>3
<1>10. /\ x # e /\ (x \in AllLive \/ x \notin DOMAIN fast) /\ DOMAIN fast' = DOMAIN fast \cup {x}
       /\ fast'[x].virt = NONE /\ \A d \in DOMAIN fast : d # e => fast'[d].virt = fast[d].virt
       /\ \A d \in DOMAIN fast : d # x => fast'[d].weight = fast[d].weight
       /\ x \in AllLive => fast'[x].weight = fast[x].weight + fast[e].weight
       /\ x \notin DOMAIN fast => fast'[x].weight = fast[e].weight
  BY <1>6 DEF Bears
<1>11. Unreplaced(fast', AllLive')
  BY <1>4, <1>5, <1>6, <1>8, <1>10 DEF Unreplaced
<1>12. Stood' = Stood /\ Edge' = Edge /\ Stood \subseteq Edge
  BY DEF Stood, Edge
<1>13. ASSUME NEW d \in Stood
       PROVE  /\ virt[d] \in DOMAIN fast /\ root[virt[d]] \in AllLive
              /\ r[virt[d]] = IF root[virt[d]] = e THEN x ELSE root[virt[d]]
  <2>1. virt[d] \in DOMAIN fast /\ root[virt[d]] \in AllLive
    BY DEF Carry
  <2>2. virt[d] \in DOMAIN fast'
    BY <1>10, <2>1
  <2>3. r[virt[d]] = IF virt[d] = x \/ root[virt[d]] = e THEN x ELSE root[virt[d]]
    BY <1>7, <2>2 DEF RootsThen
  <2>4. CASE virt[d] = x
    <3>1. x \in AllLive /\ x \in DOMAIN fast
      BY <1>10, <2>1, <2>4
    <3>2. root[x] = x
      BY <1>5, <3>1 DEF Unreplaced, Roots
    <3> QED BY <2>1, <2>3, <2>4, <3>2
  <2> QED BY <2>1, <2>3, <2>4
<1>14. ASSUME NEW d \in Stood
       PROVE  virt'[d] \in DOMAIN fast' /\ r[virt'[d]] \in AllLive' /\ StoodBy(d, r[virt[d]])'
  <2>1. PICK a, b : a = root[virt[d]] /\ b = r[virt[d]]
    OBVIOUS
  <2>2. a \in AllLive /\ a \in DOMAIN fast /\ StoodBy(d, a) /\ b = IF a = e THEN x ELSE a
    BY <1>8, <1>13, <2>1 DEF Carry
  <2>3. b \in AllLive' /\ b \in DOMAIN fast' /\ fast'[b].minlen \in Int
    BY <1>4, <1>6, <1>8, <1>10, <2>2
  <2>4. fast'[b].minlen >= fast[a].minlen /\ {fast'[b].tail, fast'[b].head} = {fast[a].tail, fast[a].head}
    <3>1. CASE a = e
      BY <1>6, <2>2, <3>1 DEF Joins
    <3>2. CASE a # e
      BY <1>6, <2>2, <3>2 DEF Extends
    <3> QED BY <3>1, <3>2
  <2>5. StoodBy(d, b)'
    BY <1>12, <2>2, <2>3, <2>4, StoodOn
  <2>6. virt'[d] = virt[d] /\ virt[d] \in DOMAIN fast'
    BY <1>10, <1>13
  <2> QED BY <2>1, <2>3, <2>5, <2>6 DEF StoodBy
<1>15. \A f : Borne(r, f)' = {d \in Stood : r[virt[d]] = f}
  BY <1>12 DEF Borne
<1>16. ASSUME NEW f \in AllLive' PROVE fast'[f].weight = Total(job.edge, Borne(r, f)')
  <2>1. CASE f # x
    <3>1. f \in AllLive /\ f # e /\ f \in DOMAIN fast
      BY <1>4, <1>6, <1>8, <2>1
    <3>2. Borne(r, f)' = Borne(root, f)
      BY <1>13, <1>15, <2>1, <3>1 DEF Borne
    <3>3. fast[f].weight = Total(job.edge, Borne(root, f))
      BY <3>1 DEF Carry
    <3> QED BY <1>10, <2>1, <3>1, <3>2, <3>3
  <2>2. CASE f = x
    <3>1. PICK S, T, E : S = Borne(root, e) /\ T = Borne(root, x) /\ E = job.edge
      OBVIOUS
    <3>2. Borne(r, f)' = S \cup T /\ S \cap T = {} /\ S \subseteq Edge /\ T \subseteq Edge
      <4>1. Borne(r, f)' = S \cup T
        BY <1>13, <1>15, <2>2, <3>1 DEF Borne
      <4>2. S \cap T = {} /\ S \subseteq Edge /\ T \subseteq Edge
        BY <1>10, <1>12, <3>1 DEF Borne
      <4> QED BY <4>1, <4>2
    <3>3. Weighed(E, S) /\ Weighed(E, T)
      BY <3>1, <3>2, EdgesWeighed DEF Shape
    <3>4. fast[e].weight = Total(E, S) /\ fast[e].weight \in Nat
      BY <1>8, <3>1, FastIs DEF Carry
    <3>5. Total(E, S \cup T) = Total(E, S) + Total(E, T)
      BY <3>2, <3>3, TotalBoth
    <3>6. CASE x \in AllLive
      <4>1. fast[x].weight = Total(E, T) /\ fast[x].weight \in Nat
        BY <1>8, <3>1, <3>6, FastIs DEF Carry
      <4> QED BY <1>10, <2>2, <3>1, <3>2, <3>4, <3>5, <3>6, <4>1
    <3>7. CASE x \notin AllLive
      <4>1. x \notin DOMAIN fast
        BY <1>10, <3>7
      <4>2. T = {}
        BY <1>13, <3>1, <3>7 DEF Borne
      <4>3. S \cup T = S
        BY <4>2
      <4> QED BY <1>10, <2>2, <3>1, <3>2, <3>4, <4>1, <4>3
    <3> QED BY <3>6, <3>7
  <2> QED BY <2>1, <2>2
<1>17. Carry(r)'
  <2>1. \A d \in Stood' : virt'[d] \in DOMAIN fast' /\ r[virt'[d]] \in AllLive' /\ StoodBy(d, r[virt[d]])'
    BY <1>12, <1>14
  <2>2. job'.edge = job.edge
    OBVIOUS
  <2> QED BY <1>11, <1>16, <2>1, <2>2 DEF Carry
<1> QED BY <1>9, <1>17

\* An edge of the graph gets its turn.
LEMMA PlacedCarry ==
  ASSUME Shape, Shape', Class1, NEW root, NEW depth, Roots(fast, root, depth), Carry(root),
         NEW e \in Edge, e \notin Stood, Placed(e)
  PROVE  /\ \E r, k : Roots(fast', r, k) /\ Carry(r)'
         /\ Stood' \subseteq Stood \cup {e}
<1>1. /\ job' = job /\ leader' = leader /\ virt \in [Edge -> Nat] /\ Edge' = Edge
      /\ pc = "class1" /\ pc' = "class1" /\ Stood \subseteq Edge
  BY DEF Class1, sets, Shape, Edge, Stood
<1>2. PICK y, t, u : y = job.edge[e] /\ t = leader[y.tail] /\ u = leader[y.head]
  OBVIOUS
<1>3. y.minlen \in Nat /\ y.weight \in Nat /\ t \in Leaders /\ u \in Leaders /\ t \in Node /\ u \in Node
  BY <1>2, EdgeIs, LeaderIs DEF Shape
<1>4. PICK rep : rep = Find(G, t, u)
  OBVIOUS
<1>5. Good(G, AllLive) /\ G.fast = fast
  BY GoodG DEF Shape
<1>6. /\ rep = NONE => NoneJoins(fast, AllLive, t, u)
      /\ rep # NONE => rep \in AllLive /\ Joins(fast, rep, t, u)
  BY <1>3, <1>4, <1>5, FindIs DEF Good
<1>7. /\ AllLive \subseteq DOMAIN fast /\ NONE \notin DOMAIN fast /\ NONE \notin DOMAIN fast'
      /\ Len(fast) \in Nat /\ DOMAIN fast = 1 .. Len(fast)
      /\ \A d \in DOMAIN fast : fast[d].minlen \in Nat /\ fast[d].weight \in Nat
      /\ \A d \in DOMAIN fast' : fast'[d].minlen \in Nat
  BY FastIs, FastThen
<1>8. Unreplaced(fast, AllLive)
  BY DEF Carry
<1>9. \A d \in Stood : virt[d] \in DOMAIN fast /\ root[virt[d]] \in AllLive /\ StoodBy(d, root[virt[d]])
  BY DEF Carry
<1>10. \A f \in AllLive : fast[f].weight = Total(job.edge, Borne(root, f))
  BY <1>1 DEF Carry, Late
<1>11. Ends(e)' = {t, u}
  BY <1>1, <1>2 DEF Ends
<1>12. CASE UNCHANGED <<fastgraph, virt>>
  <2>1. virt' = virt /\ fast' = fast /\ AllLive' = AllLive /\ Stood' = Stood /\ pc' = pc
    BY <1>1, <1>12 DEF fastgraph, AllLive, Edges, Live, Node, Stood
  <2>2. \A f : Borne(root, f)' = Borne(root, f)
    BY <2>1 DEF Borne
  <2>3. \A d \in Stood : StoodBy(d, root[virt[d]])'
    BY <1>1, <1>9, <2>1 DEF StoodBy, Ends
  <2>4. Carry(root)'
    BY <1>1, <1>8, <1>9, <1>10, <2>1, <2>2, <2>3 DEF Carry
  <2> QED BY <2>1, <2>4
<1>13. CASE /\ rep # NONE /\ Set(Merge(G, y.minlen, y.weight, rep))
            /\ virt' = [virt EXCEPT ![e] = rep]
  <2>1. PICK g : g = Merge(G, y.minlen, y.weight, rep)
    OBVIOUS
  <2>2. rep \in AllLive /\ rep \in DOMAIN fast /\ fast[rep].virt = NONE /\ Joins(fast, rep, t, u)
    BY <1>6, <1>7, <1>8, <1>13 DEF Unreplaced
  <2>3. Good(g, AllLive) /\ SameEnds(fast, g.fast)
    BY <1>3, <1>5, <2>1, GoodMerge
  <2>4. AllLive' = AllLive /\ fast' = g.fast
    BY <1>1, <1>13, <2>1, <2>3, GoodNext DEF Set
  <2>5. Lists(G, Node, AllLive)
    BY <1>5 DEF Good
  <2>6. /\ \A d \in DOMAIN fast : fast'[d].virt = fast[d].virt /\ (d # rep => fast'[d].weight = fast[d].weight)
        /\ DOMAIN fast' = DOMAIN fast /\ fast'[rep].weight = fast[rep].weight + y.weight
    BY <1>3, <1>5, <2>1, <2>2, <2>4, <2>5, MergeWeight
  <2>7. \A d \in DOMAIN fast : fast'[d].minlen >= fast[d].minlen /\ (d = rep => fast'[d].minlen >= y.minlen)
    BY <1>3, <1>5, <2>1, <2>4, <2>5, MergeLong
  <2>8. \A d \in DOMAIN fast : fast'[d].tail = fast[d].tail /\ fast'[d].head = fast[d].head
    BY <2>3, <2>4 DEF SameEnds
  <2>9. Roots(fast', root, depth)
    BY <2>6, RootsSame
  <2>10. Unreplaced(fast', AllLive')
    BY <1>7, <1>8, <2>4, <2>6 DEF Unreplaced
  <2>11. virt'[e] = rep /\ (\A d \in Edge : d # e => virt'[d] = virt[d]) /\ Stood' = Stood \cup {e}
    <3>1. virt'[e] = rep /\ \A d \in Edge : d # e => virt'[d] = virt[d]
      BY <1>1, <1>13
    <3> QED BY <1>1, <1>13, <3>1 DEF Stood
  <2>12. root[rep] = rep
    BY <2>2 DEF Roots
  <2>13. ASSUME NEW d \in Stood'
         PROVE  virt'[d] \in DOMAIN fast' /\ root[virt'[d]] \in AllLive' /\ StoodBy(d, root[virt[d]])'
    <3>1. CASE d = e
      <4>1. StoodBy(d, rep)'
        <5>1. fast'[rep].minlen >= y.minlen /\ {fast'[rep].tail, fast'[rep].head} = {t, u}
          BY <2>2, <2>7, <2>8 DEF Joins
        <5> QED BY <1>1, <1>2, <1>11, <3>1, <5>1 DEF StoodBy
      <4>2. root[virt'[d]] = rep
        BY <2>11, <2>12, <3>1
      <4> QED BY <2>2, <2>4, <2>6, <2>11, <3>1, <4>1, <4>2 DEF StoodBy
    <3>2. CASE d # e
      <4>1. PICK a : a = root[virt[d]]
        OBVIOUS
      <4>2. d \in Stood /\ d \in Edge /\ virt'[d] = virt[d]
        BY <1>1, <2>11, <3>2
      <4>3. virt[d] \in DOMAIN fast /\ a \in AllLive /\ StoodBy(d, a) /\ a \in DOMAIN fast
        BY <1>7, <1>9, <4>1, <4>2
      <4>4. fast'[a].minlen \in Int
        BY <1>7, <2>6, <4>3
      <4>5. fast'[a].minlen >= fast[a].minlen /\ {fast'[a].tail, fast'[a].head} = {fast[a].tail, fast[a].head}
        BY <2>7, <2>8, <4>3
      <4>6. StoodBy(d, a)'
        BY <1>1, <4>2, <4>3, <4>4, <4>5, StoodOn
      <4> QED BY <2>4, <2>6, <4>1, <4>2, <4>3, <4>6 DEF StoodBy
    <3> QED BY <3>1, <3>2
  <2>14. \A f : Borne(root, f)' = {d \in Stood \cup {e} : root[virt'[d]] = f}
    BY <2>11 DEF Borne
  <2>15. ASSUME NEW f \in AllLive' PROVE fast'[f].weight = Total(job.edge, Borne(root, f)')
    <3>1. f \in AllLive /\ f \in DOMAIN fast
      BY <1>7, <2>4
    <3>2. CASE f # rep
      <4>1. Borne(root, f)' = Borne(root, f)
        BY <1>1, <2>11, <2>12, <2>14, <3>2 DEF Borne
      <4> QED BY <1>10, <2>6, <3>1, <3>2, <4>1
    <3>3. CASE f = rep
      <4>1. PICK S, T, E : S = Borne(root, f) /\ T = S \cup {e} /\ E = job.edge
        OBVIOUS
      <4>2. Borne(root, f)' = T
        BY <1>1, <2>11, <2>12, <2>14, <3>3, <4>1 DEF Borne
      <4>3. S \subseteq Edge /\ T \subseteq Edge /\ e \notin S
        BY <1>1, <4>1 DEF Borne
      <4>4. Weighed(E, T) /\ e \in T /\ T \ {e} = S
        BY <4>1, <4>3, EdgesWeighed DEF Shape
      <4>5. Total(E, T) = E[e].weight + Total(E, S)
        BY <4>4, TotalWith
      <4>6. fast[f].weight = Total(E, S) /\ fast[f].weight \in Nat
        BY <1>7, <1>10, <3>1, <4>1
      <4> QED BY <1>2, <1>3, <2>6, <3>3, <4>1, <4>2, <4>5, <4>6
    <3> QED BY <3>2, <3>3
  <2>16. Carry(root)'
    <3>1. job'.edge = job.edge
      BY <1>1
    <3> QED BY <2>10, <2>13, <2>15, <3>1 DEF Carry
  <2> QED BY <2>9, <2>11, <2>16
<1>14. CASE /\ t # u /\ rep = NONE /\ Set(Add(G, t, u, y.minlen, y.weight))
            /\ virt' = [virt EXCEPT ![e] = Len(fast) + 1]
  <2>1. PICK g, n : g = Add(G, t, u, y.minlen, y.weight) /\ n = Len(fast) + 1
    OBVIOUS
  <2>2. Good(g, AllLive \cup {n}) /\ Grown(fast, g.fast) /\ Joins(g.fast, n, t, u) /\ n \notin DOMAIN fast
    BY <1>3, <1>5, <1>6, <1>14, <2>1, GoodAdd
  <2>3. g.fast[n].minlen = y.minlen
    BY <1>3, <1>5, <1>14, <2>1, AddLong
  <2>4. g.fast[n].weight = y.weight /\ g.fast[n].virt = NONE /\ n \in DOMAIN g.fast
    BY <1>3, <1>5, <1>14, <2>1, AddWeight
  <2>5. AllLive' = AllLive \cup {n} /\ fast' = g.fast
    BY <1>1, <1>14, <2>1, <2>2, GoodNext DEF Set
  <2>6. \A d \in DOMAIN fast : d \in DOMAIN fast' /\ fast'[d] = fast[d]
    BY <2>2, <2>5 DEF Grown
  <2>7. PICK r : r = [d \in DOMAIN fast' |-> IF d \in DOMAIN fast THEN root[d] ELSE d]
    OBVIOUS
  <2>8. PICK k : Roots(fast', r, k)
    <3>1. PICK f, h : f = fast /\ h = fast'
      OBVIOUS
    <3>2. /\ Grown(f, h) /\ NONE \notin DOMAIN f /\ Roots(f, root, depth)
          /\ r = [d \in DOMAIN h |-> IF d \in DOMAIN f THEN root[d] ELSE d]
      BY <1>7, <2>2, <2>5, <2>7, <3>1
    <3>3. \E k : Roots(h, r, k)
      BY ONLY <3>2, RootsGrown
    <3> QED BY <3>1, <3>3
  <2>9. Unreplaced(fast', AllLive')
    BY <1>7, <1>8, <2>4, <2>5, <2>6 DEF Unreplaced
  <2>10. virt'[e] = n /\ (\A d \in Edge : d # e => virt'[d] = virt[d]) /\ Stood' = Stood \cup {e}
    <3>1. virt'[e] = n /\ \A d \in Edge : d # e => virt'[d] = virt[d]
      BY <1>1, <1>14, <2>1
    <3>2. n # NONE
      BY <1>7, <2>4, <2>5
    <3> QED BY <1>1, <3>1, <3>2 DEF Stood
  <2>11. r[n] = n /\ \A d \in Stood : r[virt[d]] = root[virt[d]] /\ root[virt[d]] # n
    <3>1. r[n] = n
      BY <2>2, <2>4, <2>5, <2>7
    <3>2. \A d \in Stood : r[virt[d]] = root[virt[d]]
      BY <1>9, <2>6, <2>7
    <3>3. n \notin AllLive
      BY <1>7, <2>2
    <3> QED BY <1>9, <3>1, <3>2, <3>3
  <2>12. ASSUME NEW d \in Stood'
         PROVE  virt'[d] \in DOMAIN fast' /\ r[virt'[d]] \in AllLive' /\ StoodBy(d, r[virt[d]])'
    <3>1. CASE d = e
      <4>1. StoodBy(d, n)'
        <5>1. fast'[n].minlen >= y.minlen /\ {fast'[n].tail, fast'[n].head} = {t, u}
          BY <1>3, <2>2, <2>3, <2>5 DEF Joins
        <5> QED BY <1>1, <1>2, <1>11, <3>1, <5>1 DEF StoodBy
      <4>2. r[virt'[d]] = n
        BY <2>10, <2>11, <3>1
      <4> QED BY <2>4, <2>5, <2>10, <3>1, <4>1, <4>2 DEF StoodBy
    <3>2. CASE d # e
      <4>1. PICK a : a = root[virt[d]]
        OBVIOUS
      <4>2. d \in Stood /\ d \in Edge /\ virt'[d] = virt[d] /\ r[virt'[d]] = a
        BY <1>1, <2>10, <2>11, <3>2, <4>1
      <4>3. virt[d] \in DOMAIN fast /\ a \in AllLive /\ StoodBy(d, a) /\ a \in DOMAIN fast
        BY <1>7, <1>9, <4>1, <4>2
      <4>4. fast'[a] = fast[a] /\ fast[a].minlen \in Nat
        BY <1>7, <2>6, <4>3
      <4>5. fast'[a].minlen >= fast[a].minlen /\ fast'[a].minlen \in Int
        BY <4>4
      <4>6. StoodBy(d, a)'
        BY <1>1, <4>2, <4>3, <4>4, <4>5, StoodOn
      <4> QED BY <2>5, <2>6, <4>2, <4>3, <4>6 DEF StoodBy
    <3> QED BY <3>1, <3>2
  <2>13. \A f : Borne(r, f)' = {d \in Stood \cup {e} : r[virt'[d]] = f}
    BY <2>10 DEF Borne
  <2>14. ASSUME NEW f \in AllLive' PROVE fast'[f].weight = Total(job.edge, Borne(r, f)')
    <3>1. CASE f # n
      <4>1. f \in AllLive /\ fast'[f] = fast[f]
        BY <1>7, <2>5, <2>6, <3>1
      <4>2. Borne(r, f)' = Borne(root, f)
        BY <1>1, <2>10, <2>11, <2>13, <3>1 DEF Borne
      <4> QED BY <1>10, <4>1, <4>2
    <3>2. CASE f = n
      <4>1. PICK E : E = job.edge
        OBVIOUS
      <4>2. Borne(r, f)' = {e}
        BY <1>1, <2>10, <2>11, <2>13, <3>2
      <4>3. {e} \subseteq Edge /\ {e} \ {e} = {} /\ e \in {e}
        OBVIOUS
      <4>4. Weighed(E, {e})
        BY <4>1, <4>3, EdgesWeighed DEF Shape
      <4>5. Total(E, {e}) = E[e].weight + Total(E, {e} \ {e})
        BY <4>3, <4>4, TotalWith
      <4>6. Total(E, {e}) = E[e].weight + 0
        BY <4>3, <4>5, TotalNone
      <4> QED BY <1>2, <1>3, <2>4, <2>5, <3>2, <4>1, <4>2, <4>6
    <3> QED BY <3>1, <3>2
  <2>15. Carry(r)'
    <3>1. job'.edge = job.edge
      BY <1>1
    <3> QED BY <2>9, <2>12, <2>14, <3>1 DEF Carry
  <2> QED BY <2>8, <2>10, <2>15
<1> QED BY <1>2, <1>4, <1>12, <1>13, <1>14 DEF Placed

LEMMA CollapseCarries ==
  ASSUME Shape, Shape', Stands, CollapseRankset \/ CollapseDone
  PROVE  Carries'
<1>1. /\ job' = job /\ virt' = virt /\ pc = "collapse" /\ fast' = fast
  BY DEF CollapseRankset, CollapseDone, fastgraph
<1>2. fast' = <<>> /\ Stood' = {}
  BY <1>1 DEF Shape, Stands, Stood, Edge
<1>3. (Shape /\ fast = <<>> /\ Stood = {} => Carries)'
  BY NoneCarries, PTL
<1> QED BY <1>2, <1>3

LEMMA Class1Carries ==
  ASSUME Shape, Shape', Carries, Class1
  PROVE  Carries'
<1>1. job' = job /\ Edge' = Edge /\ pc = "class1" /\ pc' = "class1" /\ at' = at + 1 /\ at \in Nat
  BY DEF Class1, Shape, Edge
<1>2. PICK e \in Edge : Turn(e) /\ Placed(e)
  BY PlacedIs
<1>3. Cardinality(Before(e)) = at - 1
  BY <1>2 DEF Turn, Before
<1>4. \A d \in Stood : Cardinality(Before(d)) < at - 1
  BY <1>1 DEF Carries
<1>5. e \notin Stood
  BY <1>1, <1>3, <1>4
<1>6. PICK root, depth : Roots(fast, root, depth) /\ Carry(root)
  BY DEF Carries
<1>7. (\E r, k : Roots(fast', r, k) /\ Carry(r)') /\ Stood' \subseteq Stood \cup {e}
  BY <1>2, <1>5, <1>6, PlacedCarry
<1>8. \A d \in Edge : Before(d)' = Before(d)
  BY <1>1 DEF Before, Earlier
<1>9. ASSUME NEW d \in Stood' PROVE Cardinality(Before(d))' < at' - 1
  <2>1. d \in Edge /\ Before(d)' = Before(d)
    BY <1>1, <1>8 DEF Stood
  <2>2. PICK c : c = Cardinality(Before(d))
    OBVIOUS
  <2>3. c \in Nat
    BY <2>1, <2>2, BeforeIs DEF Shape
  <2>4. c < at - 1 \/ c = at - 1
    BY <1>3, <1>4, <1>7, <2>2
  <2>5. c < at' - 1
    BY <1>1, <2>3, <2>4
  <2> QED BY <2>1, <2>2, <2>5
<1> QED BY <1>7, <1>9 DEF Carries

LEMMA TurnedCarries ==
  ASSUME Shape, Shape', Carries, MaxsetReverse \/ MinsetReverse,
         NEW e, Against(e)
  PROVE  Carries'
<1>1. /\ job' = job /\ virt' = virt /\ leader' = leader /\ pc' = pc /\ pc \notin Late /\ pc # "class1"
  BY DEF MaxsetReverse, MinsetReverse, sets, Late
<1>2. PICK root, depth : Roots(fast, root, depth) /\ Carry(root)
  BY DEF Carries
<1>3. \E r, k : Roots(fast', r, k) /\ Carry(r)'
  BY <1>1, <1>2, TurnedCarry DEF Against
<1> QED BY <1>1, <1>3 DEF Carries

\* The fast graph stays, or is as good as settled.
LEMMA SameCarries ==
  ASSUME Carries, job' = job, leader' = leader, virt' = virt, UNCHANGED fastgraph,
         pc \in Late => pc' \in Late, pc' = "class1" => pc = "class1" /\ at' = at
  PROVE  Carries'
<1>1. PICK root, depth : Roots(fast, root, depth) /\ Carry(root)
  BY DEF Carries
<1>2. fast' = fast /\ AllLive' = AllLive /\ Edge' = Edge /\ Stood' = Stood
  BY DEF fastgraph, AllLive, Edges, Live, Node, Edge, Stood
<1>3. \A f : Borne(root, f)' = Borne(root, f)
  BY <1>2 DEF Borne
<1>4. \A e \in Edge : Before(e)' = Before(e) /\ \A f : StoodBy(e, f)' <=> StoodBy(e, f)
  BY <1>2 DEF Before, Earlier, StoodBy, Ends
<1>5. ASSUME NEW e \in Stood'
      PROVE  virt'[e] \in DOMAIN fast' /\ root[virt'[e]] \in AllLive' /\ StoodBy(e, root[virt[e]])'
  <2>1. PICK a : a = root[virt[e]]
    OBVIOUS
  <2>2. e \in Stood /\ e \in Edge /\ virt[e] \in DOMAIN fast /\ a \in AllLive /\ StoodBy(e, a)
    BY <1>1, <1>2, <2>1 DEF Carry, Stood
  <2>3. StoodBy(e, a)' /\ virt'[e] = virt[e]
    BY <1>4, <2>2
  <2> QED BY <1>2, <2>1, <2>2, <2>3 DEF StoodBy
<1>6. Unreplaced(fast', AllLive') /\ job'.edge = job.edge
  BY <1>1, <1>2 DEF Carry
<1>7. \A f \in AllLive' : Borne(root, f)' # {} \/ pc' \notin Late =>
                            fast'[f].weight = Total(job'.edge, Borne(root, f)')
  BY <1>1, <1>2, <1>3, <1>6 DEF Carry
<1>8. Carry(root)'
  BY <1>5, <1>6, <1>7 DEF Carry
<1>9. pc' = "class1" => \A e \in Stood' : Cardinality(Before(e))' < at' - 1
  BY <1>2, <1>4 DEF Carries, Stood
<1> QED BY <1>1, <1>2, <1>8, <1>9 DEF Carries

LEMMA DfsEdgeCarries ==
  ASSUME Shape, Shape', Carries, DfsEdge
  PROVE  Carries'
<1>1. /\ job' = job /\ virt' = virt /\ leader' = leader /\ pc' = pc /\ pc \notin Late /\ pc # "class1"
  BY DEF DfsEdge, sets, Late
<1>2. PICK e \in AllLive, w \in Leaders, i \in Nat \ {0} : Followed(e, w, i)
  BY FollowedIs
<1>3. CASE Set(Reversed(G, e))
  <2>1. PICK root, depth : Roots(fast, root, depth) /\ Carry(root)
    BY DEF Carries
  <2>2. \E r, k : Roots(fast', r, k) /\ Carry(r)'
    BY <1>1, <1>3, <2>1, TurnedCarry
  <2> QED BY <1>1, <2>2 DEF Carries
<1>4. CASE UNCHANGED fastgraph
  BY <1>1, <1>4, SameCarries
<1> QED BY <1>2, <1>3, <1>4 DEF Followed

\* What minmax_edges2 makes stands for no edge.
LEMMA Minmax2Carries ==
  ASSUME Shape, Shape', Carries, Minmax2
  PROVE  Carries'
<1>1. /\ job' = job /\ virt' = virt /\ leader' = leader /\ pc' = pc /\ pc \in Late /\ pc # "class1"
  BY DEF Minmax2, sets, Late
<1>2. PICK h, B : Minmax2So(h, B)
  BY Minmax2Is
<1>3. CASE UNCHANGED fastgraph
  BY <1>1, <1>3, SameCarries
<1>4. CASE Set(h) /\ TiedSo(G, h, AllLive, B, at)
  <2>1. PICK root, depth : Roots(fast, root, depth) /\ Carry(root)
    BY DEF Carries
  <2>2. AllLive' = B /\ fast' = h.fast /\ G.fast = fast
    BY <1>1, <1>4, GoodNext DEF TiedSo, Set, G
  <2>3. /\ AllLive \subseteq DOMAIN fast /\ NONE \notin DOMAIN fast /\ AllLive' \subseteq DOMAIN fast'
        /\ \A d \in DOMAIN fast : fast[d].minlen \in Nat
    BY FastIs, FastThen
  <2>4. Grown(fast, fast') /\ AllLive \subseteq AllLive' /\ \A d \in AllLive' \ AllLive : d \notin DOMAIN fast
    BY <1>4, <2>2 DEF TiedSo
  <2>5. /\ \A d \in DOMAIN fast : d \in DOMAIN fast' /\ fast'[d] = fast[d]
        /\ \A d \in DOMAIN fast' : d \in DOMAIN fast \/ fast'[d].virt = NONE
    BY <2>4 DEF Grown
  <2>6. PICK r : r = [d \in DOMAIN fast' |-> IF d \in DOMAIN fast THEN root[d] ELSE d]
    OBVIOUS
  <2>7. PICK k : Roots(fast', r, k)
    <3>1. PICK f, g : f = fast /\ g = fast'
      OBVIOUS
    <3>2. /\ Grown(f, g) /\ NONE \notin DOMAIN f /\ Roots(f, root, depth)
          /\ r = [d \in DOMAIN g |-> IF d \in DOMAIN f THEN root[d] ELSE d]
      BY <2>1, <2>3, <2>4, <2>6, <3>1
    <3>3. \E k : Roots(g, r, k)
      BY ONLY <3>2, RootsGrown
    <3> QED BY <3>1, <3>3
  <2>8. Unreplaced(fast', AllLive')
    BY <2>1, <2>3, <2>4, <2>5 DEF Carry, Unreplaced
  <2>9. Stood' = Stood /\ Edge' = Edge /\ Stood \subseteq Edge
    BY <1>1 DEF Stood, Edge
  <2>10. ASSUME NEW d \in Stood
         PROVE  /\ virt'[d] \in DOMAIN fast' /\ r[virt[d]] = root[virt[d]] /\ r[virt'[d]] \in AllLive'
                /\ r[virt[d]] \in AllLive /\ StoodBy(d, r[virt[d]])'
    <3>1. PICK a : a = root[virt[d]]
      OBVIOUS
    <3>2. virt[d] \in DOMAIN fast /\ a \in AllLive /\ StoodBy(d, a) /\ a \in DOMAIN fast
      BY <2>1, <2>3, <3>1 DEF Carry
    <3>3. r[virt[d]] = a /\ virt'[d] = virt[d]
      BY <1>1, <2>5, <2>6, <3>1, <3>2
    <3>4. fast'[a] = fast[a] /\ fast[a].minlen \in Nat
      BY <2>3, <2>5, <3>2
    <3>5. fast'[a].minlen >= fast[a].minlen /\ fast'[a].minlen \in Int
      BY <3>4
    <3>6. StoodBy(d, a)'
      BY <1>1, <2>9, <3>2, <3>4, <3>5, StoodOn
    <3> QED BY <2>4, <2>5, <3>1, <3>2, <3>3, <3>6 DEF StoodBy
  <2>11. \A f : Borne(r, f)' = Borne(root, f)
    BY <1>1, <2>9, <2>10 DEF Borne
  <2>12. ASSUME NEW f \in AllLive', Borne(r, f)' # {} PROVE fast'[f].weight = Total(job.edge, Borne(r, f)')
    <3>1. Borne(root, f) # {}
      BY <2>11, <2>12
    <3>2. f \in AllLive
      BY <2>10, <3>1 DEF Borne
    <3>3. fast[f].weight = Total(job.edge, Borne(root, f)) /\ fast'[f] = fast[f]
      BY <2>1, <2>3, <2>5, <3>1, <3>2 DEF Carry
    <3> QED BY <2>11, <3>3
  <2>13. Carry(r)'
    <3>1. job'.edge = job.edge
      BY <1>1
    <3>2. \A d \in Stood' : virt'[d] \in DOMAIN fast' /\ r[virt'[d]] \in AllLive' /\ StoodBy(d, r[virt[d]])'
      BY <2>9, <2>10
    <3> QED BY <1>1, <2>8, <2>12, <3>1, <3>2 DEF Carry
  <2> QED BY <1>1, <2>7, <2>13 DEF Carries
<1> QED BY <1>2, <1>3, <1>4 DEF Minmax2So

LEMMA QuietCarries ==
  ASSUME Carries,
         \/ Class1Done \/ MaxsetDone \/ FirstDecompose \/ BeginComponent \/ DfsRoot \/ DfsReturn
         \/ AcyclicDone \/ SecondDecompose \/ RankComponent \/ Expand \/ UNCHANGED vars
  PROVE  Carries'
<1>1. /\ job' = job /\ leader' = leader /\ UNCHANGED fastgraph /\ virt' = virt
      /\ pc \in Late => pc' \in Late
      /\ pc' = "class1" => pc = "class1" /\ at' = at
  <2>1. CASE Class1Done \/ MaxsetDone \/ FirstDecompose \/ BeginComponent \/ DfsReturn \/ AcyclicDone \/ Expand
    BY <2>1 DEF Class1Done, MaxsetDone, FirstDecompose, BeginComponent, DfsReturn, AcyclicDone, Expand, sets, Late
  <2>2. CASE DfsRoot
    <3>1. pc = "dfs" /\ pc' \in {"dfs", "acyclic"} /\ UNCHANGED <<job, sets, fastgraph, virt>>
      BY <2>2 DEF DfsRoot
    <3> QED BY <3>1 DEF sets, Late
  <2>3. CASE SecondDecompose \/ RankComponent
    <3>1. pc \in {"minmax2", "rank"} /\ pc' \in {"rank", "trouble"} /\ UNCHANGED <<job, sets, fastgraph, virt>>
      BY <2>3 DEF SecondDecompose, RankComponent
    <3> QED BY <3>1 DEF sets, Late
  <2>4. CASE UNCHANGED vars
    BY <2>4 DEF vars, fastgraph
  <2> QED BY <2>1, <2>2, <2>3, <2>4
<1> QED BY <1>1, SameCarries

LEMMA CarriesInit == ASSUME Init PROVE Carries
<1>1. fast = <<>> /\ virt = [e \in Edge |-> NONE]
  BY DEF Init, Edge
<1>2. Stood = {}
  BY <1>1 DEF Stood
<1> QED BY <1>1, <1>2, ShapeInit, NoneCarries

LEMMA CarriesNext == ASSUME Shape, Stands, Carries, [Next]_vars PROVE Carries'
<1>1. Shape'
  BY ShapeNext
<1>2. CASE MaxsetReverse \/ MinsetReverse
  BY <1>1, <1>2, AgainstIs, TurnedCarries
<1> QED
  BY <1>1, <1>2, CollapseCarries, Class1Carries, DfsEdgeCarries, Minmax2Carries, QuietCarries
     DEF Next

LEMMA CarriedRepresented ==
  ASSUME Shape, Carries
  PROVE  Represented
<1>1. PICK root, depth : Roots(fast, root, depth) /\ Carry(root)
  BY DEF Carries
<1>2. PICK n \in Nat : n = Len(fast) /\ DOMAIN fast = 1 .. n
  BY FastIs
<1>3. ASSUME NEW d \in Stood PROVE Standing(d) = root[virt[d]]
  <2>1. virt[d] \in DOMAIN fast
    BY <1>1 DEF Carry
  <2> QED BY <1>1, <1>2, <2>1, StandingIs
<1>4. ASSUME NEW e \in Stood, NEW f, f = Standing(e), NEW S, S = {d \in Stood : Standing(d) = f}
      PROVE  /\ f \in AllLive /\ StoodBy(e, f)
             /\ fast[f].weight = Total(job.edge, S)
  <2>1. S = Borne(root, f) /\ e \in S
    BY <1>3, <1>4 DEF Borne
  <2>2. f \in AllLive /\ StoodBy(e, f)
    BY <1>1, <1>3, <1>4 DEF Carry
  <2> QED BY <1>1, <2>1, <2>2 DEF Carry
<1>5. \A e \in Stood : /\ Standing(e) \in AllLive /\ StoodBy(e, Standing(e))
                       /\ fast[Standing(e)].weight = Total(job.edge, {d \in Stood : Standing(d) = Standing(e)})
  BY <1>4
<1> QED BY <1>5 DEF Represented, StoodBy, Total

\* However often the edge that stands for an edge of the graph is merged with others or
\* turned round (basic_merge, reverse_edge), its ED_to_virt leads to one that is in the
\* lists, joins the same leaders, is as long as is asked for, and has the weights of all
\* the edges that lead to it and of no other.
THEOREM EdgesCarried == Spec => []Represented
<1>1. Init => Shape /\ Stands /\ Carries
  BY ShapeInit, StandsInit, CarriesInit
<1>2. Shape /\ Stands /\ Carries /\ [Next]_vars => Shape' /\ Stands' /\ Carries'
  BY ShapeNext, StandsNext, CarriesNext
<1>3. Shape /\ Carries => Represented
  BY CarriedRepresented
<1> QED BY <1>1, <1>2, <1>3, PTL DEF Spec
=============================================================================
