---------------------------- MODULE DtTreeProofs ----------------------------
(* Theorems about DtTree, for any objects, keys and dictionaries.          *)
EXTENDS DtTree, ChainsProofs, SequenceTheorems

Places == Obj \cup {Link}
Fields(D) == [D -> [left : Obj \cup {Nil}, right : Obj \cup {Nil}]]
IsFields(p) == p \in Fields(Obj) \/ p \in Fields(Places)

LEMMA SideIs ==
  /\ Side # {} /\ "left" \in Side /\ "right" \in Side
  /\ \A s \in Side : Opp(s) \in Side /\ Opp(s) # s /\ Opp(Opp(s)) = s
  /\ \A s, t \in Side : t = s \/ t = Opp(s)
BY DEF Side, Opp

LEMMA ObjIs ==
  /\ IsFiniteSet(Obj) /\ Cardinality(Obj) \in Nat
  /\ Nil \notin Obj /\ Link \notin Obj /\ Link # Nil
  /\ \A x \in Obj : Key[x] \in Int
BY DtAssumption, FS_CardinalityType DEF DtAssumption

LEMMA FieldsIs ==
  ASSUME NEW p, IsFields(p), NEW x \in Obj, NEW s \in Side
  PROVE  p[x][s] \in Obj \cup {Nil}
BY DEF IsFields, Fields, Side, Places

-----------------------------------------------------------------------------
(* Trees.                                                                   *)

\* x lies on the side s of y.
Past(s, x, y) == IF s = "left" THEN Key[x] < Key[y] ELSE Key[x] > Key[y]

LEMMA PastIs ==
  /\ \A s \in Side, x, y \in Obj :
       /\ ~Past(s, x, x)
       /\ Past(s, x, y) <=> Past(Opp(s), y, x)
       /\ Past(s, x, y) => Key[x] # Key[y] /\ ~Past(Opp(s), x, y)
       /\ Key[x] # Key[y] => Past(s, x, y) \/ Past(Opp(s), x, y)
  /\ \A s \in Side, x, y, z \in Obj : Past(s, x, y) /\ Past(s, y, z) => Past(s, x, z)
  /\ \A s \in Side, x, y, z \in Obj : Past(s, x, y) /\ Key[z] = Key[y] => Past(s, x, z)
BY ObjIs DEF Past, Side, Opp

Part(S, x, s) == {y \in S : Past(s, y, x)}

\* No two objects of S have the same key.
Distinct(S) == \A x, y \in S : Key[x] = Key[y] => x = y

\* Where sub[x] is to be the objects in the tree under x: the tree at r is T.
Headed(sub, r, T) == IF T = {} THEN r = Nil ELSE r \in T /\ sub[r] = T

Certifies(p, r, S, sub) ==
  /\ sub \in [Obj -> SUBSET Obj]
  /\ Headed(sub, r, S)
  /\ \A x \in S : /\ x \in sub[x] /\ sub[x] \subseteq S
                  /\ \A s \in Side : Headed(sub, p[x][s], Part(sub[x], x, s))
  /\ \A x, y \in S : y \in sub[x] => sub[y] \subseteq sub[x]
  /\ \A x, y \in S : x \in sub[y] \/ y \in sub[x] \/ sub[x] \cap sub[y] = {}

\* The tree at r is a search tree with the objects S.
Tree(p, r, S) ==
  /\ S \in SUBSET Obj /\ Distinct(S)
  /\ \E sub : Certifies(p, r, S, sub)

LEMMA TreeEmpty ==
  ASSUME NEW p
  PROVE  Tree(p, Nil, {})
<1>1. PICK sub : sub = [x \in Obj |-> {}]
  OBVIOUS
<1>2. Certifies(p, Nil, {}, sub)
  BY <1>1 DEF Certifies, Headed
<1> QED BY <1>2 DEF Tree, Distinct

LEMMA TreeRoot ==
  ASSUME NEW p, NEW r, NEW S, Tree(p, r, S)
  PROVE  /\ S \in SUBSET Obj /\ Distinct(S) /\ IsFiniteSet(S) /\ Cardinality(S) \in Nat
         /\ r \in S \cup {Nil}
         /\ r = Nil <=> S = {}
         /\ r # Nil => r \in S /\ r \in Obj
<1>1. S \in SUBSET Obj /\ Distinct(S)
  BY DEF Tree
<1>2. IsFiniteSet(S) /\ Cardinality(S) \in Nat
  BY <1>1, ObjIs, FS_Subset, FS_CardinalityType
<1>3. IF S = {} THEN r = Nil ELSE r \in S
  BY DEF Tree, Certifies, Headed
<1> QED BY <1>1, <1>2, <1>3, ObjIs

LEMMA TreeOpen ==
  ASSUME NEW p, NEW r, NEW S, Tree(p, r, S), r # Nil, NEW s \in Side
  PROVE  Tree(p, p[r][s], Part(S, r, s))
<1>1. r \in S /\ S \in SUBSET Obj /\ Distinct(S) /\ S # {}
  BY TreeRoot
<1>2. PICK sub : Certifies(p, r, S, sub)
  BY DEF Tree
<1>3. sub[r] = S
  BY <1>1, <1>2 DEF Certifies, Headed
<1>4. PICK T : T = Part(S, r, s)
  OBVIOUS
<1>5. T \subseteq S /\ Distinct(T) /\ T \in SUBSET Obj
  BY <1>1, <1>4 DEF Part, Distinct
<1>6. Headed(sub, p[r][s], T)
  BY <1>1, <1>2, <1>3, <1>4 DEF Certifies
<1>7. \A x \in T : sub[x] \subseteq T
  <2>1. CASE T = {}
    BY <2>1
  <2>2. CASE T # {}
    <3>1. PICK h : h = p[r][s]
      OBVIOUS
    <3>2. h \in T /\ sub[h] = T
      BY <1>6, <2>2, <3>1 DEF Headed
    <3> QED BY <1>2, <1>5, <3>2 DEF Certifies
  <2> QED BY <2>1, <2>2
<1>8. Certifies(p, p[r][s], T, sub)
  BY <1>2, <1>5, <1>6, <1>7 DEF Certifies
<1> QED BY <1>4, <1>5, <1>8 DEF Tree

LEMMA TreeFrame ==
  ASSUME NEW p, NEW q, NEW r, NEW S, Tree(p, r, S),
         \A x \in S, s \in Side : q[x][s] = p[x][s]
  PROVE  Tree(q, r, S)
<1>1. PICK sub : Certifies(p, r, S, sub)
  BY DEF Tree
<1>2. Certifies(q, r, S, sub)
  BY <1>1 DEF Certifies
<1> QED BY <1>2 DEF Tree

\* All of A lies on the side s of x.
AllPast(s, A, x) == \A y \in A : Past(s, y, x)

LEMMA TreeJoin ==
  ASSUME NEW p, NEW r \in Obj, NEW s \in Side, NEW A, NEW B,
         Tree(p, p[r][s], A), Tree(p, p[r][Opp(s)], B),
         AllPast(s, A, r), AllPast(Opp(s), B, r)
  PROVE  Tree(p, r, A \cup {r} \cup B)
<1>1. PICK S : S = A \cup {r} \cup B
  OBVIOUS
<1>2. PICK a : Certifies(p, p[r][s], A, a)
  BY DEF Tree
<1>3. PICK b : Certifies(p, p[r][Opp(s)], B, b)
  BY DEF Tree
<1>4. /\ A \in SUBSET Obj /\ B \in SUBSET Obj /\ Distinct(A) /\ Distinct(B)
      /\ S \in SUBSET Obj
  BY <1>1 DEF Tree
<1>5. \A x \in A, y \in B : Past(s, x, r) /\ Past(Opp(s), y, r) /\ Key[x] # Key[r] /\ Key[y] # Key[r] /\ Key[x] # Key[y]
  <2> TAKE x \in A, y \in B
  <2>1. x \in Obj /\ y \in Obj /\ Past(s, x, r) /\ Past(Opp(s), y, r) /\ Opp(s) \in Side
    BY <1>4, SideIs DEF AllPast
  <2>2. Past(s, r, y)
    BY <2>1, PastIs, SideIs
  <2>3. Past(s, x, y)
    BY <2>1, <2>2, PastIs
  <2> QED BY <2>1, <2>3, PastIs
<1>6. /\ \A x \in A : x # r /\ Key[x] # Key[r]
      /\ \A x \in B : x # r /\ Key[x] # Key[r]
      /\ A \cap B = {}
  BY <1>4, <1>5, PastIs, SideIs DEF AllPast
<1>7. Distinct(S)
  BY <1>1, <1>4, <1>5, <1>6 DEF Distinct
<1>8. Part(S, r, s) = A /\ Part(S, r, Opp(s)) = B
  <2>1. \A x \in A : Past(s, x, r) /\ ~Past(Opp(s), x, r)
    BY <1>4, PastIs DEF AllPast
  <2>2. \A x \in B : Past(Opp(s), x, r) /\ ~Past(s, x, r)
    BY <1>4, PastIs, SideIs DEF AllPast
  <2>3. ~Past(s, r, r) /\ ~Past(Opp(s), r, r)
    BY PastIs, SideIs
  <2> QED BY <1>1, <2>1, <2>2, <2>3 DEF Part
<1>9. PICK sub : sub = [x \in Obj |-> IF x = r THEN S ELSE IF x \in A THEN a[x] ELSE b[x]]
  OBVIOUS
<1>10. /\ sub \in [Obj -> SUBSET Obj]
       /\ sub[r] = S
       /\ \A x \in A : sub[x] = a[x]
       /\ \A x \in B : sub[x] = b[x]
  BY <1>2, <1>3, <1>4, <1>6, <1>9 DEF Certifies
<1>11. Headed(sub, p[r][s], A) /\ Headed(sub, p[r][Opp(s)], B)
  BY <1>2, <1>3, <1>10 DEF Certifies, Headed
<1>12. \A t \in Side : Headed(sub, p[r][t], Part(S, r, t))
  BY <1>8, <1>11, SideIs
<1>13. ASSUME NEW x \in A
       PROVE  /\ x \in sub[x] /\ sub[x] \subseteq A
              /\ \A t \in Side : Headed(sub, p[x][t], Part(sub[x], x, t))
  <2>1. x \in a[x] /\ a[x] \subseteq A /\ \A t \in Side : Headed(a, p[x][t], Part(a[x], x, t))
    BY <1>2 DEF Certifies
  <2>2. \A t \in Side : Part(a[x], x, t) \subseteq A
    BY <2>1 DEF Part
  <2> QED BY <1>10, <2>1, <2>2 DEF Headed
<1>14. ASSUME NEW x \in B
       PROVE  /\ x \in sub[x] /\ sub[x] \subseteq B
              /\ \A t \in Side : Headed(sub, p[x][t], Part(sub[x], x, t))
  <2>1. x \in b[x] /\ b[x] \subseteq B /\ \A t \in Side : Headed(b, p[x][t], Part(b[x], x, t))
    BY <1>3 DEF Certifies
  <2>2. \A t \in Side : Part(b[x], x, t) \subseteq B
    BY <2>1 DEF Part
  <2> QED BY <1>10, <2>1, <2>2 DEF Headed
<1>15. \A x \in S : /\ x \in sub[x] /\ sub[x] \subseteq S
                    /\ \A t \in Side : Headed(sub, p[x][t], Part(sub[x], x, t))
  BY <1>1, <1>10, <1>12, <1>13, <1>14
<1>16. \A x, y \in S : y \in sub[x] => sub[y] \subseteq sub[x]
  <2>1. \A x, y \in A : y \in sub[x] => sub[y] \subseteq sub[x]
    BY <1>2, <1>10 DEF Certifies
  <2>2. \A x, y \in B : y \in sub[x] => sub[y] \subseteq sub[x]
    BY <1>3, <1>10 DEF Certifies
  <2>3. \A x \in A : r \notin sub[x] /\ \A y \in B : y \notin sub[x]
    BY <1>6, <1>13
  <2>4. \A x \in B : r \notin sub[x] /\ \A y \in A : y \notin sub[x]
    BY <1>6, <1>14
  <2> QED BY <1>1, <1>10, <1>15, <2>1, <2>2, <2>3, <2>4
<1>17. \A x, y \in S : x \in sub[y] \/ y \in sub[x] \/ sub[x] \cap sub[y] = {}
  <2>1. \A x, y \in A : x \in sub[y] \/ y \in sub[x] \/ sub[x] \cap sub[y] = {}
    BY <1>2, <1>10 DEF Certifies
  <2>2. \A x, y \in B : x \in sub[y] \/ y \in sub[x] \/ sub[x] \cap sub[y] = {}
    BY <1>3, <1>10 DEF Certifies
  <2>3. \A x \in A, y \in B : sub[x] \cap sub[y] = {}
    BY <1>6, <1>13, <1>14
  <2> QED BY <1>1, <1>10, <2>1, <2>2, <2>3
<1>18. Headed(sub, r, S)
  BY <1>1, <1>10 DEF Headed
<1>19. Certifies(p, r, S, sub)
  BY <1>10, <1>15, <1>16, <1>17, <1>18 DEF Certifies
<1> QED BY <1>1, <1>4, <1>7, <1>19 DEF Tree

\* Two pointers in a tree do not lead to one object, none leads to the root, and
\* all lead to its objects.
LEMMA TreePointers ==
  ASSUME NEW p, NEW r, NEW S, Tree(p, r, S)
  PROVE  /\ \A x \in S, s \in Side : p[x][s] \in S \cup {Nil} /\ (p[x][s] # Nil => p[x][s] # r)
         /\ \A x, y \in S, s, t \in Side : p[x][s] = p[y][t] /\ p[x][s] # Nil => x = y /\ s = t
<1>1. PICK sub : Certifies(p, r, S, sub)
  BY DEF Tree
<1>2. S \in SUBSET Obj /\ Nil \notin S
  BY TreeRoot, ObjIs
<1>3. ASSUME NEW x \in S, NEW s \in Side, p[x][s] # Nil
      PROVE  /\ p[x][s] \in sub[x] /\ sub[p[x][s]] = Part(sub[x], x, s)
             /\ p[x][s] \in S /\ Past(s, p[x][s], x) /\ x \notin sub[p[x][s]]
  <2>1. Headed(sub, p[x][s], Part(sub[x], x, s)) /\ sub[x] \subseteq S
    BY <1>1 DEF Certifies
  <2>2. p[x][s] \in Part(sub[x], x, s) /\ sub[p[x][s]] = Part(sub[x], x, s)
    BY <1>3, <2>1 DEF Headed
  <2>3. ~Past(s, x, x)
    BY <1>2, PastIs
  <2> QED BY <2>1, <2>2, <2>3 DEF Part
<1>4. ASSUME NEW x \in S, NEW s \in Side, p[x][s] # Nil PROVE p[x][s] # r
  <2>1. x \in S /\ sub[r] = S
    BY <1>1 DEF Certifies, Headed
  <2> QED BY <1>3, <1>4, <2>1
<1>5. ASSUME NEW x \in S, NEW y \in S, NEW s \in Side, NEW t \in Side,
             p[x][s] = p[y][t], p[x][s] # Nil, x # y, x \in sub[y]
      PROVE  FALSE
  <2>1. PICK z : z = p[x][s]
    OBVIOUS
  <2>2. /\ z \in sub[x] /\ sub[z] = Part(sub[x], x, s) /\ x \notin sub[z]
        /\ z \in sub[y] /\ sub[z] = Part(sub[y], y, t) /\ Past(t, z, y) /\ z \in S
    BY <1>3, <1>5, <2>1
  <2>3. x \in Obj /\ y \in Obj /\ z \in Obj /\ Key[x] # Key[y]
    BY <1>2, <1>5, <2>2, TreeRoot DEF Distinct
  <2>4. PICK u \in Side : Past(u, x, y)
    BY <2>3, PastIs, SideIs
  <2>5. x \in Part(sub[y], y, u)
    BY <1>5, <2>4 DEF Part
  <2>6. PICK w : w = p[y][u]
    OBVIOUS
  <2>7. w \in S /\ sub[w] = Part(sub[y], y, u) /\ w # Nil
    <3>1. Headed(sub, w, Part(sub[y], y, u)) /\ sub[y] \subseteq S
      BY <1>1, <2>6 DEF Certifies
    <3> QED BY <1>2, <2>5, <3>1 DEF Headed, Part
  <2>8. sub[x] \subseteq sub[w]
    BY <1>1, <2>5, <2>7 DEF Certifies
  <2>9. Past(u, z, y)
    BY <2>2, <2>7, <2>8 DEF Part
  <2>10. u = t
    BY <2>2, <2>3, <2>9, PastIs, SideIs
  <2>11. x \in sub[z]
    BY <2>2, <2>5, <2>10
  <2> QED BY <2>2, <2>11
<1>6. ASSUME NEW x \in S, NEW y \in S, NEW s \in Side, NEW t \in Side,
             p[x][s] = p[y][t], p[x][s] # Nil
      PROVE  x = y /\ s = t
  <2>1. p[x][s] \in sub[x] \cap sub[y] /\ Past(s, p[x][s], x) /\ Past(t, p[x][s], y) /\ p[x][s] \in Obj
    BY <1>2, <1>3, <1>6
  <2>2. x \in sub[y] \/ y \in sub[x]
    BY <1>1, <2>1 DEF Certifies
  <2>3. x = y
    BY <1>5, <1>6, <2>2
  <2> QED BY <1>2, <2>1, <2>3, PastIs, SideIs
<1>7. \A x \in S, s \in Side : p[x][s] \in S \cup {Nil} /\ (p[x][s] # Nil => p[x][s] # r)
  BY <1>3, <1>4
<1> QED BY <1>6, <1>7

-----------------------------------------------------------------------------
(* Loops.                                                                   *)

\* The states at of a loop with the step and measure that are given.
Keeps(step, J, m) ==
  /\ \A c \in J : step[c] \in J
  /\ \A c \in J : m[c] \in Nat /\ (m[step[c]] < m[c] \/ m[step[c]] = 0)

Runs(at, n, first, step, J) ==
  /\ at[0] = first
  /\ \A i \in 1 .. n : at[i - 1] \in J => at[i] = step[at[i - 1]]

Within(at, n, J) == \A i \in 0 .. n : at[i] \in J

\* A loop that keeps to J, and in each round lessens m or leaves it zero, ends.
LEMMA LoopEnds ==
  ASSUME NEW n \in Nat, NEW J, NEW step, NEW first \in J, NEW m,
         Keeps(step, J, m), m[first] <= n,
         NEW at, Runs(at, n, first, step, J)
  PROVE  at[n] \in J /\ m[at[n]] = 0 /\ Within(at, n, J)
<1> USE DEF Keeps, Runs
<1> DEFINE P == {i \in Nat : i <= n => at[i] \in J /\ (m[at[i]] + i <= n \/ m[at[i]] = 0)}
<1>1. ASSUME NEW i \in Nat, \A k \in Nat : k < i => k \in P, i <= n
      PROVE  at[i] \in J /\ (m[at[i]] + i <= n \/ m[at[i]] = 0)
  <2>1. CASE i = 0
    <3>1. m[first] \in Nat
      OBVIOUS
    <3> QED BY <2>1, <3>1
  <2>2. CASE i # 0
    <3>1. PICK k \in Nat : k = i - 1
      BY <2>2
    <3>2. k \in P /\ k <= n /\ i \in 1 .. n
      BY <1>1, <2>2, <3>1
    <3>3. PICK c : c = at[k]
      OBVIOUS
    <3>4. c \in J /\ (m[c] + k <= n \/ m[c] = 0)
      BY <3>2, <3>3
    <3>5. at[i] = step[c]
      BY <3>1, <3>2, <3>3, <3>4
    <3>6. PICK d : d = step[c]
      OBVIOUS
    <3>7. d \in J /\ m[c] \in Nat /\ m[d] \in Nat /\ (m[d] < m[c] \/ m[d] = 0)
      BY <3>4, <3>6
    <3>8. m[d] + i <= n \/ m[d] = 0
      BY <3>1, <3>4, <3>7
    <3> QED BY <3>5, <3>6, <3>7, <3>8
  <2> QED BY <2>1, <2>2
<1>2. P = Nat
  <2>1. P \in SUBSET Nat /\ \A i \in Nat : (\A k \in Nat : k < i => k \in P) => i \in P
    BY <1>1
  <2> HIDE DEF P
  <2> QED BY <2>1, NatComplete
<1>3. \A i \in 0 .. n : at[i] \in J /\ (m[at[i]] + i <= n \/ m[at[i]] = 0)
  BY <1>2
<1>4. n \in 0 .. n /\ at[n] \in J
  BY <1>3
<1>5. m[at[n]] \in Nat
  BY <1>4
<1>6. m[at[n]] + n <= n \/ m[at[n]] = 0
  BY <1>3, <1>4
<1> QED BY <1>3, <1>4, <1>5, <1>6 DEF Within

\* There is the sequence of the states of such a loop.
LEMMA LoopIs ==
  ASSUME NEW n \in Nat, NEW J, NEW step, NEW first \in J,
         \A c \in J : step[c] \in J
  PROVE  \E at : Follows(at, n, first, step) /\ Within(at, n, J)
<1>1. PICK at : Follows(at, n, first, step)
  BY IteratesExist
<1>2. at[0] = first /\ \A i \in 1 .. n : at[i] = step[at[i - 1]]
  <2>1. 0 \in 0 .. n /\ \A i \in 1 .. n : i \in 0 .. n /\ i # 0
    OBVIOUS
  <2> QED BY <1>1, <2>1 DEF Follows
<1>3. PICK m : m = [c \in J |-> 0]
  OBVIOUS
<1>4. Keeps(step, J, m)
  BY <1>3 DEF Keeps
<1>5. m[first] <= n
  BY <1>3
<1>6. Runs(at, n, first, step, J)
  BY <1>2 DEF Runs
<1>7. Within(at, n, J)
  BY <1>4, <1>5, <1>6, LoopEnds
<1> QED BY <1>1, <1>7

-----------------------------------------------------------------------------
(* The walk of a tree.                                                      *)

\* q lists S in the order of the keys.
Lists(q, S) ==
  /\ q \in Seq(S)
  /\ \A x \in S : \E i \in 1 .. Len(q) : q[i] = x
  /\ \A i, j \in 1 .. Len(q) : i < j => Key[q[i]] < Key[q[j]]

LEMMA ListsLen ==
  ASSUME NEW S \in SUBSET Obj, NEW q, Lists(q, S)
  PROVE  Len(q) = Cardinality(S) /\ Range(q) = S
<1>1. Len(q) \in Nat /\ q \in [1 .. Len(q) -> S] /\ DOMAIN q = 1 .. Len(q)
  BY DEF Lists
<1>2. \A i, j \in 1 .. Len(q) : q[i] = q[j] => i = j
  <2> SUFFICES ASSUME NEW i \in 1 .. Len(q), NEW j \in 1 .. Len(q), q[i] = q[j], i # j PROVE FALSE
    OBVIOUS
  <2>1. i < j \/ j < i
    OBVIOUS
  <2>2. Key[q[i]] \in Int /\ Key[q[j]] \in Int
    BY <1>1, ObjIs
  <2> QED BY <2>1, <2>2 DEF Lists
<1>3. q \in Bijection(1 .. Len(q), S)
  BY <1>1, <1>2 DEF Lists, Bijection, Injection, Surjection, IsInjective
<1>4. IsFiniteSet(1 .. Len(q)) /\ Cardinality(1 .. Len(q)) = Len(q)
  BY <1>1, FS_Interval
<1>5. Cardinality(1 .. Len(q)) = Cardinality(S)
  BY <1>3, <1>4, FS_Bijection DEF ExistsBijection
<1>6. Range(q) = S
  BY <1>1 DEF Range, Lists
<1> QED BY <1>4, <1>5, <1>6

LEMMA ListsJoin ==
  ASSUME NEW A \in SUBSET Obj, NEW B \in SUBSET Obj, NEW x \in Obj,
         NEW a, NEW b, Lists(a, A), Lists(b, B),
         AllPast("left", A, x), AllPast("right", B, x),
         NEW q, q = a \o <<x>> \o b
  PROVE  Lists(q, A \cup {x} \cup B)
<1>1. PICK m \in Nat, n \in Nat : m = Len(a) /\ n = Len(b)
  BY DEF Lists
<1>2. a \in Seq(Obj) /\ b \in Seq(Obj) /\ \A i \in 1 .. m : a[i] \in A
  BY <1>1 DEF Lists
<1>3. \A i \in 1 .. n : b[i] \in B
  BY <1>1 DEF Lists
<1>4. /\ q \in Seq(Obj) /\ Len(q) = m + 1 + n
      /\ \A i \in 1 .. m : q[i] = a[i]
      /\ q[m + 1] = x
      /\ \A i \in 1 .. n : q[m + 1 + i] = b[i]
  BY <1>1, <1>2
<1>5. \A i \in 1 .. Len(q) : i \in 1 .. m \/ i = m + 1 \/ (i - m - 1 \in 1 .. n /\ i = m + 1 + (i - m - 1))
  BY <1>4
<1>6. \A i \in 1 .. Len(q) : q[i] \in A \cup {x} \cup B
  BY <1>2, <1>3, <1>4, <1>5
<1>7. q \in Seq(A \cup {x} \cup B)
  <2>1. PICK S : S = A \cup {x} \cup B
    OBVIOUS
  <2>2. Len(q) \in Nat /\ q = [i \in 1 .. Len(q) |-> q[i]]
    BY <1>4
  <2>3. q \in [1 .. Len(q) -> S]
    BY <1>6, <2>1, <2>2
  <2>4. q \in Seq(S)
    BY ONLY <2>2, <2>3, SeqDef
  <2> QED BY <2>1, <2>4
<1>8. \A y \in A \cup {x} \cup B : \E i \in 1 .. Len(q) : q[i] = y
  <2>1. ASSUME NEW y \in A PROVE \E i \in 1 .. Len(q) : q[i] = y
    <3>1. PICK i \in 1 .. m : a[i] = y
      BY <1>1 DEF Lists
    <3>2. i \in 1 .. Len(q)
      BY <1>4
    <3> QED BY <1>4, <3>1, <3>2
  <2>2. ASSUME NEW y \in B PROVE \E i \in 1 .. Len(q) : q[i] = y
    <3>1. PICK i \in 1 .. n : b[i] = y
      BY <1>1 DEF Lists
    <3>2. m + 1 + i \in 1 .. Len(q)
      BY <1>4
    <3> QED BY <1>4, <3>1, <3>2
  <2>3. m + 1 \in 1 .. Len(q)
    BY <1>4
  <2> QED BY <1>4, <2>1, <2>2, <2>3
<1>9. /\ \A y \in A : Key[y] \in Int /\ Key[y] < Key[x]
      /\ \A y \in B : Key[y] \in Int /\ Key[y] > Key[x]
      /\ Key[x] \in Int
  BY ObjIs DEF AllPast, Past
<1>10. ASSUME NEW i \in 1 .. Len(q), NEW j \in 1 .. Len(q), i < j PROVE Key[q[i]] < Key[q[j]]
  <2>1. CASE i \in 1 .. m /\ j \in 1 .. m
    <3>1. q[i] = a[i] /\ q[j] = a[j]
      BY <1>4, <2>1
    <3>2. Key[a[i]] < Key[a[j]]
      BY <1>1, <1>10, <2>1 DEF Lists
    <3> QED BY <3>1, <3>2
  <2>2. CASE i \in 1 .. m /\ j = m + 1
    BY <1>2, <1>4, <1>9, <2>2
  <2>3. CASE i \in 1 .. m /\ j - m - 1 \in 1 .. n /\ j = m + 1 + (j - m - 1)
    <3>1. PICK u \in A, v \in B : u = q[i] /\ v = q[j]
      BY <1>2, <1>3, <1>4, <2>3
    <3>2. Key[u] < Key[v]
      BY <1>9
    <3> QED BY <3>1, <3>2
  <2>4. CASE i = m + 1 /\ j - m - 1 \in 1 .. n /\ j = m + 1 + (j - m - 1)
    <3>1. q[i] = x /\ q[j] \in B
      BY <1>3, <1>4, <2>4
    <3> QED BY <1>9, <3>1
  <2>5. CASE /\ i - m - 1 \in 1 .. n /\ i = m + 1 + (i - m - 1)
             /\ j - m - 1 \in 1 .. n /\ j = m + 1 + (j - m - 1)
    <3>1. PICK k \in 1 .. n, l \in 1 .. n : k = i - m - 1 /\ l = j - m - 1
      BY <2>5
    <3>2. k < l /\ q[i] = b[k] /\ q[j] = b[l]
      BY <1>4, <1>10, <2>5, <3>1
    <3> QED BY <1>1, <3>1, <3>2 DEF Lists
  <2> QED BY <1>5, <1>10, <2>1, <2>2, <2>3, <2>4, <2>5
<1> QED BY <1>7, <1>8, <1>10 DEF Lists

\* q is the list that is linked from r on by the right pointers.
Chained(p, r, q) ==
  /\ q = <<>> => r = Nil
  /\ q # <<>> => r = q[1] /\ p[q[Len(q)]].right = Nil
  /\ \A i \in 1 .. Len(q) - 1 : p[q[i]].right = q[i + 1]

Slanted(p, S) == \A x \in S : p[x].left = Nil

Walk(p, f) ==
  f = [c \in Rounds \X (Obj \cup {Nil}) |->
         IF c[1] = 0 \/ c[2] = Nil THEN <<>>
         ELSE f[<<c[1] - 1, p[c[2]].left>>] \o <<c[2]>> \o f[<<c[1] - 1, p[c[2]].right>>]]

LEMMA WalkExists ==
  ASSUME NEW p, IsFields(p)
  PROVE  \E f : Walk(p, f)
<1> DEFINE N == Cardinality(Obj)
           T == Obj \cup {Nil}
           J == [T -> Seq(Obj)]
           first == [y \in T |-> <<>>]
           step == [g \in J |-> [y \in T |-> IF y = Nil THEN <<>> ELSE g[p[y].left] \o <<y>> \o g[p[y].right]]]
<1>1. N \in Nat /\ Rounds = 0 .. N
  BY ObjIs DEF Rounds
<1>2. \A y \in Obj : p[y].left \in T /\ p[y].right \in T
  BY FieldsIs, SideIs
<1>3. first \in J
  OBVIOUS
<1>4. \A g \in J : step[g] \in J
  <2> TAKE g \in J
  <2>1. \A y \in Obj : g[p[y].left] \in Seq(Obj) /\ g[p[y].right] \in Seq(Obj)
    BY <1>2
  <2>2. \A y \in Obj : g[p[y].left] \o <<y>> \o g[p[y].right] \in Seq(Obj)
    BY <2>1
  <2> QED BY <2>2
<1>5. \A g \in J, y \in T : step[g][y] = IF y = Nil THEN <<>> ELSE g[p[y].left] \o <<y>> \o g[p[y].right]
  OBVIOUS
<1>6. \A y \in T : first[y] = <<>>
  OBVIOUS
<1>7. PICK at : Follows(at, N, first, step) /\ Within(at, N, J)
  <2> HIDE DEF J, first, step, N
  <2> QED BY <1>1, <1>3, <1>4, LoopIs
<1> HIDE DEF first, step
<1>8. \A i \in 0 .. N : at[i] \in J /\ (i = 0 => at[i] = first) /\ (i # 0 => at[i] = step[at[i - 1]])
  BY <1>7 DEF Follows, Within
<1>9. PICK f : f = [c \in Rounds \X T |-> at[c[1]][c[2]]]
  OBVIOUS
<1>10. \A i \in 0 .. N, y \in T : f[<<i, y>>] = at[i][y]
  BY <1>1, <1>9
<1>11. ASSUME NEW c \in Rounds \X T
       PROVE  f[c] = IF c[1] = 0 \/ c[2] = Nil THEN <<>>
                     ELSE f[<<c[1] - 1, p[c[2]].left>>] \o <<c[2]>> \o f[<<c[1] - 1, p[c[2]].right>>]
  <2>1. PICK i \in 0 .. N, y \in T : c = <<i, y>>
    BY <1>1, <1>11
  <2>2. f[c] = at[i][y] /\ c[1] = i /\ c[2] = y
    BY <1>10, <2>1
  <2>3. CASE i = 0
    BY <1>6, <1>8, <2>2, <2>3
  <2>4. CASE i # 0 /\ y = Nil
    <3>1. i - 1 \in 0 .. N
      BY <1>1, <2>4
    <3> QED BY <1>5, <1>8, <2>2, <2>4, <3>1
  <2>5. CASE i # 0 /\ y # Nil
    <3>1. i - 1 \in 0 .. N /\ y \in Obj
      BY <1>1, <2>5
    <3>2. at[i][y] = at[i - 1][p[y].left] \o <<y>> \o at[i - 1][p[y].right]
      <4>1. PICK g : g = at[i - 1]
        OBVIOUS
      <4>2. g \in J /\ at[i] = step[g]
        BY <1>8, <2>5, <3>1, <4>1
      <4>3. step[g][y] = g[p[y].left] \o <<y>> \o g[p[y].right]
        BY <1>5, <2>5, <4>2
      <4> QED BY <4>1, <4>2, <4>3
    <3>3. at[i - 1][p[y].left] = f[<<i - 1, p[y].left>>] /\ at[i - 1][p[y].right] = f[<<i - 1, p[y].right>>]
      BY <1>2, <1>10, <3>1
    <3> QED BY <2>2, <2>5, <3>2, <3>3
  <2> QED BY <2>3, <2>4, <2>5
<1>12. Walk(p, f)
  BY <1>9, <1>11 DEF Walk
<1> QED BY <1>12

LEMMA WalkIs ==
  ASSUME NEW p, IsFields(p), NEW f, Walk(p, f),
         NEW r, NEW S, Tree(p, r, S)
  PROVE  LET q == f[<<Cardinality(Obj), r>>]
         IN  Lists(q, S) /\ (Slanted(p, S) => Chained(p, r, q))
<1> DEFINE N == Cardinality(Obj)
           Good(n, t, T) == Lists(f[<<n, t>>], T) /\ (Slanted(p, T) => Chained(p, t, f[<<n, t>>]))
           P == {n \in Nat : n <= N =>
                   \A t \in Obj \cup {Nil}, T \in SUBSET Obj :
                     Tree(p, t, T) /\ Cardinality(T) <= n => Good(n, t, T)}
<1>1. N \in Nat /\ Rounds = 0 .. N
  BY ObjIs DEF Rounds
<1>2. \A n \in 0 .. N, t \in Obj \cup {Nil} :
        f[<<n, t>>] = IF n = 0 \/ t = Nil THEN <<>>
                      ELSE f[<<n - 1, p[t].left>>] \o <<t>> \o f[<<n - 1, p[t].right>>]
  <2> TAKE n \in 0 .. N, t \in Obj \cup {Nil}
  <2>1. PICK c : c = <<n, t>>
    OBVIOUS
  <2>2. c \in Rounds \X (Obj \cup {Nil}) /\ c[1] = n /\ c[2] = t
    BY <1>1, <2>1
  <2>3. f[c] = IF c[1] = 0 \/ c[2] = Nil THEN <<>>
               ELSE f[<<c[1] - 1, p[c[2]].left>>] \o <<c[2]>> \o f[<<c[1] - 1, p[c[2]].right>>]
    BY <2>2 DEF Walk
  <2> QED BY <2>1, <2>2, <2>3
<1>3. ASSUME NEW n \in Nat, \A k \in Nat : k < n => k \in P, n <= N,
             NEW t \in Obj \cup {Nil}, NEW T \in SUBSET Obj, Tree(p, t, T), Cardinality(T) <= n
      PROVE  Good(n, t, T)
  <2>1. n \in 0 .. N /\ IsFiniteSet(T) /\ Cardinality(T) \in Nat
    BY <1>1, <1>3, TreeRoot
  <2>2. CASE t = Nil
    <3>1. T = {} /\ f[<<n, t>>] = <<>>
      BY <1>2, <1>3, <2>1, <2>2, TreeRoot
    <3> QED BY <2>2, <3>1 DEF Lists, Chained
  <2>3. CASE t # Nil
    <3>1. t \in Obj /\ t \in T
      BY <1>3, <2>3, TreeRoot
    <3>2. PICK A, B : A = Part(T, t, "left") /\ B = Part(T, t, "right")
      OBVIOUS
    <3>3. PICK a, b : a = p[t].left /\ b = p[t].right
      OBVIOUS
    <3>4. Tree(p, a, A) /\ Tree(p, b, B)
      BY <1>3, <2>3, <3>2, <3>3, TreeOpen, SideIs
    <3>5. a \in Obj \cup {Nil} /\ b \in Obj \cup {Nil}
      BY <3>1, <3>3, FieldsIs, SideIs
    <3>6. T = A \cup {t} \cup B /\ t \notin A /\ t \notin B /\ A \in SUBSET Obj /\ B \in SUBSET Obj
      <4>1. Distinct(T) /\ T \in SUBSET Obj
        BY <1>3, TreeRoot
      <4>2. \A y \in T : y = t \/ Past("left", y, t) \/ Past("right", y, t)
        BY <3>1, <4>1, ObjIs DEF Distinct, Past
      <4>3. ~Past("left", t, t) /\ ~Past("right", t, t)
        BY <3>1, ObjIs DEF Past
      <4> QED BY <3>1, <3>2, <4>1, <4>2, <4>3 DEF Part
    <3>7. Cardinality(A) < Cardinality(T) /\ Cardinality(B) < Cardinality(T)
      <4>1. A \in SUBSET T /\ B \in SUBSET T /\ A # T /\ B # T
        BY <3>1, <3>6
      <4>2. Cardinality(A) <= Cardinality(T) /\ Cardinality(A) # Cardinality(T) /\ Cardinality(A) \in Nat
        BY <2>1, <3>4, <4>1, FS_Subset, TreeRoot
      <4>3. Cardinality(B) <= Cardinality(T) /\ Cardinality(B) # Cardinality(T) /\ Cardinality(B) \in Nat
        BY <2>1, <3>4, <4>1, FS_Subset, TreeRoot
      <4> QED BY <2>1, <4>2, <4>3
    <3>8. PICK k \in Nat : k = n - 1 /\ k < n /\ k <= N /\ n # 0 /\ Cardinality(A) <= k /\ Cardinality(B) <= k
      <4>1. Cardinality(A) \in Nat /\ Cardinality(B) \in Nat
        BY <3>4, TreeRoot
      <4> QED BY <1>1, <1>3, <2>1, <3>7, <4>1
    <3>9. k \in P
      BY <1>3, <3>8
    <3>10. Good(k, a, A) /\ Good(k, b, B)
      BY <3>4, <3>5, <3>6, <3>8, <3>9
    <3>11. PICK x, y, q : x = f[<<k, a>>] /\ y = f[<<k, b>>] /\ q = f[<<n, t>>]
      OBVIOUS
    <3>12. q = x \o <<t>> \o y
      BY <1>2, <2>1, <2>3, <3>3, <3>8, <3>11
    <3>13. Lists(x, A) /\ Lists(y, B)
      BY <3>10, <3>11
    <3>14. Lists(q, T)
      <4>1. AllPast("left", A, t) /\ AllPast("right", B, t)
        BY <3>2 DEF AllPast, Part
      <4> QED BY <3>1, <3>6, <3>12, <3>13, <4>1, ListsJoin
    <3>15. ASSUME Slanted(p, T) PROVE Chained(p, t, q)
      <4>1. a = Nil /\ A = {} /\ Slanted(p, B)
        BY <3>1, <3>3, <3>4, <3>6, <3>15, TreeRoot DEF Slanted
      <4>2. x = <<>>
        <5>1. x \in Seq(A)
          BY <3>13 DEF Lists
        <5> QED BY <4>1, <5>1
      <4>3. y \in Seq(Obj)
        BY <3>6, <3>13 DEF Lists
      <4>4. q = <<t>> \o y
        BY <3>12, <4>2, <4>3
      <4>5. Chained(p, b, y)
        BY <3>10, <3>11, <4>1
      <4>6. Len(y) \in Nat /\ Len(q) = 1 + Len(y) /\ q[1] = t /\ \A i \in 1 .. Len(y) : q[1 + i] = y[i]
        BY <4>3, <4>4
      <4>7. q # <<>>
        BY <4>6, <4>4
      <4>8. CASE y = <<>>
        <5>1. b = Nil /\ Len(y) = 0
          BY <4>5, <4>8 DEF Chained
        <5>2. Len(q) = 1 /\ q[Len(q)] = t /\ \A i \in 1 .. Len(q) - 1 : FALSE
          BY <4>6, <5>1
        <5> QED BY <3>3, <4>6, <4>7, <5>1, <5>2 DEF Chained
      <4>9. CASE y # <<>>
        <5>1. b = y[1] /\ p[y[Len(y)]].right = Nil /\ Len(y) # 0
          BY <4>3, <4>5, <4>9 DEF Chained
        <5>2. q[Len(q)] = y[Len(y)]
          BY <4>6, <5>1
        <5>3. \A i \in 1 .. Len(q) - 1 : p[q[i]].right = q[i + 1]
          <6> TAKE i \in 1 .. Len(q) - 1
          <6>1. CASE i = 1
            <7>1. q[2] = y[1]
              <8>1. 1 \in 1 .. Len(y) /\ 1 + 1 = 2
                BY <4>6, <5>1
              <8> QED BY <4>6, <8>1
            <7>2. q[i] = t /\ q[i + 1] = y[1]
              BY <4>6, <6>1, <7>1
            <7> QED BY <3>3, <5>1, <7>2
          <6>2. CASE i # 1
            <7>1. PICK j : j = i - 1
              OBVIOUS
            <7>2. j \in 1 .. Len(y) - 1 /\ j \in 1 .. Len(y) /\ j + 1 \in 1 .. Len(y) /\ i = 1 + j /\ i + 1 = 1 + (j + 1)
              BY <4>6, <6>2, <7>1
            <7>3. p[y[j]].right = y[j + 1]
              BY <4>5, <7>2 DEF Chained
            <7> QED BY <4>6, <7>2, <7>3
          <6> QED BY <6>1, <6>2
        <5> QED BY <4>6, <4>7, <5>1, <5>2, <5>3 DEF Chained
      <4> QED BY <4>8, <4>9
    <3> QED BY <3>11, <3>14, <3>15
  <2> QED BY <2>2, <2>3
<1>4. P = Nat
  <2>1. P \in SUBSET Nat /\ \A n \in Nat : (\A k \in Nat : k < n => k \in P) => n \in P
    BY <1>3
  <2> HIDE DEF P
  <2> QED BY <2>1, NatComplete
<1>5. r \in Obj \cup {Nil} /\ S \in SUBSET Obj /\ Cardinality(S) <= N
  <2>1. S \in SUBSET Obj /\ r \in Obj \cup {Nil}
    BY TreeRoot
  <2> QED BY <2>1, ObjIs, FS_Subset
<1>6. N \in P
  BY <1>1, <1>4
<1> QED BY <1>1, <1>5, <1>6

\* The walk of a tree lists its objects in the order of the keys.
LEMMA InOrderIs ==
  ASSUME NEW p, IsFields(p), NEW r, NEW S, Tree(p, r, S)
  PROVE  /\ Lists(InOrder(p, r), S) /\ (Slanted(p, S) => Chained(p, r, InOrder(p, r)))
         /\ Objects(p, r) = S /\ Len(InOrder(p, r)) = Cardinality(S)
<1>1. PICK f : f = CHOOSE g : Walk(p, g)
  OBVIOUS
<1>2. Walk(p, f)
  BY <1>1, WalkExists
<1>3. InOrder(p, r) = f[<<Cardinality(Obj), r>>]
  BY <1>1 DEF InOrder, Walk
<1>4. Lists(InOrder(p, r), S) /\ (Slanted(p, S) => Chained(p, r, InOrder(p, r)))
  BY <1>2, <1>3, WalkIs
<1>5. S \in SUBSET Obj
  BY TreeRoot
<1> QED BY <1>4, <1>5, ListsLen DEF Objects

\* A tree without left pointers is a list.
LEMMA LinkedIs ==
  ASSUME NEW p, IsFields(p), NEW r, NEW S, Tree(p, r, S), Slanted(p, S)
  PROVE  Linked(p, r) = InOrder(p, r)
<1>1. PICK q : q = InOrder(p, r)
  OBVIOUS
<1>2. Lists(q, S) /\ Chained(p, r, q) /\ Len(q) = Cardinality(S) /\ S \in SUBSET Obj
  BY <1>1, InOrderIs, TreeRoot
<1>3. PICK step : step = [o \in Obj \cup {Nil} |-> IF o = Nil THEN Nil ELSE p[o].right]
  OBVIOUS
<1>4. Linked(p, r) = Listed(Cardinality(Obj), r, step, Nil)
  BY <1>3 DEF Linked
<1>5. q \in Seq(Obj) /\ Len(q) \in Nat /\ \A i \in 1 .. Len(q) : q[i] \in Obj
  BY <1>2 DEF Lists
<1>6. Len(q) <= Cardinality(Obj) /\ Cardinality(Obj) \in Nat
  BY <1>2, ObjIs, FS_Subset
<1>7. step[Nil] = Nil /\ \A o \in Obj : step[o] = p[o].right
  BY <1>3, ObjIs
<1>8. \A i \in 1 .. Len(q) - 1 : step[q[i]] = q[i + 1]
  BY <1>2, <1>5, <1>7 DEF Chained
<1>9. (q = <<>> => r = Nil) /\ (q # <<>> => r = q[1])
  BY <1>2 DEF Chained
<1>10. q # <<>> => step[q[Len(q)]] = Nil
  <2>1. q # <<>> => Len(q) \in 1 .. Len(q)
    BY <1>5
  <2> QED BY <1>2, <1>5, <1>7, <2>1 DEF Chained
<1>11. Listed(Cardinality(Obj), r, step, Nil) = q
  BY <1>5, <1>6, <1>7, <1>8, <1>9, <1>10, ObjIs, ListIs
<1> QED BY <1>1, <1>4, <1>11

\* The objects of a tree are those on the two sides of its root, and the root.
LEMMA TreeParts ==
  ASSUME NEW p, NEW r, NEW S, Tree(p, r, S), r # Nil, NEW s \in Side
  PROVE  /\ S = Part(S, r, s) \cup {r} \cup Part(S, r, Opp(s))
         /\ r \in Obj /\ r \notin Part(S, r, s) /\ r \notin Part(S, r, Opp(s))
         /\ Part(S, r, s) \cap Part(S, r, Opp(s)) = {}
         /\ AllPast(s, Part(S, r, s), r) /\ AllPast(Opp(s), Part(S, r, Opp(s)), r)
         /\ Tree(p, p[r][s], Part(S, r, s)) /\ Tree(p, p[r][Opp(s)], Part(S, r, Opp(s)))
         /\ Part(S, r, s) \in SUBSET Obj /\ Part(S, r, Opp(s)) \in SUBSET Obj
         /\ Cardinality(Part(S, r, s)) \in Nat /\ Cardinality(Part(S, r, Opp(s))) \in Nat
         /\ Cardinality(S) \in Nat
         /\ Cardinality(Part(S, r, s)) < Cardinality(S) /\ Cardinality(Part(S, r, Opp(s))) < Cardinality(S)
<1>1. r \in S /\ r \in Obj /\ S \in SUBSET Obj /\ Distinct(S) /\ IsFiniteSet(S) /\ Cardinality(S) \in Nat
  BY TreeRoot
<1>2. Opp(s) \in Side
  BY SideIs
<1>3. PICK A, B : A = Part(S, r, s) /\ B = Part(S, r, Opp(s))
  OBVIOUS
<1>4. Tree(p, p[r][s], A) /\ Tree(p, p[r][Opp(s)], B)
  BY <1>2, <1>3, TreeOpen
<1>5. \A y \in S : y = r \/ Past(s, y, r) \/ Past(Opp(s), y, r)
  BY <1>1, PastIs DEF Distinct
<1>6. ~Past(s, r, r) /\ ~Past(Opp(s), r, r) /\ \A y \in S : ~(Past(s, y, r) /\ Past(Opp(s), y, r))
  BY <1>1, <1>2, PastIs
<1>7. /\ S = A \cup {r} \cup B /\ r \notin A /\ r \notin B /\ A \cap B = {}
      /\ AllPast(s, A, r) /\ AllPast(Opp(s), B, r)
  BY <1>1, <1>3, <1>5, <1>6 DEF Part, AllPast
<1>8. A \in SUBSET S /\ B \in SUBSET S /\ A # S /\ B # S /\ A \in SUBSET Obj /\ B \in SUBSET Obj
  BY <1>1, <1>7
<1>9. Cardinality(A) \in Nat /\ Cardinality(A) <= Cardinality(S) /\ Cardinality(A) # Cardinality(S)
  BY <1>1, <1>4, <1>8, FS_Subset, TreeRoot
<1>10. Cardinality(B) \in Nat /\ Cardinality(B) <= Cardinality(S) /\ Cardinality(B) # Cardinality(S)
  BY <1>1, <1>4, <1>8, FS_Subset, TreeRoot
<1>11. Cardinality(A) < Cardinality(S) /\ Cardinality(B) < Cardinality(S)
  BY <1>1, <1>9, <1>10
<1> QED BY <1>1, <1>3, <1>4, <1>7, <1>8, <1>9, <1>10, <1>11

-----------------------------------------------------------------------------
(* Rotations.                                                               *)

Domains == {Obj, Places}

LEMMA DomainsIs ==
  ASSUME NEW D \in Domains
  PROVE  /\ Obj \subseteq D
         /\ \A p \in Fields(D) : IsFields(p) /\ DOMAIN p = D
         /\ \A p \in Fields(D), x \in D, s \in Side : p[x][s] \in Obj \cup {Nil}
BY DEF Domains, Fields, IsFields, Places, Side

\* q is p with v in the field s of x.
Puts(p, q, D, x, s, v) ==
  /\ q \in Fields(D)
  /\ q[x][s] = v /\ q[x][Opp(s)] = p[x][Opp(s)]
  /\ \A y \in D : y # x => q[y] = p[y]

LEMMA PutIs ==
  ASSUME NEW D, NEW p \in Fields(D), NEW x \in D, NEW s \in Side, NEW v \in Obj \cup {Nil}
  PROVE  Puts(p, [p EXCEPT ![x][s] = v], D, x, s, v)
BY DEF Puts, Fields, Side, Opp

LEMMA RotatedIs ==
  ASSUME NEW D \in Domains, NEW p \in Fields(D), NEW x \in Obj, NEW s \in Side,
         NEW t \in Obj, t = p[x][s], t # x, NEW q, q = Rotated(p, x, s)
  PROVE  /\ q \in Fields(D)
         /\ q[x][s] = p[t][Opp(s)] /\ q[x][Opp(s)] = p[x][Opp(s)]
         /\ q[t][Opp(s)] = x /\ q[t][s] = p[t][s]
         /\ \A y \in D : y # x /\ y # t => q[y] = p[y]
<1>0. PICK v, u : v = p[t][Opp(s)] /\ u = Opp(s) /\ u \in Side
  BY SideIs
<1>1. PICK h : h = [p EXCEPT ![x][s] = v]
  OBVIOUS
<1>2. Puts(p, h, D, x, s, v)
  <2>1. x \in D /\ t \in D /\ v \in Obj \cup {Nil}
    BY <1>0, DomainsIs
  <2> QED BY <1>1, <2>1, PutIs
<1>3. q = [h EXCEPT ![t][Opp(s)] = x]
  BY <1>0, <1>1 DEF Rotated
<1>4. h \in Fields(D) /\ t \in D /\ Opp(s) \in Side /\ Opp(Opp(s)) = s /\ x \in D
  BY <1>2, DomainsIs, SideIs DEF Puts
<1>5. Puts(h, q, D, t, u, x)
  <2>1. q = [h EXCEPT ![t][u] = x]
    BY <1>0, <1>3
  <2>2. x \in Obj \cup {Nil}
    OBVIOUS
  <2>3. h \in Fields(D) /\ t \in D /\ u \in Side
    BY <1>0, <1>4
  <2>4. Puts(h, [h EXCEPT ![t][u] = x], D, t, u, x)
    BY ONLY <2>2, <2>3, PutIs
  <2> QED BY <2>1, <2>4
<1> QED BY <1>0, <1>2, <1>4, <1>5 DEF Puts

\* The fields of q differ from those of p inside S only.
Outside(p, q, D, S) == \A y \in D \ S : q[y] = p[y]

LEMMA RotatedTree ==
  ASSUME NEW D \in Domains, NEW p \in Fields(D), NEW x, NEW S, Tree(p, x, S), x # Nil, NEW s \in Side,
         NEW t, t = p[x][s], t # Nil, NEW q, q = Rotated(p, x, s)
  PROVE  /\ q \in Fields(D) /\ Tree(q, t, S) /\ Outside(p, q, D, S) /\ t \in Obj
         /\ Cardinality(Part(S, t, s)) < Cardinality(Part(S, x, s))
         /\ Cardinality(Part(S, x, s)) \in Nat /\ Cardinality(Part(S, t, s)) \in Nat
<1>1. PICK A, B : A = Part(S, x, s) /\ B = Part(S, x, Opp(s))
  OBVIOUS
<1>2. /\ S = A \cup {x} \cup B /\ x \in Obj /\ x \notin A /\ x \notin B /\ A \cap B = {}
      /\ AllPast(s, A, x) /\ AllPast(Opp(s), B, x)
      /\ Tree(p, t, A) /\ Tree(p, p[x][Opp(s)], B)
      /\ A \in SUBSET Obj /\ B \in SUBSET Obj /\ Cardinality(A) \in Nat
  BY <1>1, TreeParts
<1>3. PICK A1, A2 : A1 = Part(A, t, s) /\ A2 = Part(A, t, Opp(s))
  OBVIOUS
<1>4. /\ A = A1 \cup {t} \cup A2 /\ t \in Obj /\ t \notin A1 /\ t \notin A2 /\ A1 \cap A2 = {}
      /\ AllPast(s, A1, t) /\ AllPast(Opp(s), A2, t)
      /\ Tree(p, p[t][s], A1) /\ Tree(p, p[t][Opp(s)], A2)
      /\ Cardinality(A1) < Cardinality(A) /\ Cardinality(A1) \in Nat
  BY <1>2, <1>3, TreeParts
<1>5. t # x /\ Opp(s) \in Side /\ Opp(Opp(s)) = s
  BY <1>2, <1>4, SideIs
<1>6. /\ q \in Fields(D)
      /\ q[x][s] = p[t][Opp(s)] /\ q[x][Opp(s)] = p[x][Opp(s)]
      /\ q[t][Opp(s)] = x /\ q[t][s] = p[t][s]
      /\ \A y \in D : y # x /\ y # t => q[y] = p[y]
  BY <1>2, <1>4, <1>5, RotatedIs
<1>7. \A y \in A1 \cup A2 \cup B : y \in D /\ y # x /\ y # t
  BY <1>2, <1>4, DomainsIs
<1>8. Tree(q, q[t][s], A1) /\ Tree(q, q[x][s], A2) /\ Tree(q, q[x][Opp(s)], B)
  BY <1>2, <1>4, <1>6, <1>7, TreeFrame
<1>9. AllPast(s, A2, x)
  BY <1>2, <1>4 DEF AllPast
<1>10. Tree(q, x, A2 \cup {x} \cup B)
  BY <1>2, <1>8, <1>9, TreeJoin
<1>11. AllPast(Opp(s), A2 \cup {x} \cup B, t)
  <2>1. Past(s, t, x)
    BY <1>2, <1>4 DEF AllPast
  <2>2. Past(Opp(s), x, t)
    BY <1>2, <1>4, <1>5, <2>1, PastIs
  <2>3. \A y \in B : Past(Opp(s), y, t)
    BY <1>2, <1>4, <1>5, <2>2, PastIs DEF AllPast
  <2> QED BY <1>4, <2>2, <2>3 DEF AllPast
<1>12. Tree(q, t, A1 \cup {t} \cup (A2 \cup {x} \cup B))
  BY <1>4, <1>6, <1>8, <1>10, <1>11, TreeJoin
<1>13. A1 \cup {t} \cup (A2 \cup {x} \cup B) = S
  BY <1>2, <1>4
<1>14. Outside(p, q, D, S)
  BY <1>2, <1>4, <1>6 DEF Outside
<1>15. Part(S, t, s) = A1
  <2>1. \A y \in A2 \cup {x} \cup B : ~Past(s, y, t)
    BY <1>2, <1>4, <1>5, <1>11, PastIs DEF AllPast
  <2>2. ~Past(s, t, t)
    BY <1>4, PastIs
  <2> QED BY <1>4, <1>13, <2>1, <2>2 DEF Part, AllPast
<1> QED BY <1>1, <1>2, <1>4, <1>6, <1>12, <1>13, <1>14, <1>15

\* e is what is left of a tree S when its root has been turned towards s.
Turns(e, p, D, S, s) ==
  /\ e.p \in Fields(D) /\ e.root \in Obj /\ e.root \in S
  /\ Tree(e.p, e.root, S) /\ Outside(p, e.p, D, S)
  /\ Part(S, e.root, s) = {} /\ e.p[e.root][s] = Nil

LEMMA ExtremeIs ==
  ASSUME NEW D \in Domains, NEW p \in Fields(D), NEW r, NEW S, Tree(p, r, S), r # Nil, NEW s \in Side
  PROVE  Turns(Extreme(p, r, s), p, D, S, s)
<1> DEFINE J == {c \in [p : Fields(D), root : Obj] : Tree(c.p, c.root, S) /\ Outside(p, c.p, D, S)}
           first == [p |-> p, root |-> r]
           step == [c \in J |-> Turned(c, s)]
           m == [c \in J |-> Cardinality(Part(S, c.root, s))]
           N == Cardinality(Obj)
<1>1. N \in Nat /\ Rounds = 0 .. N
  BY ObjIs DEF Rounds
<1>2. r \in Obj /\ S \in SUBSET Obj /\ IsFiniteSet(S)
  BY TreeRoot
<1>3. first \in J
  BY <1>2 DEF Outside
<1>4. ASSUME NEW c \in J
      PROVE  /\ Turned(c, s) \in J
             /\ m[c] \in Nat /\ (m[Turned(c, s)] < m[c] \/ m[Turned(c, s)] = 0)
             /\ m[c] = 0 => Part(S, c.root, s) = {}
             /\ Part(S, c.root, s) = {} => c.p[c.root][s] = Nil
  <2>1. c.p \in Fields(D) /\ c.root \in Obj /\ Tree(c.p, c.root, S) /\ Outside(p, c.p, D, S) /\ c.root # Nil
    BY ObjIs
  <2>2. PICK T : T = Part(S, c.root, s)
    OBVIOUS
  <2>3. IsFiniteSet(T) /\ Cardinality(T) \in Nat /\ m[c] = Cardinality(T) /\ (m[c] = 0 => T = {})
    <3>1. T \in SUBSET S
      BY <2>2 DEF Part
    <3> QED BY <1>2, <2>2, <3>1, FS_Subset, FS_CardinalityType, FS_EmptySet
  <2>4. Tree(c.p, c.p[c.root][s], T)
    BY <2>1, <2>2, TreeOpen
  <2>5. (T = {} <=> c.p[c.root][s] = Nil) /\ (T = {} => Cardinality(T) = 0)
    BY <2>4, TreeRoot, FS_EmptySet
  <2>6. CASE c.p[c.root][s] = Nil
    <3>1. Turned(c, s) = c
      BY <2>6 DEF Turned
    <3> QED BY <2>2, <2>3, <2>5, <2>6, <3>1
  <2>7. CASE c.p[c.root][s] # Nil
    <3>1. PICK q, t : q = Rotated(c.p, c.root, s) /\ t = c.p[c.root][s]
      OBVIOUS
    <3>2. Turned(c, s) = [p |-> q, root |-> t]
      BY <2>7, <3>1 DEF Turned
    <3>3. /\ q \in Fields(D) /\ Tree(q, t, S) /\ Outside(c.p, q, D, S) /\ t \in Obj
          /\ Cardinality(Part(S, t, s)) < Cardinality(T)
      BY <2>1, <2>2, <2>7, <3>1, RotatedTree
    <3>4. Outside(p, q, D, S)
      BY <2>1, <3>3 DEF Outside
    <3>5. Turned(c, s) \in J
      BY <3>2, <3>3, <3>4
    <3>6. m[Turned(c, s)] = Cardinality(Part(S, t, s))
      BY <3>2, <3>5
    <3> QED BY <2>2, <2>3, <2>5, <3>3, <3>5, <3>6
  <2> QED BY <2>6, <2>7
<1>5. m[first] <= N
  <2>1. m[first] = Cardinality(Part(S, r, s))
    BY <1>3
  <2>2. Part(S, r, s) \in SUBSET Obj
    BY <1>2 DEF Part
  <2> QED BY <2>1, <2>2, ObjIs, FS_Subset
<1>6. \A c \in J : step[c] = Turned(c, s)
  OBVIOUS
<1> HIDE DEF J, step, m, first, N
<1>7. Keeps(step, J, m) /\ \A c \in J : step[c] \in J
  BY <1>4, <1>6 DEF Keeps
<1> DEFINE Made(f) == f = [n \in Rounds |-> IF n = 0 THEN first ELSE Turned(f[n - 1], s)]
<1>8. \E f : Made(f)
  <2>1. PICK f : Follows(f, N, first, step) /\ Within(f, N, J)
    BY <1>1, <1>3, <1>7, LoopIs
  <2>2. \A n \in 0 .. N : f[n] \in J /\ f[n] = IF n = 0 THEN first ELSE step[f[n - 1]]
    BY <2>1 DEF Follows, Within
  <2>3. \A n \in 0 .. N : f[n] = IF n = 0 THEN first ELSE Turned(f[n - 1], s)
    <3> TAKE n \in 0 .. N
    <3>1. n # 0 => n - 1 \in 0 .. N
      BY <1>1
    <3> QED BY <1>6, <2>2, <3>1
  <2>4. f = [n \in 0 .. N |-> f[n]]
    BY <2>1 DEF Follows
  <2> QED BY <1>1, <2>3, <2>4
<1>9. PICK f : f = CHOOSE g : Made(g)
  OBVIOUS
<1>10. Made(f)
  BY <1>8, <1>9
<1>11. Runs(f, N, first, step, J)
  <2>1. \A n \in 0 .. N : f[n] = IF n = 0 THEN first ELSE Turned(f[n - 1], s)
    BY <1>1, <1>10
  <2>2. 0 \in 0 .. N /\ \A n \in 1 .. N : n \in 0 .. N /\ n # 0
    BY <1>1
  <2> QED BY <1>6, <2>1, <2>2 DEF Runs
<1>12. f[N] \in J /\ m[f[N]] = 0
  BY <1>1, <1>3, <1>5, <1>7, <1>11, LoopEnds
<1>13. Extreme(p, r, s) = f[N]
  BY <1>9 DEF Extreme, first, N
<1>14. PICK e : e = f[N]
  OBVIOUS
<1>15. Part(S, e.root, s) = {} /\ e.p[e.root][s] = Nil
  BY <1>4, <1>12, <1>14
<1>16. e.p \in Fields(D) /\ e.root \in Obj /\ Tree(e.p, e.root, S) /\ Outside(p, e.p, D, S)
  BY <1>12, <1>14 DEF J
<1>17. e.root \in S
  BY <1>16, TreeRoot, ObjIs
<1> QED BY <1>13, <1>14, <1>15, <1>16, <1>17 DEF Turns

LEMMA FieldsSame ==
  ASSUME NEW D, NEW p \in Fields(D), NEW q \in Fields(D),
         \A x \in D, s \in Side : p[x][s] = q[x][s]
  PROVE  p = q
<1>1. ASSUME NEW x \in D PROVE p[x] = q[x]
  <2>1. p[x] \in [left : Obj \cup {Nil}, right : Obj \cup {Nil}] /\ q[x] \in [left : Obj \cup {Nil}, right : Obj \cup {Nil}]
    BY DEF Fields
  <2>2. p[x].left = q[x].left /\ p[x].right = q[x].right
    BY SideIs
  <2> QED BY <2>1, <2>2
<1> QED BY <1>1 DEF Fields

-----------------------------------------------------------------------------
(* The tree that grows on one side of a splay.                              *)

\* q is p but for the inner field of e, where a tree S on the side s of what is
\* sought ends.
AlikeBut(p, q, S, e, s) ==
  /\ \A x \in S : q[x][s] = p[x][s] /\ (x # e => q[x][Opp(s)] = p[x][Opp(s)])
  /\ e # Link => q[Link][Opp(s)] = p[Link][Opp(s)]

\* All of T lies beyond all of S, a set on the side s.
AllBeyond(T, S, s) == \A y \in T, x \in S : Past(Opp(s), y, x)

\* S hangs on Link, and ends in e: whatever tree T is put there, if it lies beyond S,
\* there is a tree of both.
Hung(p, s, S, e) ==
  /\ S \in SUBSET Obj /\ e \in S \cup {Link} /\ (S = {} <=> e = Link)
  /\ \A q \in Fields(Places), T \in SUBSET Obj :
       AlikeBut(p, q, S, e, s) /\ Tree(q, q[e][Opp(s)], T) /\ AllBeyond(T, S, s)
         => Tree(q, q[Link][Opp(s)], S \cup T)

LEMMA HungEmpty ==
  ASSUME NEW p, NEW s \in Side
  PROVE  Hung(p, s, {}, Link)
<1>1. ASSUME NEW q \in Fields(Places), NEW T \in SUBSET Obj, Tree(q, q[Link][Opp(s)], T)
      PROVE  Tree(q, q[Link][Opp(s)], {} \cup T)
  <2>1. {} \cup T = T
    OBVIOUS
  <2> QED BY <1>1, <2>1
<1> QED BY <1>1 DEF Hung

LEMMA HungFrame ==
  ASSUME NEW p, NEW q, NEW s \in Side, NEW S, NEW e, Hung(p, s, S, e), AlikeBut(p, q, S, e, s)
  PROVE  Hung(q, s, S, e)
<1>1. \A r : AlikeBut(q, r, S, e, s) => AlikeBut(p, r, S, e, s)
  BY DEF AlikeBut
<1> QED BY <1>1 DEF Hung

\* What hangs does not change in places that are not in it.
LEMMA HungOutside ==
  ASSUME NEW p, NEW q, NEW s \in Side, NEW S, NEW e, Hung(p, s, S, e),
         \A x \in S : q[x] = p[x], q[Link][Opp(s)] = p[Link][Opp(s)]
  PROVE  Hung(q, s, S, e)
<1>1. AlikeBut(p, q, S, e, s)
  BY DEF AlikeBut
<1> QED BY <1>1, HungFrame

LEMMA HungIs ==
  ASSUME NEW p \in Fields(Places), NEW s \in Side, NEW S, NEW e, Hung(p, s, S, e),
         NEW q \in Fields(Places), AlikeBut(p, q, S, e, s),
         NEW T, Tree(q, q[e][Opp(s)], T), AllBeyond(T, S, s)
  PROVE  Tree(q, q[Link][Opp(s)], S \cup T)
<1>1. T \in SUBSET Obj
  BY TreeRoot
<1> QED BY <1>1 DEF Hung

LEMMA HangIs ==
  ASSUME NEW p \in Fields(Places), NEW s \in Side, NEW S, NEW e, Hung(p, s, S, e),
         NEW x \in Obj, NEW A, Tree(p, p[x][s], A), AllPast(s, A, x),
         x \notin S, A \cap S = {}, AllBeyond(A \cup {x}, S, s),
         NEW q, Puts(p, q, Places, e, Opp(s), x)
  PROVE  Hung(q, s, S \cup A \cup {x}, x)
<1>1. /\ A \in SUBSET Obj /\ S \in SUBSET Obj /\ e \in S \cup {Link} /\ (S = {} <=> e = Link)
      /\ Link \notin Obj /\ x # Link /\ e # x /\ e \notin A /\ Opp(s) \in Side /\ Opp(Opp(s)) = s /\ Opp(s) # s
  BY TreeRoot, ObjIs, SideIs DEF Hung
<1>2. x \notin A
  BY <1>1, PastIs DEF AllPast
<1>3. /\ q \in Fields(Places)
      /\ q[e][Opp(s)] = x /\ q[e][s] = p[e][s]
      /\ \A y \in Places : y # e => q[y] = p[y]
  BY <1>1 DEF Puts
<1>4. PICK S2 : S2 = S \cup A \cup {x}
  OBVIOUS
<1>5. ASSUME NEW r \in Fields(Places), NEW T \in SUBSET Obj,
             AlikeBut(q, r, S2, x, s), Tree(r, r[x][Opp(s)], T), AllBeyond(T, S2, s)
      PROVE  Tree(r, r[Link][Opp(s)], S2 \cup T)
  <2>1. /\ \A y \in S2 : r[y][s] = q[y][s] /\ (y # x => r[y][Opp(s)] = q[y][Opp(s)])
        /\ r[Link][Opp(s)] = q[Link][Opp(s)]
    BY <1>1, <1>5 DEF AlikeBut
  <2>2. r[x][s] = p[x][s] /\ \A y \in A, t \in Side : r[y][t] = p[y][t]
    <3>1. \A y \in A \cup {x} : y \in Places /\ y # e /\ q[y] = p[y]
      BY <1>1, <1>3 DEF Places
    <3>2. \A y \in A : r[y][s] = p[y][s] /\ r[y][Opp(s)] = p[y][Opp(s)]
      BY <1>2, <1>4, <2>1, <3>1
    <3> QED BY <1>4, <2>1, <3>1, <3>2, SideIs
  <2>3. Tree(r, r[x][s], A)
    BY <2>2, TreeFrame
  <2>4. AllPast(Opp(s), T, x)
    BY <1>4, <1>5 DEF AllPast, AllBeyond
  <2>5. Tree(r, x, A \cup {x} \cup T)
    BY <1>5, <2>3, <2>4, TreeJoin
  <2>6. r[e][Opp(s)] = x
    BY <1>1, <1>3, <1>4, <2>1
  <2>7. AlikeBut(p, r, S, e, s)
    <3>1. \A y \in S : y \in Places /\ y # x /\ (y # e => q[y] = p[y])
      BY <1>1, <1>3 DEF Places
    <3>2. e # Link => q[Link] = p[Link]
      BY <1>3 DEF Places
    <3> QED BY <1>3, <1>4, <2>1, <3>1, <3>2 DEF AlikeBut
  <2>8. AllBeyond(A \cup {x} \cup T, S, s)
    BY <1>4, <1>5 DEF AllBeyond
  <2>9. Tree(r, r[Link][Opp(s)], S \cup (A \cup {x} \cup T))
    BY <2>5, <2>6, <2>7, <2>8, HungIs
  <2>10. S \cup (A \cup {x} \cup T) = S2 \cup T
    BY <1>4
  <2> QED BY <2>9, <2>10
<1>6. S2 \in SUBSET Obj /\ x \in S2 /\ S2 # {} /\ x # Link
  BY <1>1, <1>4
<1>7. Hung(q, s, S2, x)
  BY <1>5, <1>6 DEF Hung
<1> QED BY <1>4, <1>7

-----------------------------------------------------------------------------
(* The splay.                                                               *)

\* The key of x lies on the side s of k.
KeyPast(s, x, k) == IF s = "left" THEN Key[x] < k ELSE Key[x] > k

LEMMA KeyPastIs ==
  ASSUME NEW k \in Int, NEW s \in Side
  PROVE  /\ \A x \in Obj : ~(KeyPast(s, x, k) /\ KeyPast(Opp(s), x, k)) /\ (KeyPast(s, x, k) => Key[x] # k)
         /\ \A x, y \in Obj : KeyPast(s, x, k) /\ Past(s, y, x) => KeyPast(s, y, k)
         /\ \A x, y \in Obj : KeyPast(s, x, k) /\ (KeyPast(Opp(s), y, k) \/ Key[y] = k) => Past(s, x, y)
         /\ \A x \in Obj : Key[x] # k => Toward(k, x) \in Side /\ KeyPast(Opp(Toward(k, x)), x, k)
BY ObjIs DEF KeyPast, Past, Side, Opp, Toward

Searches == [p : Fields(Places), root : Obj \cup {Nil}, end : [Side -> Places]]

\* d is c when x is hung on the side u and the root is r.
Hangs(c, d, u, x, r) ==
  /\ d \in Searches /\ d.root = r
  /\ Puts(c.p, d.p, Places, c.end[u], Opp(u), x)
  /\ d.end[u] = x /\ d.end[Opp(u)] = c.end[Opp(u)]

LEMMA HangFields ==
  ASSUME NEW c \in Searches, NEW u \in Side, NEW x \in Obj, NEW r \in Obj \cup {Nil},
         NEW d, d = [Hang(c, u, x) EXCEPT !.root = r]
  PROVE  Hangs(c, d, u, x, r)
<1>1. /\ c.p \in Fields(Places) /\ c.end \in [Side -> Places] /\ Opp(u) \in Side /\ Opp(u) # u
      /\ c = [p |-> c.p, root |-> c.root, end |-> c.end]
  BY SideIs DEF Searches
<1>2. PICK e, s, v : e = c.end[u] /\ s = Opp(u) /\ v = x
  OBVIOUS
<1>3. PICK q : q = [c.p EXCEPT ![e][s] = v]
  OBVIOUS
<1>4. Puts(c.p, q, Places, e, s, v)
  <2>1. e \in Places /\ s \in Side /\ v \in Obj \cup {Nil}
    BY <1>1, <1>2
  <2> QED BY <1>1, <1>3, <2>1, PutIs
<1>0. PICK E : E = [c.end EXCEPT ![u] = x]
  OBVIOUS
<1>5. d = [p |-> q, root |-> r, end |-> E]
  BY <1>0, <1>1, <1>2, <1>3 DEF Hang
<1>6. E \in [Side -> Places] /\ q \in Fields(Places)
  BY <1>0, <1>1, <1>4 DEF Places, Puts
<1>7. d.p = q /\ d.root = r /\ d.end = [c.end EXCEPT ![u] = x]
  BY <1>0, <1>5
<1>8. d.end[u] = x /\ d.end[Opp(u)] = c.end[Opp(u)]
  BY <1>1, <1>7
<1>9. d \in Searches
  BY ONLY <1>5, <1>6, r \in Obj \cup {Nil} DEF Searches
<1> QED BY <1>2, <1>4, <1>7, <1>8, <1>9 DEF Hangs

\* c is a search for k in the tree S, which was in the fields p, when it has passed
\* H on its two sides and T is left.
Splayed(c, H, T, p, S, k) ==
  /\ c \in Searches /\ H \in [Side -> SUBSET Obj]
  /\ Tree(c.p, c.root, T)
  /\ \A s \in Side :
       /\ Hung(c.p, s, H[s], c.end[s])
       /\ \A x \in H[s] : KeyPast(s, x, k)
       /\ H[s] \cap T = {} /\ H[s] \cap H[Opp(s)] = {} /\ S = H[s] \cup T \cup H[Opp(s)]
       /\ AllBeyond(T, H[s], s)
  /\ Outside(p, c.p, Places, S \cup {Link})

\* The tree that is left of a search c is in d as it was.
Left(c, d, T, x, s) == \A y \in Part(T, x, s), t \in Side : d.p[y][t] = c.p[y][t]

\* The root is passed, with the objects beyond it.
LEMMA PassIs ==
  ASSUME NEW k \in Int, NEW c, NEW H, NEW T, NEW p, NEW S, Splayed(c, H, T, p, S, k),
         NEW x, x = c.root, x # Nil, NEW s \in Side, KeyPast(Opp(s), x, k),
         NEW d, d = [Hang(c, Opp(s), x) EXCEPT !.root = c.p[x][s]]
  PROVE  /\ Splayed(d, [H EXCEPT ![Opp(s)] = H[Opp(s)] \cup Part(T, x, Opp(s)) \cup {x}], Part(T, x, s), p, S, k)
         /\ Left(c, d, T, x, s)
<1>1. PICK u : u = Opp(s)
  OBVIOUS
<1>2. u \in Side /\ Opp(u) = s /\ u # s /\ \A t \in Side : t = s \/ t = u
  BY <1>1, SideIs
<1>3. PICK A, B : A = Part(T, x, u) /\ B = Part(T, x, s)
  OBVIOUS
<1>4. /\ T = B \cup {x} \cup A /\ x \in Obj /\ x \notin A /\ x \notin B /\ A \cap B = {}
      /\ AllPast(s, B, x) /\ AllPast(u, A, x)
      /\ Tree(c.p, c.p[x][s], B) /\ Tree(c.p, c.p[x][u], A)
      /\ A \in SUBSET Obj /\ B \in SUBSET Obj
  <2>1. Tree(c.p, x, T)
    BY DEF Splayed
  <2> QED BY <1>1, <1>3, <2>1, TreeParts
<1>5. /\ c \in Searches /\ H \in [Side -> SUBSET Obj] /\ c.p \in Fields(Places) /\ c.end \in [Side -> Places]
      /\ Hung(c.p, s, H[s], c.end[s]) /\ Hung(c.p, u, H[u], c.end[u])
      /\ H[s] \cap T = {} /\ H[u] \cap T = {} /\ H[s] \cap H[u] = {} /\ S = H[s] \cup T \cup H[u]
      /\ AllBeyond(T, H[s], s) /\ AllBeyond(T, H[u], u)
      /\ \A y \in H[s] : KeyPast(s, y, k)
      /\ \A y \in H[u] : KeyPast(u, y, k)
      /\ Outside(p, c.p, Places, S \cup {Link})
  BY <1>1, <1>2 DEF Splayed, Searches
<1>6. PICK e : e = c.end[u]
  OBVIOUS
<1>7. PICK r : r = c.p[x][s]
  OBVIOUS
<1>8. r \in Obj \cup {Nil}
  BY <1>4, <1>7, TreeRoot
<1>9. d \in Searches /\ d.root = r /\ Puts(c.p, d.p, Places, e, s, x) /\ d.end[u] = x /\ d.end[s] = c.end[s]
  <2>1. d = [Hang(c, u, x) EXCEPT !.root = r]
    BY <1>1, <1>7
  <2>2. Hangs(c, d, u, x, r)
    BY ONLY <1>2, <1>4, <1>5, <1>8, <2>1, HangFields
  <2> QED BY <1>2, <1>6, <2>2 DEF Hangs
<1>10. e \in H[u] \cup {Link} /\ H[u] \in SUBSET Obj /\ H[s] \in SUBSET Obj /\ Link \notin Obj
  BY <1>5, <1>6, ObjIs DEF Hung
<1>11. /\ d.p \in Fields(Places) /\ d.p[e][u] = c.p[e][u]
       /\ \A y \in Places : y # e => d.p[y] = c.p[y]
  BY <1>1, <1>2, <1>9 DEF Puts
<1>12. Hung(d.p, u, H[u] \cup A \cup {x}, x)
  <2>1. AllBeyond(A \cup {x}, H[u], u) /\ x \notin H[u] /\ A \cap H[u] = {}
    BY <1>4, <1>5 DEF AllBeyond
  <2>2. Puts(c.p, d.p, Places, e, Opp(u), x)
    BY <1>2, <1>9
  <2>3. PICK q, f : q = c.p /\ f = d.p
    OBVIOUS
  <2>4. Hung(f, u, H[u] \cup A \cup {x}, x)
    BY <1>2, <1>4, <1>5, <1>6, <2>1, <2>2, <2>3, HangIs
  <2> QED BY <2>3, <2>4
<1>13. Hung(d.p, s, H[s], c.end[s])
  <2>1. \A y \in H[s] : d.p[y] = c.p[y]
    BY <1>5, <1>10, <1>11 DEF Places
  <2>2. d.p[Link][u] = c.p[Link][u]
    BY <1>11 DEF Places
  <2> QED BY <1>1, <1>5, <2>1, <2>2, HungOutside
<1>14. \A y \in B, t \in Side : d.p[y][t] = c.p[y][t]
  <2>1. \A y \in B : y \in Places /\ y # e
    BY <1>4, <1>5, <1>10 DEF Places
  <2> QED BY <1>11, <2>1
<1>15. Tree(d.p, d.root, B)
  BY <1>4, <1>7, <1>9, <1>14, TreeFrame
<1>16. PICK G : G = [H EXCEPT ![u] = H[u] \cup A \cup {x}]
  OBVIOUS
<1>17. G \in [Side -> SUBSET Obj] /\ G[u] = H[u] \cup A \cup {x} /\ G[s] = H[s]
  BY <1>2, <1>4, <1>5, <1>10, <1>16
<1>18. \A y \in A \cup {x} : KeyPast(u, y, k)
  BY <1>1, <1>2, <1>4, KeyPastIs DEF AllPast
<1>19. AllBeyond(B, G[u], u)
  <2>1. \A y \in B, z \in A : Past(s, y, z)
    <3> TAKE y \in B, z \in A
    <3>1. Past(s, y, x) /\ Past(u, z, x) /\ y \in Obj /\ z \in Obj
      BY <1>4 DEF AllPast
    <3>2. Past(s, x, z)
      BY <1>1, <1>2, <1>4, <3>1, PastIs
    <3> QED BY <1>4, <3>1, <3>2, PastIs
  <2>2. \A y \in B : Past(s, y, x)
    BY <1>4 DEF AllPast
  <2> QED BY <1>2, <1>4, <1>5, <1>17, <2>1, <2>2 DEF AllBeyond
<1>20. AllBeyond(B, G[s], s)
  BY <1>4, <1>5, <1>17 DEF AllBeyond
<1>21. Outside(p, d.p, Places, S \cup {Link})
  BY <1>5, <1>10, <1>11 DEF Outside
<1>22. /\ G[u] \cap B = {} /\ G[s] \cap B = {} /\ G[s] \cap G[u] = {} /\ G[u] \cap G[s] = {}
       /\ S = G[s] \cup B \cup G[u] /\ S = G[u] \cup B \cup G[s]
  BY <1>4, <1>5, <1>17
<1>23. (\A y \in G[s] : KeyPast(s, y, k)) /\ (\A y \in G[u] : KeyPast(u, y, k))
  BY <1>5, <1>17, <1>18
<1>24. Splayed(d, G, B, p, S, k)
  <2>1. Hung(d.p, s, G[s], d.end[s]) /\ Hung(d.p, u, G[u], d.end[u])
    BY <1>9, <1>12, <1>13, <1>17
  <2>2. Opp(s) = u /\ Opp(u) = s
    BY <1>1, <1>2
  <2> QED BY <1>2, <1>9, <1>15, <1>17, <1>19, <1>20, <1>21, <1>22, <1>23, <2>1, <2>2 DEF Splayed
<1> QED BY <1>1, <1>3, <1>14, <1>16, <1>24 DEF Left

Hanged(c, u, x, r) ==
  [p |-> [c.p EXCEPT ![c.end[u]][Opp(u)] = x], root |-> r, end |-> [c.end EXCEPT ![u] = x]]

LEMMA HangedIs ==
  ASSUME NEW c, NEW P, NEW r, NEW E, c = [p |-> P, root |-> r, end |-> E], NEW u, NEW x, NEW y
  PROVE  Hang(c, u, x) = Hanged(c, u, x, r) /\ [Hang(c, u, x) EXCEPT !.root = y] = Hanged(c, u, x, y)
<1>1. c.p = P /\ c.root = r /\ c.end = E
  OBVIOUS
<1>2. PICK e, s : e = E[u] /\ s = Opp(u)
  OBVIOUS
<1>3. PICK Q, F : Q = [P EXCEPT ![e][s] = x] /\ F = [E EXCEPT ![u] = x]
  OBVIOUS
<1>4. PICK b : b = [c EXCEPT !.p[e][s] = x]
  OBVIOUS
<1>5. b = [p |-> Q, root |-> r, end |-> E]
  BY <1>1, <1>3, <1>4
<1>6. Hang(c, u, x) = [b EXCEPT !.end[u] = x]
  BY <1>1, <1>2, <1>4 DEF Hang
<1>7. Hang(c, u, x) = [p |-> Q, root |-> r, end |-> F]
  BY <1>3, <1>5, <1>6
<1>8. \A z : Hanged(c, u, x, z) = [p |-> Q, root |-> z, end |-> F]
  BY <1>1, <1>2, <1>3 DEF Hanged
<1> QED BY <1>7, <1>8

\* Two objects that are hung on the two sides can be hung in any order.
LEMMA HangSwap ==
  ASSUME NEW c \in Searches, NEW s \in Side, NEW u, u = Opp(s), NEW x \in Obj, NEW t \in Obj,
         NEW y \in Obj \cup {Nil}, NEW z, NEW r, c.end[s] # c.end[u] \/ c.end[s] = Link
  PROVE  Hanged(Hanged(c, s, t, r), u, x, y) = Hanged(Hanged(c, u, x, z), s, t, y)
<1>1. u \in Side /\ Opp(u) = s /\ u # s /\ \A v \in Side : v = s \/ v = u
  BY SideIs
<1>2. PICK p, E, es, eu : p = c.p /\ E = c.end /\ es = c.end[s] /\ eu = c.end[u]
  OBVIOUS
<1>3. p \in Fields(Places) /\ E \in [Side -> Places] /\ es \in Places /\ eu \in Places
  BY <1>1, <1>2 DEF Searches
<1>4. PICK q1 : q1 = [p EXCEPT ![es][u] = t]
  OBVIOUS
<1>5. PICK q2 : q2 = [q1 EXCEPT ![eu][s] = x]
  OBVIOUS
<1>6. PICK f1 : f1 = [p EXCEPT ![eu][s] = x]
  OBVIOUS
<1>7. PICK f2 : f2 = [f1 EXCEPT ![es][u] = t]
  OBVIOUS
<1>8. Puts(p, q1, Places, es, u, t) /\ Puts(p, f1, Places, eu, s, x)
  <2>1. t \in Obj \cup {Nil} /\ x \in Obj \cup {Nil}
    OBVIOUS
  <2> QED BY <1>1, <1>3, <1>4, <1>6, <2>1, PutIs
<1>9. Puts(q1, q2, Places, eu, s, x) /\ Puts(f1, f2, Places, es, u, t)
  <2>1. t \in Obj \cup {Nil} /\ x \in Obj \cup {Nil}
    OBVIOUS
  <2>2. q1 \in Fields(Places) /\ f1 \in Fields(Places)
    BY <1>8 DEF Puts
  <2> QED BY <1>1, <1>3, <1>5, <1>7, <2>1, <2>2, PutIs
<1>10. q2 = f2
  <2>1. q2 \in Fields(Places) /\ f2 \in Fields(Places)
    BY <1>9 DEF Puts
  <2>2. \A y1 \in Places : q2[y1][s] = f2[y1][s] /\ q2[y1][u] = f2[y1][u]
    BY <1>1, <1>8, <1>9 DEF Puts
  <2>3. \A y1 \in Places, v \in Side : q2[y1][v] = f2[y1][v]
    BY <1>1, <2>2
  <2> QED BY <2>1, <2>3, FieldsSame
<1>11. PICK E1, E2 : E1 = [E EXCEPT ![s] = t] /\ E2 = [E EXCEPT ![u] = x]
  OBVIOUS
<1>12. [E1 EXCEPT ![u] = x] = [E2 EXCEPT ![s] = t] /\ E1[u] = eu /\ E2[s] = es
  BY <1>1, <1>2, <1>3, <1>11
<1>13. Hanged(c, s, t, r) = [p |-> q1, root |-> r, end |-> E1]
  BY <1>2, <1>4, <1>11 DEF Hanged
<1>14. Hanged(Hanged(c, s, t, r), u, x, y) = [p |-> q2, root |-> y, end |-> [E1 EXCEPT ![u] = x]]
  BY <1>1, <1>5, <1>12, <1>13 DEF Hanged
<1>15. Hanged(c, u, x, z) = [p |-> f1, root |-> z, end |-> E2]
  BY <1>1, <1>2, <1>6, <1>11 DEF Hanged
<1>16. Hanged(Hanged(c, u, x, z), s, t, y) = [p |-> f2, root |-> y, end |-> [E2 EXCEPT ![s] = t]]
  BY <1>7, <1>12, <1>15 DEF Hanged
<1> QED BY <1>10, <1>12, <1>14, <1>16

LEMMA SplayedEnds ==
  ASSUME NEW c, NEW H, NEW T, NEW p, NEW S, NEW k, Splayed(c, H, T, p, S, k), NEW s \in Side
  PROVE  /\ c.end[s] \in H[s] \cup {Link} /\ c.end[s] \notin T
         /\ c.end[s] # c.end[Opp(s)] \/ c.end[s] = Link
         /\ c = [p |-> c.p, root |-> c.root, end |-> c.end]
<1>1. H[s] \cap T = {} /\ H[s] \cap H[Opp(s)] = {} /\ T \in SUBSET Obj /\ Link \notin Obj
  BY TreeRoot, ObjIs DEF Splayed
<1>2. c.end[s] \in H[s] \cup {Link} /\ c.end[Opp(s)] \in H[Opp(s)] \cup {Link}
  BY SideIs DEF Splayed, Hung
<1>3. c = [p |-> c.p, root |-> c.root, end |-> c.end]
  BY DEF Splayed, Searches
<1> QED BY <1>1, <1>2, <1>3

\* A round goes on with fewer objects.
LEMMA DescendIs ==
  ASSUME NEW k \in Int, NEW c, NEW H, NEW T, NEW p, NEW S, Splayed(c, H, T, p, S, k),
         c.root # Nil, Key[c.root] # k
  PROVE  \E G, R : Splayed(Descended(c, k), G, R, p, S, k) /\ Cardinality(R) < Cardinality(T)
<1>1. PICK x, s, u, t : x = c.root /\ s = Toward(k, x) /\ u = Opp(s) /\ t = c.p[x][s]
  OBVIOUS
<1>2. Tree(c.p, x, T) /\ x \in Obj /\ x \in T
  BY <1>1, TreeRoot DEF Splayed
<1>3. s \in Side /\ u \in Side /\ Opp(u) = s /\ KeyPast(Opp(s), x, k) /\ Opp(s) = u
  BY <1>1, <1>2, KeyPastIs, SideIs
<1>4. PICK T1 : T1 = Part(T, x, s)
  OBVIOUS
<1>5. Tree(c.p, t, T1) /\ Cardinality(T1) < Cardinality(T) /\ Cardinality(T1) \in Nat /\ Cardinality(T) \in Nat /\ T1 \subseteq T
  <2>1. T1 \subseteq T
    BY <1>4 DEF Part
  <2> QED BY <1>1, <1>2, <1>3, <1>4, <2>1, TreeParts
<1>6. PICK P, E : P = c.p /\ E = c.end /\ c = [p |-> P, root |-> x, end |-> E]
  BY <1>1, <1>3, SplayedEnds
<1>7. P \in Fields(Places) /\ E \in [Side -> Places] /\ c \in Searches
  BY <1>6 DEF Splayed, Searches
<1>8. PICK d1 : d1 = Hanged(c, u, x, t)
  OBVIOUS
<1>9. d1 = [Hang(c, Opp(s), x) EXCEPT !.root = c.p[x][s]]
  BY <1>1, <1>3, <1>6, <1>8, HangedIs
<1>10. \E G : Splayed(d1, G, T1, p, S, k)
  <2>1. c.root # Nil /\ x # Nil
    BY <1>1
  <2> QED BY <1>1, <1>3, <1>4, <1>9, <2>1, PassIs
<1>11. CASE t = Nil \/ Key[t] = k
  <2>1. Descended(c, k) = [Hang(c, u, x) EXCEPT !.root = t]
    BY <1>1, <1>11 DEF Descended
  <2>2. Descended(c, k) = d1
    BY <1>1, <1>3, <1>9, <2>1
  <2> QED BY <1>5, <1>10, <2>2
<1>12. CASE t # Nil /\ Key[t] # k /\ Toward(k, t) = s
  <2>1. PICK q : q = Rotated(P, x, s)
    OBVIOUS
  <2>2. t \in Obj /\ t \in T
    BY <1>5, <1>12, TreeRoot
  <2>3. q \in Fields(Places) /\ Tree(q, t, T) /\ Outside(P, q, Places, T)
    <3>1. Places \in Domains /\ Tree(P, x, T) /\ x # Nil /\ t = P[x][s]
      BY <1>1, <1>2, <1>6, ObjIs DEF Domains
    <3> QED BY <1>3, <1>7, <1>12, <2>1, <3>1, RotatedTree
  <2>4. PICK c2 : c2 = [p |-> q, root |-> t, end |-> E]
    OBVIOUS
  <2>5. Splayed(c2, H, T, p, S, k)
    <3>1. c2 \in Searches /\ c2.p = q /\ c2.root = t /\ c2.end = E
      BY <1>7, <2>2, <2>3, <2>4 DEF Searches
    <3>2. ASSUME NEW v \in Side PROVE Hung(q, v, H[v], E[v])
      <4>1. Hung(P, v, H[v], E[v]) /\ H[v] \cap T = {} /\ H[v] \in SUBSET Obj /\ T \in SUBSET Obj
        BY <1>2, <1>6, TreeRoot DEF Splayed
      <4>2. (\A y \in H[v] : q[y] = P[y]) /\ q[Link][Opp(v)] = P[Link][Opp(v)]
        BY <2>3, <4>1, ObjIs DEF Outside, Places
      <4> QED BY <4>1, <4>2, HungOutside
    <3>3. Outside(p, q, Places, S \cup {Link})
      <4>1. Outside(p, P, Places, S \cup {Link}) /\ T \subseteq S
        BY <1>3, <1>6 DEF Splayed
      <4> QED BY <2>3, <4>1 DEF Outside
    <3>4. H \in [Side -> SUBSET Obj]
      BY DEF Splayed
    <3> QED BY <2>3, <3>1, <3>2, <3>3, <3>4 DEF Splayed
  <2>6. PICK d : d = [Hang(c2, Opp(s), t) EXCEPT !.root = c2.p[t][s]]
    OBVIOUS
  <2>7. \E G : Splayed(d, G, Part(T, t, s), p, S, k)
    <3>1. KeyPast(Opp(s), t, k)
      BY <1>12, <2>2, KeyPastIs, SideIs
    <3>2. t = c2.root /\ t # Nil
      BY <1>12, <2>4
    <3> QED BY <1>3, <2>5, <2>6, <3>1, <3>2, PassIs
  <2>8. Cardinality(Part(T, t, s)) < Cardinality(T)
    BY <1>3, <1>12, <2>3, TreeParts
  <2>9. Descended(c, k) = d
    <3>1. PICK c1 : c1 = [c EXCEPT !.p = q]
      OBVIOUS
    <3>2. c1 = [p |-> q, root |-> x, end |-> E]
      BY <1>6, <3>1
    <3>3. PICK turned : turned = Hang(c1, u, t)
      OBVIOUS
    <3>4. Descended(c, k) = [turned EXCEPT !.root = turned.p[t][s]]
      <4>1. ~(t = Nil) /\ ~(Key[t] = k) /\ Toward(k, t) = s /\ c.root # Nil /\ Key[c.root] # k
        BY <1>12
      <4>2. c1 = [c EXCEPT !.p = Rotated(c.p, x, s)]
        BY <1>6, <2>1, <3>1
      <4> QED BY <1>1, <3>3, <4>1, <4>2 DEF Descended
    <3>5. turned = Hanged(c1, u, t, x) /\ \A y : [turned EXCEPT !.root = y] = Hanged(c1, u, t, y)
      BY <3>2, <3>3, HangedIs
    <3>6. turned.p[t][s] = q[t][s]
      <4>1. turned.p = [q EXCEPT ![E[u]][Opp(u)] = t]
        BY <3>2, <3>5 DEF Hanged
      <4>2. E[u] # t /\ t \in Places /\ E[u] \in Places
        BY <1>3, <1>6, <1>7, <2>2, SplayedEnds DEF Places
      <4> QED BY <2>3, <4>1, <4>2 DEF Fields
    <3>7. d = Hanged(c2, u, t, q[t][s])
      BY <1>3, <2>4, <2>6, HangedIs
    <3>8. Hanged(c2, u, t, q[t][s]) = Hanged(c1, u, t, q[t][s])
      BY <2>4, <3>2 DEF Hanged
    <3> QED BY <3>4, <3>5, <3>6, <3>7, <3>8
  <2> QED BY <2>7, <2>8, <2>9
<1>13. CASE t # Nil /\ Key[t] # k /\ Toward(k, t) # s
  <2>1. t \in Obj /\ t \in T1
    BY <1>5, <1>13, TreeRoot
  <2>2. Toward(k, t) = u /\ KeyPast(s, t, k)
    BY <1>3, <1>13, <2>1, KeyPastIs, SideIs
  <2>3. PICK G : Splayed(d1, G, T1, p, S, k)
    BY <1>10
  <2>4. d1.root = t
    BY <1>8 DEF Hanged
  <2>5. PICK d2 : d2 = [Hang(d1, Opp(u), t) EXCEPT !.root = d1.p[t][u]]
    OBVIOUS
  <2>6. \E G2 : Splayed(d2, G2, Part(T1, t, u), p, S, k)
    <3>1. KeyPast(Opp(u), t, k) /\ t = d1.root /\ t # Nil
      BY <1>3, <1>13, <2>2, <2>4
    <3>2. PICK w : w = u
      OBVIOUS
    <3>3. w \in Side /\ KeyPast(Opp(w), t, k) /\ d2 = [Hang(d1, Opp(w), t) EXCEPT !.root = d1.p[t][w]]
      BY <1>3, <2>5, <3>1, <3>2
    <3>4. PICK G2, R2 : /\ G2 = [G EXCEPT ![Opp(w)] = G[Opp(w)] \cup Part(T1, t, Opp(w)) \cup {t}]
                        /\ R2 = Part(T1, t, w)
      OBVIOUS
    <3>5. Splayed(d2, G2, R2, p, S, k)
      BY <2>3, <3>1, <3>3, <3>4, PassIs
    <3> QED BY <3>2, <3>4, <3>5
  <2>7. Cardinality(Part(T1, t, u)) < Cardinality(T)
    <3>1. Cardinality(Part(T1, t, u)) < Cardinality(T1) /\ Cardinality(Part(T1, t, u)) \in Nat
      BY <1>3, <1>5, <1>13, TreeParts
    <3> QED BY <1>5, <3>1
  <2>8. PICK r : r = c.p[t][u]
    OBVIOUS
  <2>9. d1.p[t][u] = r
    <3>1. x = c.root /\ x # Nil
      BY <1>1
    <3>2. \A y \in T1, v \in Side : d1.p[y][v] = c.p[y][v]
      <4>1. s \in Side /\ KeyPast(Opp(s), x, k)
        BY <1>3
      <4>2. Left(c, d1, T, x, s)
        BY <1>9, <3>1, <4>1, PassIs
      <4> QED BY <1>4, <4>2 DEF Left
    <3> QED BY <1>3, <2>1, <2>8, <3>2
  <2>10. d2 = Hanged(d1, s, t, r)
    <3>1. d1 = [p |-> d1.p, root |-> d1.root, end |-> d1.end]
      BY <1>3, <2>3, SplayedEnds
    <3> QED BY <1>3, <2>5, <2>9, <3>1, HangedIs
  <2>11. Descended(c, k) = Hanged(Hanged(c, s, t, x), u, x, r)
    <3>1. PICK h : h = Hang(c, s, t)
      OBVIOUS
    <3>2. h = Hanged(c, s, t, x)
      BY <1>6, <3>1, HangedIs
    <3>3. h = [p |-> h.p, root |-> x, end |-> h.end]
      BY <3>2 DEF Hanged
    <3>4. [Hang(h, u, x) EXCEPT !.root = r] = Hanged(h, u, x, r)
      BY <3>3, HangedIs
    <3>5. Descended(c, k) = [Hang(h, u, x) EXCEPT !.root = r]
      <4>1. ~(t = Nil) /\ ~(Key[t] = k) /\ ~(Toward(k, t) = s) /\ c.root # Nil /\ Key[c.root] # k
        BY <1>13
      <4> QED BY <1>1, <2>8, <3>1, <4>1 DEF Descended
    <3> QED BY <3>2, <3>4, <3>5
  <2>12. Descended(c, k) = d2
    <3>1. r \in Obj \cup {Nil}
      <4>1. t \in Places
        BY <2>1 DEF Places
      <4> QED BY <1>3, <1>6, <1>7, <2>1, <2>8, DomainsIs DEF Domains
    <3>2. c.end[s] # c.end[u] \/ c.end[s] = Link
      BY <1>3, SplayedEnds
    <3> QED BY <1>2, <1>3, <1>7, <1>8, <2>1, <2>10, <2>11, <3>1, <3>2, HangSwap
  <2> QED BY <2>6, <2>7, <2>12
<1> QED BY <1>11, <1>12, <1>13

\* The search is over.
Ended(c, k) == c.root = Nil \/ (c.root # Nil /\ Key[c.root] = k)

LEMMA SplayIs ==
  ASSUME NEW k \in Int, NEW c, NEW H, NEW T, NEW p, NEW S, Splayed(c, H, T, p, S, k)
  PROVE  \E G, R : Splayed(Splay(c, k), G, R, p, S, k) /\ Ended(Splay(c, k), k)
<1> DEFINE J == {e \in Searches : \E G, R : Splayed(e, G, R, p, S, k)}
           step == [e \in J |-> Descended(e, k)]
           m == [e \in J |-> IF Ended(e, k) THEN 0 ELSE Cardinality(Objects(e.p, e.root))]
           N == Cardinality(Obj)
<1>1. N \in Nat /\ Rounds = 0 .. N
  BY ObjIs DEF Rounds
<1>2. c \in J
  BY DEF Splayed
<1>3. ASSUME NEW e, NEW G, NEW R, Splayed(e, G, R, p, S, k)
      PROVE  /\ e \in J
             /\ Cardinality(R) \in Nat /\ Cardinality(R) <= N
             /\ m[e] = IF Ended(e, k) THEN 0 ELSE Cardinality(R)
             /\ ~Ended(e, k) => Cardinality(R) # 0
  <2>1. Tree(e.p, e.root, R) /\ e.p \in Fields(Places) /\ e \in J
    BY <1>3 DEF Splayed, Searches
  <2>2. Objects(e.p, e.root) = R
    BY <2>1, InOrderIs DEF IsFields
  <2>3. R \in SUBSET Obj /\ IsFiniteSet(R) /\ (e.root = Nil <=> R = {}) /\ Cardinality(R) \in Nat
    BY <2>1, TreeRoot
  <2>4. Cardinality(R) <= N
    BY <2>3, ObjIs, FS_Subset
  <2>5. ~Ended(e, k) => Cardinality(R) # 0
    BY <2>3, FS_EmptySet DEF Ended
  <2> QED BY <2>1, <2>2, <2>3, <2>4, <2>5
<1>4. ASSUME NEW e \in J
      PROVE  /\ Descended(e, k) \in J
             /\ m[e] \in Nat /\ (m[Descended(e, k)] < m[e] \/ m[Descended(e, k)] = 0)
             /\ m[e] = 0 => Ended(e, k)
  <2>1. PICK G, R : Splayed(e, G, R, p, S, k)
    OBVIOUS
  <2>2. /\ Cardinality(R) \in Nat /\ m[e] = IF Ended(e, k) THEN 0 ELSE Cardinality(R)
        /\ ~Ended(e, k) => Cardinality(R) # 0
    BY <1>3, <2>1
  <2>3. CASE Ended(e, k)
    <3>1. Descended(e, k) = e
      BY <2>3 DEF Ended, Descended
    <3> QED BY <2>2, <2>3, <3>1
  <2>4. CASE ~Ended(e, k)
    <3>1. e.root # Nil /\ Key[e.root] # k
      BY <2>4 DEF Ended
    <3>2. PICK G2, R2 : Splayed(Descended(e, k), G2, R2, p, S, k) /\ Cardinality(R2) < Cardinality(R)
      BY <2>1, <3>1, DescendIs
    <3>3. PICK e2 : e2 = Descended(e, k)
      OBVIOUS
    <3>4. e2 \in J /\ Cardinality(R2) \in Nat /\ m[e2] = IF Ended(e2, k) THEN 0 ELSE Cardinality(R2)
      BY <1>3, <3>2, <3>3
    <3> HIDE DEF m, J
    <3> QED BY <2>2, <2>4, <3>2, <3>3, <3>4
  <2> QED BY <2>3, <2>4
<1>5. m[c] <= N
  <2>1. /\ Cardinality(T) \in Nat /\ Cardinality(T) <= N
        /\ m[c] = IF Ended(c, k) THEN 0 ELSE Cardinality(T)
    BY <1>3
  <2> HIDE DEF m, N
  <2> QED BY <1>1, <2>1
<1>6. \A e \in J : step[e] = Descended(e, k)
  OBVIOUS
<1> HIDE DEF J, step, m, N
<1>7. Keeps(step, J, m) /\ \A e \in J : step[e] \in J
  BY <1>4, <1>6 DEF Keeps
<1> DEFINE Made(f) == f = [n \in Rounds |-> IF n = 0 THEN c ELSE Descended(f[n - 1], k)]
<1>8. \E f : Made(f)
  <2>1. PICK f : Follows(f, N, c, step) /\ Within(f, N, J)
    BY <1>1, <1>2, <1>7, LoopIs
  <2>2. \A n \in 0 .. N : f[n] \in J /\ f[n] = IF n = 0 THEN c ELSE step[f[n - 1]]
    BY <2>1 DEF Follows, Within
  <2>3. \A n \in 0 .. N : f[n] = IF n = 0 THEN c ELSE Descended(f[n - 1], k)
    <3> TAKE n \in 0 .. N
    <3>1. n # 0 => n - 1 \in 0 .. N
      BY <1>1
    <3> QED BY <1>6, <2>2, <3>1
  <2>4. f = [n \in 0 .. N |-> f[n]]
    BY <2>1 DEF Follows
  <2> QED BY <1>1, <2>3, <2>4
<1>9. PICK f : f = CHOOSE g : Made(g)
  OBVIOUS
<1>10. Made(f)
  BY <1>8, <1>9
<1>11. Runs(f, N, c, step, J)
  <2>1. \A n \in 0 .. N : f[n] = IF n = 0 THEN c ELSE Descended(f[n - 1], k)
    BY <1>1, <1>10
  <2>2. 0 \in 0 .. N /\ \A n \in 1 .. N : n \in 0 .. N /\ n # 0
    BY <1>1
  <2> QED BY <1>6, <2>1, <2>2 DEF Runs
<1>12. f[N] \in J /\ m[f[N]] = 0
  BY <1>1, <1>2, <1>5, <1>7, <1>11, LoopEnds
<1>13. Splay(c, k) = f[N]
  BY <1>9 DEF Splay, N
<1>14. Ended(f[N], k)
  BY <1>4, <1>12
<1> QED BY <1>12, <1>13, <1>14 DEF J

\* What lies on the side s of k.
Aside(S, s, k) == {x \in S : KeyPast(s, x, k)}

\* The two trees that a search leaves below Link, and the object it found.
Parted(q, p, S, k, found) ==
  /\ q \in Fields(Places) /\ Outside(p, q, Places, S \cup {Link})
  /\ \A s \in Side : Tree(q, q[Link][Opp(s)], Aside(S, s, k))
  /\ IF found = Nil THEN \A x \in S : Key[x] # k ELSE found \in S /\ Key[found] = k

\* y is on the inner way through the tree B of larger objects.
Inner(q, y, B) ==
  \E B1, B2 : /\ Hung(q, "right", B1, y) /\ Tree(q, q[y].left, B2)
              /\ AllBeyond(B2, B1, "right") /\ B1 \cap B2 = {} /\ B = B1 \cup B2

LEMMA ClosedIs ==
  ASSUME NEW k \in Int, NEW c, NEW H, NEW T, NEW p, NEW S, Splayed(c, H, T, p, S, k), Ended(c, k),
         NEW q, q = Closed(c)
  PROVE  /\ Parted(q, p, S, k, c.root)
         /\ Inner(q, c.end["right"], Aside(S, "right", k))
<1>1. PICK P, E, r : P = c.p /\ E = c.end /\ r = c.root
  OBVIOUS
<1>2. /\ P \in Fields(Places) /\ E \in [Side -> Places] /\ H \in [Side -> SUBSET Obj]
      /\ Tree(P, r, T) /\ r \in Obj \cup {Nil}
  BY <1>1 DEF Splayed, Searches
<1>3. ASSUME NEW s \in Side
      PROVE  /\ Hung(P, s, H[s], E[s]) /\ H[s] \cap T = {} /\ H[s] \cap H[Opp(s)] = {}
             /\ S = H[s] \cup T \cup H[Opp(s)] /\ AllBeyond(T, H[s], s)
             /\ \A x \in H[s] : KeyPast(s, x, k)
             /\ E[s] \in H[s] \cup {Link} /\ E[s] \in Places /\ (E[s] # E[Opp(s)] \/ E[s] = Link)
  <2>1. E[s] \in H[s] \cup {Link} /\ (E[s] # E[Opp(s)] \/ E[s] = Link)
    BY <1>1, SplayedEnds
  <2> QED BY <1>1, <1>2, <2>1 DEF Splayed
<1>4. PICK K : K = [s \in Side |-> IF r = Nil THEN {} ELSE Part(T, r, s)]
  OBVIOUS
<1>5. PICK below : below = IF r = Nil THEN Blank ELSE P[r]
  OBVIOUS
<1>6. ASSUME NEW s \in Side
      PROVE  /\ Tree(P, below[s], K[s]) /\ K[s] \subseteq T /\ below[s] \in Obj \cup {Nil}
             /\ \A x \in K[s] : KeyPast(s, x, k)
  <2>1. CASE r = Nil
    <3>1. below[s] = Nil /\ K[s] = {}
      BY <1>4, <1>5, <2>1 DEF Side, Blank
    <3> QED BY <3>1, TreeEmpty
  <2>2. CASE r # Nil
    <3>1. below[s] = P[r][s] /\ K[s] = Part(T, r, s) /\ Key[r] = k /\ r \in Obj /\ T \in SUBSET Obj
      BY <1>1, <1>2, <1>4, <1>5, <2>2, TreeRoot DEF Ended
    <3>2. Tree(P, below[s], K[s])
      BY <1>2, <2>2, <3>1, TreeOpen
    <3>3. \A x \in K[s] : x \in T /\ KeyPast(s, x, k)
      BY <3>1 DEF Part, Past, KeyPast
    <3> QED BY <3>2, <3>3, TreeRoot
  <2> QED BY <2>1, <2>2
<1>7. K["left"] \cap K["right"] = {}
  <2>1. T \in SUBSET Obj
    BY <1>2, TreeRoot
  <2>2. \A x \in T : ~(KeyPast("left", x, k) /\ KeyPast("right", x, k))
    BY <2>1, KeyPastIs, SideIs DEF Opp
  <2> QED BY <1>6, <2>2, SideIs
<1>8. /\ IF r = Nil THEN T = {} ELSE r \in T /\ Key[r] = k /\ T = K["left"] \cup {r} \cup K["right"]
      /\ r # Nil => Part(T, r, "left") = K["left"]
  <2>1. r = Nil => T = {}
    BY <1>2, TreeRoot
  <2>2. ASSUME r # Nil PROVE r \in T /\ Key[r] = k /\ T = K["left"] \cup {r} \cup K["right"]
    <3>1. r \in T /\ Key[r] = k
      BY <1>1, <1>2, <2>2, TreeRoot DEF Ended
    <3>2. T = Part(T, r, "left") \cup {r} \cup Part(T, r, "right")
      BY <1>2, <2>2, TreeParts, SideIs DEF Opp
    <3> QED BY <1>4, <2>2, <3>1, <3>2, SideIs
  <2> QED BY <1>4, <2>1, <2>2, SideIs
<1>9. PICK eL, eR, q1 : eL = E["left"] /\ eR = E["right"] /\ q1 = [P EXCEPT ![eL]["right"] = below["left"]]
  OBVIOUS
<1>10. q = [q1 EXCEPT ![eR]["left"] = below["right"]]
  BY <1>1, <1>5, <1>9 DEF Closed
<1>23. PICK bL, bR, lt, rt : bL = below["left"] /\ bR = below["right"] /\ lt = "left" /\ rt = "right"
  OBVIOUS
<1>24. /\ eL \in Places /\ eR \in Places /\ lt \in Side /\ rt \in Side /\ Opp(lt) = rt /\ Opp(rt) = lt
       /\ bL \in Obj \cup {Nil} /\ bR \in Obj \cup {Nil} /\ lt # rt
  <2>1. lt \in Side /\ rt \in Side /\ Opp(lt) = rt /\ Opp(rt) = lt /\ lt # rt
    BY <1>23, SideIs DEF Opp
  <2> QED BY <1>3, <1>6, <1>9, <1>23, <2>1
<1>11. Puts(P, q1, Places, eL, rt, bL)
  <2>1. q1 = [P EXCEPT ![eL][rt] = bL]
    BY <1>9, <1>23
  <2> QED BY <1>2, <1>24, <2>1, PutIs
<1>12. Puts(q1, q, Places, eR, lt, bR)
  <2>1. q = [q1 EXCEPT ![eR][lt] = bR]
    BY <1>10, <1>23
  <2>2. q1 \in Fields(Places)
    BY <1>11 DEF Puts
  <2>3. Puts(q1, [q1 EXCEPT ![eR][lt] = bR], Places, eR, lt, bR)
    BY <1>24, <2>2, PutIs
  <2> QED BY <2>1, <2>3
<1>13. q \in Fields(Places) /\ \A y \in Places \ {eL, eR} : q[y] = P[y]
  BY <1>11, <1>12 DEF Puts
<1>14. ASSUME NEW s \in Side
       PROVE  q[E[s]][Opp(s)] = below[s]
  <2>1. q[eR][lt] = bR
    BY <1>12 DEF Puts
  <2>2. q[eL][rt] = bL
    <3>1. CASE eL = eR
      BY <1>11, <1>12, <1>24, <3>1 DEF Puts
    <3>2. CASE eL # eR
      BY <1>11, <1>12, <1>24, <3>2 DEF Puts
    <3> QED BY <3>1, <3>2
  <2>3. s = lt \/ s = rt
    BY <1>23 DEF Side
  <2> QED BY <1>9, <1>23, <1>24, <2>1, <2>2, <2>3
<1>15. ASSUME NEW s \in Side, NEW y \in Places, y # E[s] PROVE q[y][Opp(s)] = P[y][Opp(s)]
  <2>1. \A z \in Places : z # eL => q[z][rt] = P[z][rt]
    BY <1>11, <1>12, <1>24 DEF Puts
  <2>2. \A z \in Places : z # eR => q[z][lt] = P[z][lt]
    BY <1>11, <1>12, <1>24 DEF Puts
  <2>3. s = lt \/ s = rt
    BY <1>23 DEF Side
  <2> QED BY <1>9, <1>15, <1>23, <1>24, <2>1, <2>2, <2>3
<1>16. ASSUME NEW s \in Side
       PROVE  /\ Hung(q, s, H[s], E[s]) /\ Tree(q, q[E[s]][Opp(s)], K[s])
              /\ AllBeyond(K[s], H[s], s) /\ H[s] \cap K[s] = {}
              /\ Tree(q, q[Link][Opp(s)], H[s] \cup K[s])
  <2>1. PICK u : u = Opp(s)
    OBVIOUS
  <2>2. u \in Side /\ Opp(u) = s /\ \A v \in Side : v = s \/ v = u
    BY <2>1, SideIs
  <2>3. /\ H[s] \in SUBSET Obj /\ E[u] \in H[u] \cup {Link} /\ H[u] \cap H[s] = {} /\ T \in SUBSET Obj
        /\ E[u] \notin H[s] /\ H[s] \cap T = {} /\ H[u] \cap T = {} /\ Link \notin Obj
    BY <1>2, <1>3, <2>2, TreeRoot, ObjIs
  <2>4. AlikeBut(P, q, H[s], E[s], s)
    <3>1. \A x \in H[s] : x \in Places /\ q[x][s] = P[x][s]
      BY <1>15, <2>2, <2>3 DEF Places
    <3>2. \A x \in H[s] : x # E[s] => q[x][u] = P[x][u]
      BY <1>15, <2>1, <2>3 DEF Places
    <3>3. E[s] # Link => q[Link][u] = P[Link][u]
      BY <1>15, <2>1, <2>3 DEF Places
    <3> QED BY <2>1, <3>1, <3>2, <3>3 DEF AlikeBut
  <2>5. Hung(q, s, H[s], E[s])
    BY <1>3, <2>4, HungFrame
  <2>6. Tree(q, below[s], K[s])
    <3>1. \A x \in K[s] : x \in Places \ {eL, eR}
      BY <1>3, <1>6, <1>9, <2>3, SideIs DEF Places, Opp
    <3>2. \A x \in K[s], v \in Side : q[x][v] = P[x][v]
      BY <1>13, <3>1
    <3> QED BY <1>6, <3>2, TreeFrame
  <2>7. Tree(q, q[E[s]][Opp(s)], K[s])
    BY <1>14, <2>6
  <2>8. AllBeyond(K[s], H[s], s) /\ H[s] \cap K[s] = {}
    BY <1>3, <1>6 DEF AllBeyond
  <2>9. Tree(q, q[Link][Opp(s)], H[s] \cup K[s])
    BY <1>2, <1>3, <1>13, <2>4, <2>7, <2>8, HungIs
  <2> QED BY <2>5, <2>7, <2>8, <2>9
<1>17. ASSUME NEW s \in Side PROVE Aside(S, s, k) = H[s] \cup K[s]
  <2>1. S = H[s] \cup T \cup H[Opp(s)] /\ S \in SUBSET Obj /\ T \in SUBSET Obj /\ Opp(s) \in Side
    BY <1>2, <1>3, SideIs, TreeRoot
  <2>2. \A x \in H[s] \cup K[s] : KeyPast(s, x, k)
    BY <1>3, <1>6
  <2>3. \A x \in H[Opp(s)] \cup K[Opp(s)] : ~KeyPast(s, x, k)
    <3>1. \A x \in H[Opp(s)] \cup K[Opp(s)] : KeyPast(Opp(s), x, k) /\ x \in Obj
      BY <1>3, <1>6, <2>1, SideIs
    <3> QED BY <3>1, KeyPastIs
  <2>4. r # Nil => ~KeyPast(s, r, k)
    BY <1>2, <1>8, KeyPastIs
  <2>5. r = Nil => T = {}
    BY <1>8
  <2>6. r # Nil => T = K[s] \cup {r} \cup K[Opp(s)]
    BY <1>8 DEF Side, Opp
  <2>7. K[s] \subseteq T
    BY <1>6
  <2> QED BY <2>1, <2>2, <2>3, <2>4, <2>5, <2>6, <2>7 DEF Aside
<1>18. Outside(p, q, Places, S \cup {Link})
  <2>1. Outside(p, P, Places, S \cup {Link})
    BY <1>1 DEF Splayed
  <2>2. eL \in S \cup {Link} /\ eR \in S \cup {Link}
    BY <1>3, <1>9, SideIs
  <2> QED BY <1>13, <2>1, <2>2 DEF Outside
<1>19. IF r = Nil THEN \A x \in S : Key[x] # k ELSE r \in S /\ Key[r] = k
  <2>1. S = H["left"] \cup T \cup H["right"] /\ H["left"] \subseteq Obj /\ H["right"] \subseteq Obj
    BY <1>2, <1>3, SideIs DEF Opp
  <2>2. \A x \in H["left"] \cup H["right"] : Key[x] # k
    BY <1>3, <2>1, KeyPastIs, SideIs
  <2> QED BY <1>8, <2>1, <2>2
<1>20. Parted(q, p, S, k, c.root)
  <2>1. \A s \in Side : Tree(q, q[Link][Opp(s)], Aside(S, s, k))
    BY <1>16, <1>17
  <2> QED BY <1>1, <1>13, <1>18, <1>19, <2>1 DEF Parted
<1>21. Inner(q, c.end["right"], Aside(S, "right", k))
  <2>1. PICK s : s = "right"
    OBVIOUS
  <2>2. s \in Side /\ Opp(s) = "left"
    BY <2>1, SideIs DEF Opp
  <2> QED BY <1>1, <1>16, <1>17, <2>1, <2>2 DEF Inner
<1> QED BY <1>20, <1>21

-----------------------------------------------------------------------------
(* The ends of the operations.                                              *)

LEMMA OutermostIs ==
  ASSUME NEW q \in Fields(Places), NEW J \in SUBSET Places, NEW y \in J,
         \A z \in J : \E B : Tree(q, q[z].left, B),
         \A z \in J : q[z].left # Nil => q[z].left \in J
  PROVE  Outermost(q, y, "left") \in J /\ q[Outermost(q, y, "left")].left = Nil
<1> DEFINE Outer(z) == IF q[z].left = Nil THEN z ELSE q[z].left
           step == [z \in J |-> Outer(z)]
           m == [z \in J |-> Cardinality(Objects(q, q[z].left))]
           N == Cardinality(Obj)
<1>1. N \in Nat /\ Rounds = 0 .. N
  BY ObjIs DEF Rounds
<1>2. ASSUME NEW z, NEW B, Tree(q, q[z].left, B)
      PROVE  /\ Objects(q, q[z].left) = B
             /\ Cardinality(B) \in Nat /\ Cardinality(B) <= N
             /\ Cardinality(B) = 0 <=> q[z].left = Nil
  <2>1. B \in SUBSET Obj /\ IsFiniteSet(B) /\ (q[z].left = Nil <=> B = {}) /\ Cardinality(B) \in Nat
    BY <1>2, TreeRoot
  <2> QED BY <1>2, <2>1, InOrderIs, ObjIs, FS_Subset, FS_EmptySet DEF IsFields
<1>3. ASSUME NEW z \in J
      PROVE  /\ Outer(z) \in J /\ m[z] \in Nat /\ m[z] <= N
             /\ m[Outer(z)] < m[z] \/ m[Outer(z)] = 0
             /\ m[z] = 0 => q[z].left = Nil
  <2>1. PICK B : Tree(q, q[z].left, B)
    OBVIOUS
  <2>2. m[z] = Cardinality(B) /\ Cardinality(B) \in Nat /\ Cardinality(B) <= N /\ (Cardinality(B) = 0 <=> q[z].left = Nil)
    BY <1>2, <2>1
  <2>3. CASE q[z].left = Nil
    <3>1. Outer(z) = z
      BY <2>3
    <3> QED BY <2>2, <2>3, <3>1
  <2>4. CASE q[z].left # Nil
    <3>1. PICK x : x = q[z].left
      OBVIOUS
    <3>2. Outer(z) = x /\ x \in J
      BY <2>4, <3>1
    <3>3. /\ Tree(q, q[x].left, Part(B, x, "left"))
          /\ Cardinality(Part(B, x, "left")) < Cardinality(B)
      BY <2>1, <2>4, <3>1, TreeParts, SideIs
    <3>4. m[x] = Cardinality(Part(B, x, "left"))
      BY <1>2, <3>2, <3>3
    <3> QED BY <2>2, <2>4, <3>2, <3>3, <3>4
  <2> QED BY <2>3, <2>4
<1>4. \A z \in J : step[z] = Outer(z)
  OBVIOUS
<1>5. m[y] <= N
  BY <1>3
<1> DEFINE Made(f) == f = [n \in Rounds |-> IF n = 0 THEN y
                             ELSE LET z == f[n - 1] IN IF q[z]["left"] = Nil THEN z ELSE q[z]["left"]]
           Goes(f) == f = [n \in Rounds |-> IF n = 0 THEN y ELSE Outer(f[n - 1])]
<1>6. \A f : Made(f) <=> Goes(f)
  OBVIOUS
<1> HIDE DEF step, m, N, Outer
<1>7. Keeps(step, J, m) /\ \A z \in J : step[z] \in J
  BY <1>3, <1>4 DEF Keeps
<1>8. \E f : Goes(f)
  <2>1. PICK f : Follows(f, N, y, step) /\ Within(f, N, J)
    BY <1>1, <1>7, LoopIs
  <2>2. \A n \in 0 .. N : f[n] \in J /\ f[n] = IF n = 0 THEN y ELSE step[f[n - 1]]
    BY <2>1 DEF Follows, Within
  <2>3. \A n \in 0 .. N : f[n] = IF n = 0 THEN y ELSE Outer(f[n - 1])
    <3> TAKE n \in 0 .. N
    <3>1. n # 0 => n - 1 \in 0 .. N
      BY <1>1
    <3> QED BY <1>4, <2>2, <3>1
  <2>4. f = [n \in 0 .. N |-> f[n]]
    BY <2>1 DEF Follows
  <2> QED BY <1>1, <2>3, <2>4
<1>9. PICK f : f = CHOOSE g : Made(g)
  OBVIOUS
<1>10. Goes(f)
  <2> HIDE DEF Made, Goes
  <2> QED BY <1>6, <1>8, <1>9
<1>11. Runs(f, N, y, step, J)
  <2>1. \A n \in 0 .. N : f[n] = IF n = 0 THEN y ELSE Outer(f[n - 1])
    BY <1>1, <1>10
  <2>2. 0 \in 0 .. N /\ \A n \in 1 .. N : n \in 0 .. N /\ n # 0
    BY <1>1
  <2> QED BY <1>4, <2>1, <2>2 DEF Runs
<1>12. f[N] \in J /\ m[f[N]] = 0
  BY <1>1, <1>5, <1>7, <1>11, LoopEnds
<1>13. Outermost(q, y, "left") = f[N]
  BY <1>9 DEF Outermost, N
<1>14. q[f[N]].left = Nil
  BY <1>3, <1>12
<1> QED BY <1>12, <1>13, <1>14

LEMMA InnerStep ==
  ASSUME NEW q \in Fields(Places), NEW z, NEW B, Inner(q, z, B), q[z].left # Nil, z \in Places
  PROVE  Inner(q, q[z].left, B) /\ q[z].left \in Places
<1>1. PICK B1, B2 : /\ Hung(q, "right", B1, z) /\ Tree(q, q[z].left, B2)
                    /\ AllBeyond(B2, B1, "right") /\ B1 \cap B2 = {} /\ B = B1 \cup B2
  BY DEF Inner
<1>2. PICK x, s, u : x = q[z].left /\ s = "right" /\ u = "left"
  OBVIOUS
<1>3. s \in Side /\ u \in Side /\ Opp(s) = u /\ Opp(u) = s
  BY <1>2, SideIs DEF Opp
<1>4. PICK A, L : A = Part(B2, x, s) /\ L = Part(B2, x, u)
  OBVIOUS
<1>5. /\ B2 = A \cup {x} \cup L /\ x \in Obj /\ x \notin A /\ x \notin L /\ A \cap L = {}
      /\ AllPast(s, A, x) /\ AllPast(u, L, x)
      /\ Tree(q, q[x][s], A) /\ Tree(q, q[x][u], L)
      /\ A \in SUBSET Obj /\ L \in SUBSET Obj
  <2>1. Tree(q, x, B2) /\ x # Nil
    BY <1>1, <1>2
  <2> QED BY <1>3, <1>4, <2>1, TreeParts
<1>6. B1 \in SUBSET Obj
  BY <1>1 DEF Hung
<1>7. Hung(q, s, B1 \cup A \cup {x}, x)
  <2>1. Puts(q, q, Places, z, Opp(s), x)
    BY <1>2, <1>3 DEF Puts
  <2>2. x \notin B1 /\ A \cap B1 = {} /\ AllBeyond(A \cup {x}, B1, s)
    BY <1>1, <1>2, <1>5 DEF AllBeyond
  <2>3. Hung(q, s, B1, z)
    BY <1>1, <1>2
  <2> QED BY <1>3, <1>5, <2>1, <2>2, <2>3, HangIs
<1>8. AllBeyond(L, B1 \cup A \cup {x}, s)
  <2>1. \A y \in L : Past(u, y, x)
    BY <1>5 DEF AllPast
  <2>2. ASSUME NEW y \in L, NEW w \in A PROVE Past(u, y, w)
    <3>1. Past(u, y, x) /\ Past(s, w, x) /\ y \in Obj /\ w \in Obj
      BY <1>5 DEF AllPast
    <3>2. Past(u, x, w)
      BY <1>3, <1>5, <3>1, PastIs
    <3> QED BY <1>3, <1>5, <3>1, <3>2, PastIs
  <2>3. \A y \in L, w \in B1 : Past(u, y, w)
    BY <1>1, <1>2, <1>3, <1>5 DEF AllBeyond
  <2> QED BY <1>3, <2>1, <2>2, <2>3 DEF AllBeyond
<1>9. (B1 \cup A \cup {x}) \cap L = {} /\ B = (B1 \cup A \cup {x}) \cup L
  BY <1>1, <1>5
<1>10. Inner(q, x, B)
  <2>1. Tree(q, q[x].left, L)
    BY <1>2, <1>5
  <2> QED BY <1>2, <1>7, <1>8, <1>9, <2>1 DEF Inner
<1> QED BY <1>2, <1>5, <1>10 DEF Places

\* The smaller objects are put below the smallest of the larger ones.
LEMMA JoinIs ==
  ASSUME NEW q \in Fields(Places), NEW y \in Places, NEW A, NEW B, Inner(q, y, B),
         Tree(q, q[Link].right, A), AllBeyond(A, B, "right"), A \cap B = {},
         NEW j, j = [q EXCEPT ![Outermost(q, y, "left")].left = q[Link].right]
  PROVE  j \in Fields(Places) /\ Tree(j, j[Link].left, B \cup A) /\ Outside(q, j, Places, B \cup {Link})
<1>1. PICK J : J = {z \in Places : Inner(q, z, B)}
  OBVIOUS
<1>2. \A z \in J : \E C : Tree(q, q[z].left, C)
  BY <1>1 DEF Inner
<1>3. \A z \in J : q[z].left # Nil => q[z].left \in J
  BY <1>1, InnerStep
<1>4. PICK z : z = Outermost(q, y, "left")
  OBVIOUS
<1>5. z \in J /\ q[z].left = Nil
  <2>1. y \in J /\ J \in SUBSET Places
    BY <1>1
  <2> QED BY <1>2, <1>3, <1>4, <2>1, OutermostIs
<1>6. PICK B1, B2 : Hung(q, "right", B1, z) /\ Tree(q, q[z].left, B2) /\ B = B1 \cup B2
  BY <1>1, <1>5 DEF Inner
<1>7. B2 = {} /\ B1 = B /\ z \in Places
  BY <1>1, <1>5, <1>6, TreeRoot
<1>8. PICK s, u, a : s = "right" /\ u = "left" /\ a = q[Link].right
  OBVIOUS
<1>9. s \in Side /\ u \in Side /\ Opp(s) = u /\ Opp(u) = s /\ s # u
  BY <1>8, SideIs DEF Opp
<1>10. a \in Obj \cup {Nil}
  BY <1>8, TreeRoot
<1>11. Puts(q, j, Places, z, u, a)
  <2>1. j = [q EXCEPT ![z][u] = a]
    BY <1>4, <1>8
  <2>2. Puts(q, [q EXCEPT ![z][u] = a], Places, z, u, a)
    BY <1>7, <1>9, <1>10, PutIs
  <2> QED BY <2>1, <2>2
<1>12. B \in SUBSET Obj /\ z \in B \cup {Link} /\ A \in SUBSET Obj /\ Link \notin Obj /\ z \notin A /\ Hung(q, s, B, z)
  <2>1. Hung(q, s, B, z)
    BY <1>6, <1>7, <1>8
  <2>2. A \in SUBSET Obj
    BY TreeRoot
  <2> QED BY <2>1, <2>2, ObjIs DEF Hung
<1>13. j \in Fields(Places) /\ j[z][u] = a /\ j[z][s] = q[z][s] /\ \A w \in Places : w # z => j[w] = q[w]
  BY <1>9, <1>11 DEF Puts
<1>14. AlikeBut(q, j, B, z, s)
  BY <1>9, <1>12, <1>13 DEF AlikeBut, Places
<1>15. Tree(j, j[z][u], A)
  <2>1. \A w \in A, v \in Side : j[w][v] = q[w][v]
    BY <1>12, <1>13 DEF Places
  <2>2. Tree(q, a, A)
    BY <1>8
  <2> QED BY <1>13, <2>1, <2>2, TreeFrame
<1>16. Tree(j, j[Link][u], B \cup A)
  <2>1. AllBeyond(A, B, s)
    BY <1>8
  <2> QED BY <1>9, <1>12, <1>13, <1>14, <1>15, <2>1, HungIs
<1>17. Outside(q, j, Places, B \cup {Link})
  BY <1>12, <1>13 DEF Outside
<1> QED BY <1>8, <1>13, <1>16, <1>17

Worlds == [ptr : Fields(Obj), here : [Dict -> Obj \cup {Nil}], flat : [Dict -> BOOLEAN]]

\* From w to w2 the tree of d is made from S to S2.
Became(w, w2, d, S, S2) ==
  /\ w2 \in Worlds
  /\ Tree(w2.ptr, w2.here[d], S2)
  /\ \A e \in Dict : e # d => w2.here[e] = w.here[e] /\ w2.flat[e] = w.flat[e]
  /\ ~w2.flat[d]
  /\ Outside(w.ptr, w2.ptr, Obj, S \cup S2)

\* The fields q of a search in the tree S of w.
From(w, q, S) == q \in Fields(Places) /\ \A x \in Obj \ S : q[x] = w.ptr[x]

Settled(w, d, q, r) == [w EXCEPT !.ptr = Restrict(q, Obj), !.here[d] = r, !.flat[d] = FALSE]

LEMMA SettledIs ==
  ASSUME NEW w \in Worlds, NEW d \in Dict, NEW S, NEW q, From(w, q, S), NEW r, NEW S2, Tree(q, r, S2)
  PROVE  Became(w, Settled(w, d, q, r), d, S, S2)
<1>1. PICK f : f = Restrict(q, Obj)
  OBVIOUS
<1>2. q \in Fields(Places) /\ Obj \subseteq Places
  BY DEF From, Places
<1>3. f \in Fields(Obj) /\ \A x \in Obj : f[x] = q[x]
  BY <1>1, <1>2 DEF Restrict, Fields
<1>4. r \in Obj \cup {Nil} /\ S2 \in SUBSET Obj
  BY TreeRoot
<1>5. PICK h, g : h = [w.here EXCEPT ![d] = r] /\ g = [w.flat EXCEPT ![d] = FALSE]
  OBVIOUS
<1>6. w.here \in [Dict -> Obj \cup {Nil}] /\ w.flat \in [Dict -> BOOLEAN] /\ w = [ptr |-> w.ptr, here |-> w.here, flat |-> w.flat]
  BY DEF Worlds
<1>7. /\ h \in [Dict -> Obj \cup {Nil}] /\ h[d] = r /\ \A e \in Dict : e # d => h[e] = w.here[e]
      /\ g \in [Dict -> BOOLEAN] /\ ~g[d] /\ \A e \in Dict : e # d => g[e] = w.flat[e]
  BY <1>4, <1>5, <1>6
<1>8. PICK w2 : w2 = Settled(w, d, q, r)
  OBVIOUS
<1>9. w2 = [ptr |-> f, here |-> h, flat |-> g]
  BY <1>1, <1>5, <1>6, <1>8 DEF Settled
<1>10. w2 \in Worlds /\ w2.ptr = f /\ w2.here = h /\ w2.flat = g
  BY <1>3, <1>7, <1>9 DEF Worlds
<1>11. Tree(f, r, S2)
  BY <1>3, <1>4, TreeFrame
<1>12. Outside(w.ptr, f, Obj, S \cup S2)
  BY <1>3 DEF Outside, From
<1> QED BY <1>7, <1>8, <1>10, <1>11, <1>12 DEF Became

LEMMA HasRootIs ==
  ASSUME NEW w \in Worlds, NEW d \in Dict, NEW S, NEW q, From(w, q, S), NEW x \in Obj,
         NEW A, Tree(q, q[Link].right, A), AllPast("left", A, x),
         NEW B, Tree(q, q[Link].left, B), AllPast("right", B, x)
  PROVE  Became(w, HasRoot(w, d, q, x), d, S \cup {x}, A \cup {x} \cup B)
<1>1. PICK a, b : a = q[Link].right /\ b = q[Link].left
  OBVIOUS
<1>2. a \in Obj \cup {Nil} /\ b \in Obj \cup {Nil} /\ A \in SUBSET Obj /\ B \in SUBSET Obj
  BY <1>1, TreeRoot
<1>3. PICK j : j = [q EXCEPT ![x] = [left |-> a, right |-> b]]
  OBVIOUS
<1>4. q \in Fields(Places) /\ x \in Places
  BY DEF From, Places
<1>5. j \in Fields(Places) /\ j[x].left = a /\ j[x].right = b /\ \A y \in Places : y # x => j[y] = q[y]
  BY <1>2, <1>3, <1>4 DEF Fields
<1>6. PICK s, u : s = "left" /\ u = "right"
  OBVIOUS
<1>7. s \in Side /\ u \in Side /\ Opp(s) = u
  BY <1>6, SideIs DEF Opp
<1>8. x \notin A /\ x \notin B
  BY <1>2, <1>6, <1>7, PastIs DEF AllPast
<1>9. Tree(j, j[x][s], A) /\ Tree(j, j[x][u], B)
  <2>1. (\A y \in A, v \in Side : j[y][v] = q[y][v]) /\ (\A y \in B, v \in Side : j[y][v] = q[y][v])
    BY <1>2, <1>5, <1>8 DEF Places
  <2> QED BY <1>1, <1>5, <1>6, <2>1, TreeFrame
<1>10. Tree(j, x, A \cup {x} \cup B)
  BY <1>6, <1>7, <1>9, TreeJoin
<1>11. From(w, j, S \cup {x})
  BY <1>5 DEF From, Places
<1>12. HasRoot(w, d, q, x) = Settled(w, d, j, x)
  BY <1>1, <1>3 DEF HasRoot, Settled
<1> QED BY <1>10, <1>11, <1>12, SettledIs

LEMMA NoRootIs ==
  ASSUME NEW w \in Worlds, NEW d \in Dict, NEW S, NEW q, From(w, q, S), NEW y \in Places,
         NEW A, NEW B, Inner(q, y, B), Tree(q, q[Link].right, A), AllBeyond(A, B, "right"), A \cap B = {},
         B \subseteq S
  PROVE  Became(w, NoRoot(w, d, q, y), d, S, B \cup A)
<1>1. PICK j : j = [q EXCEPT ![Outermost(q, y, "left")].left = q[Link].right]
  OBVIOUS
<1>2. q \in Fields(Places)
  BY DEF From
<1>3. j \in Fields(Places) /\ Tree(j, j[Link].left, B \cup A) /\ Outside(q, j, Places, B \cup {Link})
  BY <1>1, <1>2, JoinIs
<1>4. From(w, j, S)
  BY <1>3, ObjIs DEF From, Outside, Places
<1>5. NoRoot(w, d, q, y) = Settled(w, d, j, j[Link].left)
  BY <1>1 DEF NoRoot, Settled
<1> QED BY <1>3, <1>4, <1>5, SettledIs

LEMMA CutIs ==
  ASSUME NEW w \in Worlds, NEW d \in Dict, NEW S, Tree(w.ptr, w.here[d], S), NEW k
  PROVE  LET c == Cut(w, d)
         IN  /\ Splayed(c, [s \in Side |-> {}], S, c.p, S, k)
             /\ \A x \in Obj : c.p[x] = w.ptr[x]
             /\ c.root = w.here[d]
<1>1. PICK p : p = [x \in Obj \cup {Link} |-> IF x = Link THEN Blank ELSE w.ptr[x]]
  OBVIOUS
<1>2. PICK E : E = [s \in Side |-> Link]
  OBVIOUS
<1>3. PICK c : c = Cut(w, d)
  OBVIOUS
<1>4. c = [p |-> p, root |-> w.here[d], end |-> E]
  BY <1>1, <1>2, <1>3 DEF Cut
<1>5. w.ptr \in Fields(Obj) /\ w.here[d] \in Obj \cup {Nil}
  BY DEF Worlds
<1>6. p \in Fields(Places) /\ \A x \in Obj : p[x] = w.ptr[x]
  BY <1>1, <1>5, ObjIs DEF Fields, Places, Blank
<1>7. c \in Searches /\ c.p = p /\ c.root = w.here[d] /\ c.end = E
  BY <1>2, <1>4, <1>5, <1>6 DEF Searches, Places
<1>8. S \in SUBSET Obj
  BY TreeRoot
<1>9. Tree(p, w.here[d], S)
  BY <1>6, <1>8, TreeFrame
<1>10. PICK H : H = [s \in Side |-> {}]
  OBVIOUS
<1>11. H \in [Side -> SUBSET Obj] /\ \A s \in Side : H[s] = {} /\ H[Opp(s)] = {} /\ E[s] = Link
  BY <1>2, <1>10, SideIs
<1>12. \A s \in Side : Hung(p, s, H[s], E[s])
  BY <1>11, HungEmpty
<1>13. Splayed(c, H, S, p, S, k)
  BY <1>7, <1>9, <1>11, <1>12 DEF Splayed, Outside, AllBeyond
<1> QED BY <1>3, <1>6, <1>7, <1>10, <1>13

\* The two halves of a tree S of w after a search for k, which ended at y.
Halves(w, c, q, S, k) ==
  /\ From(w, q, S) /\ c.end["right"] \in Places /\ c.root \in Obj \cup {Nil}
  /\ Tree(q, q[Link].right, Aside(S, "left", k)) /\ Tree(q, q[Link].left, Aside(S, "right", k))
  /\ Inner(q, c.end["right"], Aside(S, "right", k))
  /\ IF c.root = Nil THEN \A x \in S : Key[x] # k ELSE c.root \in S /\ Key[c.root] = k

LEMMA SplayToIs ==
  ASSUME NEW w \in Worlds, NEW d \in Dict, NEW S, Tree(w.ptr, w.here[d], S), NEW o \in Obj,
         NEW always \in BOOLEAN, NEW c, c = SplayTo(w, d, o, always)
  PROVE  Halves(w, c, Closed(c), S, Key[o])
<1>1. PICK k, b, H : k = Key[o] /\ b = Cut(w, d) /\ H = [s \in Side |-> {}]
  OBVIOUS
<1>2. k \in Int
  BY <1>1, ObjIs
<1>3. Splayed(b, H, S, b.p, S, k) /\ (\A x \in Obj : b.p[x] = w.ptr[x]) /\ b.root = w.here[d]
  BY <1>1, CutIs
<1>4. \E G, R : Splayed(c, G, R, b.p, S, k) /\ Ended(c, k)
  <2>1. CASE always \/ w.here[d] # o
    <3>1. c = Splay(b, k)
      BY <1>1, <2>1 DEF SplayTo
    <3> QED BY <1>2, <1>3, <3>1, SplayIs
  <2>2. CASE ~(always \/ w.here[d] # o)
    <3>1. c = b /\ c.root = o
      BY <1>1, <1>3, <2>2 DEF SplayTo
    <3>2. Ended(c, k)
      BY <1>1, <3>1 DEF Ended
    <3> QED BY <1>3, <3>1, <3>2
  <2> QED BY <2>1, <2>2
<1>5. PICK G, R : Splayed(c, G, R, b.p, S, k) /\ Ended(c, k)
  BY <1>4
<1>6. PICK q : q = Closed(c)
  OBVIOUS
<1>7. Parted(q, b.p, S, k, c.root) /\ Inner(q, c.end["right"], Aside(S, "right", k))
  BY <1>2, <1>5, <1>6, ClosedIs
<1>8. From(w, q, S)
  BY <1>3, <1>7, ObjIs DEF From, Parted, Outside, Places
<1>9. c.end["right"] \in Places /\ c.root \in Obj \cup {Nil}
  BY <1>5, SideIs DEF Splayed, Searches
<1>10. Tree(q, q[Link].right, Aside(S, "left", k)) /\ Tree(q, q[Link].left, Aside(S, "right", k))
  BY <1>7, SideIs DEF Parted, Opp
<1> QED BY <1>1, <1>6, <1>7, <1>8, <1>9, <1>10 DEF Halves, Parted

-----------------------------------------------------------------------------
(* The operations on one dictionary.                                        *)

Met(S, o) == {x \in S : Key[x] = Key[o]}

\* got is the one object of Q, or Nil if there is none.
Gives(got, Q) == got \in Obj \cup {Nil} /\ {got} \ {Nil} = Q

LEMMA AsidesAre ==
  ASSUME NEW S \in SUBSET Obj, Distinct(S), NEW k \in Int
  PROVE  /\ \A s \in Side : /\ Aside(S, s, k) \in SUBSET S
                            /\ Aside(S, s, k) \cap Aside(S, Opp(s), k) = {}
                            /\ AllBeyond(Aside(S, s, k), Aside(S, Opp(s), k), Opp(s))
                            /\ \A x \in Obj : Key[x] = k => AllPast(s, Aside(S, s, k), x) /\ x \notin Aside(S, s, k)
                            /\ S = Aside(S, s, k) \cup {x \in S : Key[x] = k} \cup Aside(S, Opp(s), k)
<1>1. ASSUME NEW s \in Side
      PROVE  /\ Aside(S, s, k) \in SUBSET S
             /\ Aside(S, s, k) \cap Aside(S, Opp(s), k) = {}
             /\ AllBeyond(Aside(S, s, k), Aside(S, Opp(s), k), Opp(s))
             /\ \A x \in Obj : Key[x] = k => AllPast(s, Aside(S, s, k), x) /\ x \notin Aside(S, s, k)
             /\ S = Aside(S, s, k) \cup {x \in S : Key[x] = k} \cup Aside(S, Opp(s), k)
  <2>1. Opp(s) \in Side /\ Opp(Opp(s)) = s
    BY SideIs
  <2>2. Aside(S, s, k) \in SUBSET S /\ Aside(S, s, k) \cap Aside(S, Opp(s), k) = {}
    BY KeyPastIs DEF Aside
  <2>3. AllBeyond(Aside(S, s, k), Aside(S, Opp(s), k), Opp(s))
    BY <2>1, KeyPastIs DEF Aside, AllBeyond
  <2>4. \A x \in Obj : Key[x] = k => AllPast(s, Aside(S, s, k), x) /\ x \notin Aside(S, s, k)
    BY <2>1, KeyPastIs DEF Aside, AllPast
  <2>5. \A x \in S : Key[x] = k \/ KeyPast(s, x, k) \/ KeyPast(Opp(s), x, k)
    BY ObjIs DEF KeyPast, Opp, Side
  <2> QED BY <2>2, <2>3, <2>4, <2>5 DEF Aside
<1> QED BY <1>1

\* What a search for o found.
LEMMA FoundIs ==
  ASSUME NEW S \in SUBSET Obj, Distinct(S), NEW o \in Obj, NEW r \in Obj \cup {Nil},
         IF r = Nil THEN \A x \in S : Key[x] # Key[o] ELSE r \in S /\ Key[r] = Key[o]
  PROVE  Gives(r, Met(S, o))
<1>1. CASE r = Nil
  <2>1. Met(S, o) = {}
    BY <1>1 DEF Met
  <2> QED BY <1>1, <2>1 DEF Gives
<1>2. CASE r # Nil
  <2>1. Met(S, o) = {r}
    BY <1>2 DEF Met, Distinct
  <2> QED BY <1>2, <2>1 DEF Gives
<1> QED BY <1>1, <1>2

\* The two ways in which a search ends.
LEMMA HalvesRoot ==
  ASSUME NEW w \in Worlds, NEW d \in Dict, NEW S \in SUBSET Obj, Distinct(S), NEW o \in Obj,
         NEW c, NEW q, Halves(w, c, q, S, Key[o]), NEW x \in Obj, Key[x] = Key[o]
  PROVE  Became(w, HasRoot(w, d, q, x), d, S \cup {x}, (S \ Met(S, o)) \cup {x})
<1>1. PICK k, A, B : k = Key[o] /\ A = Aside(S, "left", k) /\ B = Aside(S, "right", k)
  OBVIOUS
<1>2. k \in Int
  BY <1>1, ObjIs
<1>3. AllPast("left", A, x) /\ AllPast("right", B, x)
  BY <1>1, <1>2, AsidesAre, SideIs
<1>4. From(w, q, S) /\ Tree(q, q[Link].right, A) /\ Tree(q, q[Link].left, B)
  BY <1>1 DEF Halves
<1>5. Became(w, HasRoot(w, d, q, x), d, S \cup {x}, A \cup {x} \cup B)
  BY <1>3, <1>4, HasRootIs
<1>6. S \ Met(S, o) = A \cup B
  <2>1. S = A \cup {y \in S : Key[y] = k} \cup B
    BY <1>1, <1>2, AsidesAre, SideIs DEF Opp
  <2>2. \A y \in A \cup B : Key[y] # k
    BY <1>1, <1>2, KeyPastIs, SideIs DEF Aside
  <2> QED BY <1>1, <2>1, <2>2 DEF Met
<1>7. A \cup {x} \cup B = (S \ Met(S, o)) \cup {x}
  BY <1>6
<1> QED BY <1>5, <1>7

LEMMA HalvesNone ==
  ASSUME NEW w \in Worlds, NEW d \in Dict, NEW S \in SUBSET Obj, Distinct(S), NEW o \in Obj,
         NEW c, NEW q, Halves(w, c, q, S, Key[o])
  PROVE  Became(w, NoRoot(w, d, q, c.end["right"]), d, S, S \ Met(S, o))
<1>1. PICK k, A, B : k = Key[o] /\ A = Aside(S, "left", k) /\ B = Aside(S, "right", k)
  OBVIOUS
<1>2. k \in Int
  BY <1>1, ObjIs
<1>3. AllBeyond(A, B, "right") /\ A \cap B = {} /\ B \subseteq S
  BY <1>1, <1>2, AsidesAre, SideIs DEF Opp
<1>4. PICK y : y = c.end["right"]
  OBVIOUS
<1>5. From(w, q, S) /\ Tree(q, q[Link].right, A) /\ y \in Places /\ Inner(q, y, B)
  BY <1>1, <1>4 DEF Halves
<1>6. Became(w, NoRoot(w, d, q, y), d, S, B \cup A)
  BY <1>3, <1>5, NoRootIs
<1>7. S \ Met(S, o) = B \cup A
  <2>1. S = A \cup {x \in S : Key[x] = k} \cup B
    BY <1>1, <1>2, AsidesAre, SideIs DEF Opp
  <2>2. \A x \in A \cup B : Key[x] # k
    BY <1>1, <1>2, KeyPastIs, SideIs DEF Aside
  <2> QED BY <1>1, <2>1, <2>2 DEF Met
<1> QED BY <1>4, <1>6, <1>7

LEMMA TreeSearchIs ==
  ASSUME NEW w \in Worlds, NEW d \in Dict, NEW S, Tree(w.ptr, w.here[d], S), NEW o \in Obj
  PROVE  /\ Became(w, TreeSearch(w, d, o).w, d, S, S)
         /\ Gives(TreeSearch(w, d, o).got, Met(S, o))
<1>1. PICK c, q : c = SplayTo(w, d, o, TRUE) /\ q = Closed(c)
  OBVIOUS
<1>2. Halves(w, c, q, S, Key[o])
  BY <1>1, SplayToIs
<1>3. S \in SUBSET Obj /\ Distinct(S)
  BY TreeRoot
<1>4. c.root \in Obj \cup {Nil} /\ Gives(c.root, Met(S, o))
  BY <1>2, <1>3, FoundIs DEF Halves
<1>5. CASE c.root = Nil
  <2>1. TreeSearch(w, d, o) = Answer(NoRoot(w, d, q, c.end["right"]), Nil)
    BY <1>1, <1>5 DEF TreeSearch, Searched
  <2>2. S \ Met(S, o) = S
    BY <1>4, <1>5 DEF Gives
  <2>3. Became(w, NoRoot(w, d, q, c.end["right"]), d, S, S \ Met(S, o))
    BY <1>2, <1>3, HalvesNone
  <2> QED BY <1>4, <1>5, <2>1, <2>2, <2>3 DEF Answer
<1>6. CASE c.root # Nil
  <2>1. TreeSearch(w, d, o) = Answer(HasRoot(w, d, q, c.root), c.root)
    BY <1>1, <1>6 DEF TreeSearch, Searched
  <2>2. Met(S, o) = {c.root} /\ c.root \in S /\ Key[c.root] = Key[o] /\ c.root \in Obj
    BY <1>2, <1>4, <1>6 DEF Gives, Halves
  <2>3. S \cup {c.root} = S /\ (S \ Met(S, o)) \cup {c.root} = S
    BY <2>2
  <2>4. Became(w, HasRoot(w, d, q, c.root), d, S \cup {c.root}, (S \ Met(S, o)) \cup {c.root})
    BY <1>2, <1>3, <2>2, HalvesRoot
  <2> QED BY <1>4, <2>1, <2>3, <2>4 DEF Answer
<1> QED BY <1>5, <1>6

\* What an insertion of o in S answers.
Kept(S, o) == IF Met(S, o) = {} THEN {o} ELSE Met(S, o)

LEMMA TreeInsertIs ==
  ASSUME NEW w \in Worlds, NEW d \in Dict, NEW S, Tree(w.ptr, w.here[d], S), NEW o \in Obj
  PROVE  /\ Became(w, TreeInsert(w, d, o).w, d, S, S \cup Kept(S, o))
         /\ Gives(TreeInsert(w, d, o).got, Kept(S, o))
<1>1. PICK c, q : c = SplayTo(w, d, o, TRUE) /\ q = Closed(c)
  OBVIOUS
<1>2. Halves(w, c, q, S, Key[o])
  BY <1>1, SplayToIs
<1>3. S \in SUBSET Obj /\ Distinct(S)
  BY TreeRoot
<1>4. c.root \in Obj \cup {Nil} /\ Gives(c.root, Met(S, o))
  BY <1>2, <1>3, FoundIs DEF Halves
<1>5. PICK x : x = IF c.root = Nil THEN o ELSE c.root
  OBVIOUS
<1>6. TreeInsert(w, d, o) = Answer(HasRoot(w, d, q, x), x)
  BY <1>1, <1>5 DEF TreeInsert, Inserted
<1>7. x \in Obj /\ Key[x] = Key[o] /\ Kept(S, o) = {x}
  <2>1. CASE c.root = Nil
    BY <1>4, <1>5, <2>1 DEF Gives, Kept
  <2>2. CASE c.root # Nil
    BY <1>2, <1>4, <1>5, <2>2 DEF Gives, Kept, Halves
  <2> QED BY <2>1, <2>2
<1>8. Became(w, HasRoot(w, d, q, x), d, S \cup {x}, (S \ Met(S, o)) \cup {x})
  BY <1>2, <1>3, <1>7, HalvesRoot
<1>9. (S \ Met(S, o)) \cup {x} = S \cup Kept(S, o)
  <2>1. Met(S, o) \subseteq {x}
    BY <1>7 DEF Kept
  <2> QED BY <1>7, <2>1
<1>10. Became(w, HasRoot(w, d, q, x), d, S, S \cup Kept(S, o))
  <2>1. S \cup {x} = S \cup Kept(S, o) /\ S \cup (S \cup Kept(S, o)) = S \cup {x} /\ (S \cup {x}) \cup (S \cup Kept(S, o)) = S \cup {x}
    BY <1>7
  <2> QED BY <1>8, <1>9, <2>1 DEF Became
<1>11. Gives(x, Kept(S, o))
  BY <1>7, ObjIs DEF Gives
<1> QED BY <1>6, <1>10, <1>11 DEF Answer

LEMMA TreeDeleteIs ==
  ASSUME NEW w \in Worlds, NEW d \in Dict, NEW S, Tree(w.ptr, w.here[d], S), NEW o \in Obj
  PROVE  /\ Became(w, TreeDelete(w, d, o).w, d, S, S \ Met(S, o))
         /\ Gives(TreeDelete(w, d, o).got, Met(S, o))
         /\ \A x \in Met(S, o) : TreeDelete(w, d, o).w.ptr[x] = Blank
<1>1. PICK c, q : c = SplayTo(w, d, o, FALSE) /\ q = Closed(c)
  OBVIOUS
<1>2. Halves(w, c, q, S, Key[o])
  BY <1>1, SplayToIs
<1>3. S \in SUBSET Obj /\ Distinct(S)
  BY TreeRoot
<1>4. c.root \in Obj \cup {Nil} /\ Gives(c.root, Met(S, o))
  BY <1>2, <1>3, FoundIs DEF Halves
<1>5. PICK cut : cut = NoRoot(w, d, q, c.end["right"])
  OBVIOUS
<1>6. Became(w, cut, d, S, S \ Met(S, o))
  BY <1>2, <1>3, <1>5, HalvesNone
<1>7. TreeDelete(w, d, o) = Answer(IF c.root = Nil THEN cut ELSE [cut EXCEPT !.ptr[c.root] = Blank], c.root)
  BY <1>1, <1>5 DEF TreeDelete, Deleted
<1>8. CASE c.root = Nil
  <2>1. Met(S, o) = {}
    BY <1>4, <1>8 DEF Gives
  <2> QED BY <1>4, <1>6, <1>7, <1>8, <2>1 DEF Answer
<1>9. CASE c.root # Nil
  <2>1. PICK x : x = c.root
    OBVIOUS
  <2>2. Met(S, o) = {x} /\ x \in S /\ x \in Obj
    BY <1>2, <1>4, <1>9, <2>1 DEF Gives, Halves
  <2>3. PICK w2, f : w2 = [cut EXCEPT !.ptr[x] = Blank] /\ f = [cut.ptr EXCEPT ![x] = Blank]
    OBVIOUS
  <2>4. cut \in Worlds /\ cut.ptr \in Fields(Obj)
    BY <1>6 DEF Became, Worlds
  <2>5. w2 \in Worlds /\ w2.ptr = f /\ w2.here = cut.here /\ w2.flat = cut.flat
    BY <2>2, <2>3, <2>4 DEF Worlds, Fields, Blank
  <2>6. f[x] = Blank /\ \A y \in Obj : y # x => f[y] = cut.ptr[y]
    BY <2>2, <2>3, <2>4 DEF Fields
  <2>7. Tree(f, cut.here[d], S \ Met(S, o))
    <3>1. \A y \in S \ Met(S, o) : f[y] = cut.ptr[y]
      BY <1>3, <2>2, <2>6
    <3>2. Tree(cut.ptr, cut.here[d], S \ Met(S, o))
      BY <1>6 DEF Became
    <3> QED BY <3>1, <3>2, TreeFrame
  <2>8. Outside(w.ptr, f, Obj, S \cup (S \ Met(S, o)))
    BY <1>6, <2>2, <2>6 DEF Became, Outside
  <2>9. Became(w, w2, d, S, S \ Met(S, o))
    BY <1>6, <2>5, <2>7, <2>8 DEF Became
  <2>10. TreeDelete(w, d, o) = Answer(w2, x)
    BY <1>7, <1>9, <2>1, <2>3
  <2> QED BY <1>4, <2>1, <2>2, <2>5, <2>6, <2>9, <2>10 DEF Answer
<1> QED BY <1>8, <1>9

\* x is the object of Q with all others on its side s, or Nil if there is none.
Heads(x, Q, s) ==
  /\ x \in Obj \cup {Nil}
  /\ IF x = Nil THEN Q = {} ELSE x \in Q /\ \A y \in Q : y = x \/ Past(s, y, x)

LEMMA FirstIs ==
  ASSUME NEW S \in SUBSET Obj, Distinct(S), NEW s \in Side, NEW x \in S, Part(S, x, Opp(s)) = {}
  PROVE  /\ Heads(x, S, s)
         /\ S = {x} \cup Part(S, x, s) /\ x \notin Part(S, x, s) /\ AllPast(s, Part(S, x, s), x)
<1>1. \A y \in S : y = x \/ Past(s, y, x)
  BY PastIs DEF Distinct, Part
<1>2. Heads(x, S, s)
  BY <1>1, ObjIs DEF Heads
<1>3. ~Past(s, x, x)
  BY PastIs
<1> QED BY <1>1, <1>2, <1>3 DEF Part, AllPast

LEMMA TreeStartIs ==
  ASSUME NEW w \in Worlds, NEW d \in Dict, NEW S, Tree(w.ptr, w.here[d], S), NEW s \in Side
  PROVE  /\ Became(w, TreeStart(w, d, s).w, d, S, S)
         /\ Heads(TreeStart(w, d, s).got, S, s)
<1>1. S \in SUBSET Obj /\ Distinct(S)
  BY TreeRoot
<1>2. w.ptr \in Fields(Obj) /\ w = [ptr |-> w.ptr, here |-> w.here, flat |-> w.flat]
      /\ w.here \in [Dict -> Obj \cup {Nil}] /\ w.flat \in [Dict -> BOOLEAN]
  BY DEF Worlds
<1>3. PICK g : g = [w.flat EXCEPT ![d] = FALSE]
  OBVIOUS
<1>4. g \in [Dict -> BOOLEAN] /\ ~g[d] /\ \A e \in Dict : e # d => g[e] = w.flat[e]
  BY <1>2, <1>3
<1>5. CASE w.here[d] = Nil
  <2>1. PICK w2 : w2 = [w EXCEPT !.flat[d] = FALSE]
    OBVIOUS
  <2>2. w2 = [ptr |-> w.ptr, here |-> w.here, flat |-> g]
    BY <1>2, <1>3, <2>1
  <2>3. w2 \in Worlds /\ w2.ptr = w.ptr /\ w2.here = w.here /\ w2.flat = g
    BY <1>2, <1>4, <2>2 DEF Worlds
  <2>4. Became(w, w2, d, S, S)
    BY <1>4, <2>3 DEF Became, Outside
  <2>5. S = {}
    BY <1>5, TreeRoot
  <2>6. Heads(Nil, S, s)
    BY <2>5 DEF Heads
  <2>7. TreeStart(w, d, s) = Answer(w2, Nil)
    BY <1>5, <2>1 DEF TreeStart
  <2> QED BY <2>4, <2>6, <2>7 DEF Answer
<1>6. CASE w.here[d] # Nil
  <2>1. PICK e, u : e = Extreme(w.ptr, w.here[d], Opp(s)) /\ u = Opp(s)
    OBVIOUS
  <2>2. u \in Side /\ Opp(s) = u /\ Obj \in Domains
    BY <2>1, SideIs DEF Domains
  <2>3. Turns(e, w.ptr, Obj, S, u)
    BY <1>2, <1>6, <2>1, <2>2, ExtremeIs
  <2>4. PICK w2, h : w2 = [w EXCEPT !.ptr = e.p, !.here[d] = e.root, !.flat[d] = FALSE] /\ h = [w.here EXCEPT ![d] = e.root]
    OBVIOUS
  <2>5. /\ e.p \in Fields(Obj) /\ e.root \in Obj /\ e.root \in S /\ Tree(e.p, e.root, S)
        /\ Outside(w.ptr, e.p, Obj, S) /\ Part(S, e.root, u) = {}
    BY <2>3 DEF Turns
  <2>6. h \in [Dict -> Obj \cup {Nil}] /\ h[d] = e.root /\ \A b \in Dict : b # d => h[b] = w.here[b]
    BY <1>2, <2>4, <2>5
  <2>7. w2 = [ptr |-> e.p, here |-> h, flat |-> g]
    BY <1>2, <1>3, <2>4
  <2>8. w2 \in Worlds /\ w2.ptr = e.p /\ w2.here = h /\ w2.flat = g
    BY <1>4, <2>5, <2>6, <2>7 DEF Worlds
  <2>9. Outside(w.ptr, e.p, Obj, S \cup S)
    BY <2>5 DEF Outside
  <2>10. Became(w, w2, d, S, S)
    BY <1>4, <2>5, <2>6, <2>8, <2>9 DEF Became
  <2>11. TreeStart(w, d, s) = Answer(w2, e.root)
    BY <1>6, <2>1, <2>4 DEF TreeStart
  <2>12. Heads(e.root, S, s)
    BY <1>1, <2>2, <2>5, FirstIs
  <2> QED BY <2>10, <2>11, <2>12 DEF Answer
<1> QED BY <1>5, <1>6

\* Every pointer of a tree leads to a tree of some of its objects.
LEMMA TreeInside ==
  ASSUME NEW p, NEW r, NEW S, Tree(p, r, S), NEW x \in S, NEW s \in Side
  PROVE  \E C \in SUBSET S : Tree(p, p[x][s], C)
<1>1. S \in SUBSET Obj /\ Distinct(S)
  BY TreeRoot
<1>2. PICK sub : Certifies(p, r, S, sub)
  BY DEF Tree
<1>3. PICK C, h : C = Part(sub[x], x, s) /\ h = p[x][s]
  OBVIOUS
<1>4. C \in SUBSET S /\ Headed(sub, h, C)
  BY <1>2, <1>3 DEF Certifies, Part
<1>5. Distinct(C) /\ C \in SUBSET Obj
  BY <1>1, <1>4 DEF Distinct
<1>6. \A y \in C : sub[y] \subseteq C
  <2>1. CASE C = {}
    BY <2>1
  <2>2. CASE C # {}
    <3>1. h \in C /\ sub[h] = C
      BY <1>4, <2>2 DEF Headed
    <3> QED BY <1>2, <1>4, <3>1 DEF Certifies
  <2> QED BY <2>1, <2>2
<1>7. Certifies(p, h, C, sub)
  BY <1>2, <1>4, <1>6 DEF Certifies
<1> QED BY <1>3, <1>4, <1>5, <1>7 DEF Tree

\* The two trees below Link, when the objects of S beyond o on the side s are those of B.
Sided(w, q, S, s, A, B) ==
  /\ From(w, q, S) /\ S = A \cup B /\ A \cap B = {} /\ AllBeyond(A, B, s)
  /\ Tree(q, q[Link][s], A) /\ Tree(q, q[Link][Opp(s)], B)

\* The same, of a search that ended at y on the side of the larger objects.
Ready(w, q, y, S, s, B) ==
  \E A : /\ Sided(w, q, S, s, A, B)
         /\ y \in A \cup B \cup {Link} /\ (s = "right" /\ B = {} => y = Link)

\* There is none beyond o.
LEMMA SidedNone ==
  ASSUME NEW w \in Worlds, NEW d \in Dict, NEW S, NEW q, NEW s \in Side, NEW A, Sided(w, q, S, s, A, {}),
         NEW y \in Places, s = "right" => y = Link, y \in A \cup {Link}
  PROVE  Became(w, NoRoot(w, d, q, y), d, S, S)
<1>1. S = A /\ From(w, q, S) /\ q \in Fields(Places) /\ Tree(q, q[Link][s], S) /\ Tree(q, q[Link][Opp(s)], {}) /\ S \in SUBSET Obj
  <2>1. S = A
    BY DEF Sided
  <2> QED BY <2>1, TreeRoot DEF Sided, From
<1>2. CASE s = "right"
  <2>1. Tree(q, q[Link].right, S) /\ Tree(q, q[Link].left, {})
    BY <1>1, <1>2 DEF Opp
  <2>2. Inner(q, y, {})
    <3>1. Hung(q, "right", {}, Link)
      BY HungEmpty, SideIs
    <3>2. AllBeyond({}, {}, "right") /\ {} \cap {} = {} /\ {} = {} \cup {}
      BY DEF AllBeyond
    <3> QED BY <1>2, <2>1, <3>1, <3>2 DEF Inner
  <2>3. AllBeyond(S, {}, "right") /\ S \cap {} = {} /\ {} \subseteq S /\ {} \cup S = S
    BY DEF AllBeyond
  <2>4. Became(w, NoRoot(w, d, q, y), d, S, {} \cup S)
    BY <1>1, <2>1, <2>2, <2>3, NoRootIs
  <2> QED BY <2>3, <2>4
<1>3. CASE s = "left"
  <2>1. Tree(q, q[Link].left, S) /\ q[Link].right = Nil
    BY <1>1, <1>3, TreeRoot DEF Opp
  <2>2. PICK J : J = S \cup {Link}
    OBVIOUS
  <2>3. J \in SUBSET Places /\ y \in J
    BY <1>1, <2>2 DEF Places
  <2>4. \A z \in J : \E C : Tree(q, q[z].left, C)
    BY <2>1, <2>2, TreeInside, SideIs
  <2>5. \A z \in J : q[z].left # Nil => q[z].left \in J
    <3>1. q[Link].left # Nil => q[Link].left \in S
      BY <2>1, TreeRoot
    <3>2. \A z \in S : q[z].left \in S \cup {Nil}
      BY <2>1, TreePointers, SideIs
    <3> QED BY <2>2, <3>1, <3>2
  <2>6. PICK z : z = Outermost(q, y, "left")
    OBVIOUS
  <2>7. z \in J /\ q[z].left = Nil
    BY <1>1, <2>3, <2>4, <2>5, <2>6, OutermostIs
  <2>8. PICK j : j = [q EXCEPT ![z].left = Nil]
    OBVIOUS
  <2>9. j = q
    <3>1. Puts(q, j, Places, z, "left", Nil)
      <4>1. PICK u, v : u = "left" /\ v = Nil
        OBVIOUS
      <4>2. u \in Side /\ v \in Obj \cup {Nil} /\ z \in Places
        BY <2>3, <2>7, <4>1, SideIs
      <4>3. Puts(q, [q EXCEPT ![z][u] = v], Places, z, u, v)
        BY <1>1, <4>2, PutIs
      <4> QED BY <2>8, <4>1, <4>3
    <3>2. j \in Fields(Places) /\ j[z].left = Nil /\ j[z].right = q[z].right /\ \A x \in Places : x # z => j[x] = q[x]
      BY <3>1 DEF Puts, Opp
    <3>3. \A x \in Places, v \in Side : q[x][v] = j[x][v]
      BY <2>7, <3>2 DEF Side
    <3> QED BY <1>1, <3>2, <3>3, FieldsSame
  <2>10. NoRoot(w, d, q, y) = Settled(w, d, q, q[Link].left)
    BY <2>1, <2>6, <2>8, <2>9 DEF NoRoot, Settled
  <2> QED BY <1>1, <2>1, <2>10, SettledIs
<1> QED BY <1>2, <1>3 DEF Side

\* The nearest of those beyond o becomes the root.
LEMMA SidedSome ==
  ASSUME NEW w \in Worlds, NEW d \in Dict, NEW S, NEW q, NEW s \in Side, NEW A, NEW B, Sided(w, q, S, s, A, B),
         B # {}, NEW e, e = Extreme(q, q[Link][Opp(s)], Opp(s)),
         NEW j, j = [e.p EXCEPT ![Link][Opp(s)] = e.p[e.root][s]]
  PROVE  Became(w, HasRoot(w, d, j, e.root), d, S, S) /\ Heads(e.root, B, s)
<1>1. PICK u, r, x : u = Opp(s) /\ r = q[Link][u] /\ x = e.root
  OBVIOUS
<1>2. u \in Side /\ Opp(u) = s /\ Opp(s) = u /\ u # s /\ \A v \in Side : v = s \/ v = u
  BY <1>1, SideIs
<1>3. /\ q \in Fields(Places) /\ Tree(q, q[Link][s], A) /\ Tree(q, r, B) /\ r # Nil
      /\ A \in SUBSET Obj /\ B \in SUBSET Obj /\ Distinct(B) /\ Places \in Domains
      /\ S = A \cup B /\ A \cap B = {} /\ AllBeyond(A, B, s) /\ From(w, q, S)
  <2>1. Tree(q, q[Link][s], A) /\ Tree(q, r, B)
    BY <1>1 DEF Sided
  <2> QED BY <2>1, TreeRoot DEF Sided, From, Domains
<1>4. Turns(e, q, Places, B, u)
  BY <1>1, <1>2, <1>3, ExtremeIs
<1>5. /\ e.p \in Fields(Places) /\ x \in Obj /\ x \in B /\ Tree(e.p, x, B) /\ Outside(q, e.p, Places, B)
      /\ Part(B, x, u) = {}
  BY <1>1, <1>4 DEF Turns
<1>6. PICK C : C = Part(B, x, s)
  OBVIOUS
<1>7. Heads(x, B, s) /\ B = {x} \cup C /\ x \notin C /\ AllPast(s, C, x)
  BY <1>2, <1>3, <1>5, <1>6, FirstIs
<1>8. PICK v : v = e.p[x][s]
  OBVIOUS
<1>9. Tree(e.p, v, C)
  BY <1>5, <1>6, <1>8, TreeOpen, ObjIs
<1>10. Puts(e.p, j, Places, Link, u, v)
  <2>1. v \in Obj \cup {Nil} /\ Link \in Places
    BY <1>9, TreeRoot DEF Places
  <2>2. Puts(e.p, [e.p EXCEPT ![Link][u] = v], Places, Link, u, v)
    BY <1>2, <1>5, <2>1, PutIs
  <2> QED BY <1>1, <1>8, <2>2
<1>11. /\ j \in Fields(Places) /\ j[Link][u] = v /\ j[Link][s] = e.p[Link][s]
       /\ \A y \in Obj : j[y] = e.p[y]
  BY <1>2, <1>10, ObjIs DEF Puts, Places
<1>12. e.p[Link] = q[Link] /\ \A y \in A : e.p[y] = q[y]
  BY <1>3, <1>5, ObjIs DEF Outside, Places
<1>13. Tree(j, j[Link][s], A)
  <2>1. j[Link][s] = q[Link][s]
    BY <1>11, <1>12
  <2>2. \A y \in A, t \in Side : j[y][t] = q[y][t]
    BY <1>3, <1>11, <1>12
  <2>3. PICK t : t = q[Link][s]
    OBVIOUS
  <2>4. Tree(q, t, A)
    BY <1>3, <2>3
  <2>5. Tree(j, t, A)
    BY ONLY <2>2, <2>4, TreeFrame
  <2> QED BY <2>1, <2>3, <2>5
<1>14. Tree(j, j[Link][u], C)
  <2>1. C \in SUBSET Obj
    BY <1>3, <1>7
  <2>2. \A y \in C, t \in Side : j[y][t] = e.p[y][t]
    BY <1>11, <2>1
  <2>3. PICK f : f = e.p
    OBVIOUS
  <2>4. Tree(f, v, C) /\ \A y \in C, t \in Side : j[y][t] = f[y][t]
    BY <1>9, <2>2, <2>3
  <2>5. Tree(j, v, C)
    BY ONLY <2>4, TreeFrame
  <2> QED BY <1>11, <2>5
<1>15. From(w, j, S)
  BY <1>3, <1>5, <1>11 DEF From, Outside, Places
<1>16. AllPast(u, A, x)
  BY <1>1, <1>3, <1>5 DEF AllPast, AllBeyond
<1>17. PICK L, R : L = (IF s = "left" THEN C ELSE A) /\ R = (IF s = "left" THEN A ELSE C)
  OBVIOUS
<1>18. /\ Tree(j, j[Link].right, L) /\ AllPast("left", L, x)
       /\ Tree(j, j[Link].left, R) /\ AllPast("right", R, x)
  <2>1. CASE s = "left"
    BY <1>1, <1>7, <1>13, <1>14, <1>16, <1>17, <2>1 DEF Opp
  <2>2. CASE s = "right"
    BY <1>1, <1>7, <1>13, <1>14, <1>16, <1>17, <2>2 DEF Opp
  <2> QED BY <2>1, <2>2 DEF Side
<1>19. Became(w, HasRoot(w, d, j, x), d, S \cup {x}, L \cup {x} \cup R)
  BY <1>5, <1>15, <1>18, HasRootIs
<1>20. S \cup {x} = S /\ L \cup {x} \cup R = S
  BY <1>3, <1>5, <1>7, <1>17
<1> QED BY <1>1, <1>7, <1>19, <1>20

Filed(q, x, s) ==
  IF x = Nil THEN q
  ELSE [q EXCEPT ![x] = Blank, ![x][Opp(s)] = q[Link][s], ![Link][s] = x]

\* A search parts S at o; the object found goes to the side that is not walked to.
LEMMA HalvesSided ==
  ASSUME NEW w \in Worlds, NEW S \in SUBSET Obj, Distinct(S), NEW o \in Obj, NEW s \in Side,
         NEW c, NEW q, Halves(w, c, q, S, Key[o]),
         NEW p, p = Filed(q, c.root, s)
  PROVE  Ready(w, p, c.end["right"], S, s, Aside(S, s, Key[o]))
<1> USE DEF Filed
<1>1. PICK k, u, x, y : k = Key[o] /\ u = Opp(s) /\ x = c.root /\ y = c.end["right"]
  OBVIOUS
<1>2. u \in Side /\ Opp(u) = s /\ Opp(s) = u /\ u # s /\ (\A v \in Side : v = s \/ v = u) /\ k \in Int
  BY <1>1, SideIs, ObjIs
<1>3. PICK A, B : A = Aside(S, u, k) /\ B = Aside(S, s, k)
  OBVIOUS
<1>4. /\ A \in SUBSET S /\ B \in SUBSET S /\ A \cap B = {} /\ AllBeyond(A, B, s)
      /\ S = A \cup {z \in S : Key[z] = k} \cup B
      /\ \A z \in Obj : Key[z] = k => AllPast(u, A, z) /\ AllPast(s, B, z) /\ z \notin A /\ z \notin B
  BY <1>2, <1>3, AsidesAre
<1>5. /\ From(w, q, S) /\ q \in Fields(Places)
      /\ Tree(q, q[Link][s], A) /\ Tree(q, q[Link][u], B)
      /\ IF x = Nil THEN \A z \in S : Key[z] # k ELSE x \in S /\ Key[x] = k
  <2>1. Tree(q, q[Link].right, Aside(S, "left", k)) /\ Tree(q, q[Link].left, Aside(S, "right", k))
    BY <1>1 DEF Halves
  <2>2. Tree(q, q[Link][s], A) /\ Tree(q, q[Link][u], B)
    BY <1>1, <1>3, <2>1 DEF Opp, Side
  <2> QED BY <1>1, <2>2 DEF Halves, From
<1>6. /\ y \in Aside(S, "right", k) \cup {Link}
      /\ Aside(S, "right", k) = {} => y = Link
  <2>1. Inner(q, y, Aside(S, "right", k))
    BY <1>1 DEF Halves
  <2> QED BY <2>1 DEF Inner, Hung
<1>7. y \in A \cup B \cup {Link} /\ (s = "right" /\ B = {} => y = Link)
  <2>1. s = "right" \/ u = "right"
    BY <1>1 DEF Side, Opp
  <2> QED BY <1>3, <1>6, <2>1
<1>8. CASE x = Nil
  <2>1. {z \in S : Key[z] = k} = {} /\ p = q
    BY <1>1, <1>5, <1>8
  <2>2. Sided(w, p, S, s, A, B)
    BY <1>2, <1>4, <1>5, <2>1 DEF Sided
  <2> QED BY <1>1, <1>3, <1>7, <2>2 DEF Ready
<1>9. CASE x # Nil
  <2>1. {z \in S : Key[z] = k} = {x} /\ x \in S /\ Key[x] = k /\ x \in Obj
    BY <1>5, <1>9 DEF Distinct
  <2>2. PICK a : a = q[Link][s]
    OBVIOUS
  <2>3. a \in Obj \cup {Nil} /\ x \in Places /\ Link \in Places /\ x # Link
    BY <1>5, <2>1, <2>2, TreeRoot, ObjIs DEF Places
  <2>4. PICK p1 : p1 = [q EXCEPT ![x] = Blank]
    OBVIOUS
  <2>5. p1 \in Fields(Places) /\ p1[x] = Blank /\ \A z \in Places : z # x => p1[z] = q[z]
    BY <1>5, <2>3, <2>4 DEF Fields, Blank
  <2>6. PICK p2 : p2 = [p1 EXCEPT ![x][u] = a]
    OBVIOUS
  <2>7. Puts(p1, p2, Places, x, u, a)
    BY <1>2, <2>3, <2>5, <2>6, PutIs
  <2>8. p = [p2 EXCEPT ![Link][s] = x]
    BY <1>1, <1>9, <2>2, <2>4, <2>6
  <2>9. Puts(p2, p, Places, Link, s, x)
    <3>1. p2 \in Fields(Places) /\ x \in Obj \cup {Nil}
      BY <2>1, <2>7 DEF Puts
    <3>2. Puts(p2, [p2 EXCEPT ![Link][s] = x], Places, Link, s, x)
      BY <2>3, <3>1, PutIs
    <3> QED BY <2>8, <3>2
  <2>10. /\ p \in Fields(Places) /\ p[Link][s] = x /\ p[Link][u] = q[Link][u]
         /\ p[x][u] = a /\ p[x][s] = Nil
         /\ \A z \in Obj : z # x => p[z] = q[z]
    <3>1. p2[x][u] = a /\ p2[x][s] = p1[x][s] /\ \A z \in Places : z # x => p2[z] = p1[z]
      BY <1>2, <2>7 DEF Puts
    <3>2. p \in Fields(Places) /\ p[Link][s] = x /\ p[Link][u] = p2[Link][u] /\ \A z \in Places : z # Link => p[z] = p2[z]
      BY <1>2, <2>9 DEF Puts
    <3>3. p1[x][s] = Nil
      BY <2>5 DEF Blank, Side
    <3>4. p[x] = p2[x] /\ p2[Link] = q[Link]
      BY <2>3, <2>5, <3>1, <3>2
    <3>5. \A z \in Obj : z # x => p[z] = q[z]
      BY <2>5, <3>1, <3>2, ObjIs DEF Places
    <3> QED BY <3>1, <3>2, <3>3, <3>4, <3>5
  <2>11. x \notin A /\ x \notin B /\ AllPast(u, A, x) /\ AllPast(s, B, x) /\ S = (A \cup {x}) \cup B
    BY <1>4, <2>1
  <2>12. Tree(p, p[x][u], A) /\ Tree(p, p[Link][u], B)
    <3>1. \A z \in A \cup B, v \in Side : p[z][v] = q[z][v]
      BY <1>4, <2>10, <2>11
    <3>2. PICK b : b = q[Link][u]
      OBVIOUS
    <3>3. Tree(q, a, A) /\ Tree(q, b, B)
      BY <1>5, <2>2, <3>2
    <3>4. (\A z \in A, v \in Side : p[z][v] = q[z][v]) /\ (\A z \in B, v \in Side : p[z][v] = q[z][v])
      BY <3>1
    <3>5. Tree(p, a, A) /\ Tree(p, b, B)
      BY ONLY <3>3, <3>4, TreeFrame
    <3> QED BY <2>10, <3>2, <3>5
  <2>13. Tree(p, x, A \cup {x} \cup {})
    <3>1. Tree(p, p[x][Opp(u)], {}) /\ AllPast(Opp(u), {}, x)
      BY <1>2, <2>10, TreeEmpty DEF AllPast
    <3> QED BY <1>2, <2>1, <2>11, <2>12, <3>1, TreeJoin
  <2>14. PICK A2 : A2 = A \cup {x}
    OBVIOUS
  <2>15. Tree(p, p[Link][s], A2)
    <3>1. A \cup {x} \cup {} = A2
      BY <2>14
    <3> QED BY <2>10, <2>13, <3>1
  <2>16. AllBeyond(A2, B, s)
    <3>1. \A z \in B : Past(u, x, z)
      BY <1>2, <1>4, <2>1, <2>11, PastIs DEF AllPast
    <3> QED BY <1>1, <1>4, <2>14, <3>1 DEF AllBeyond
  <2>17. From(w, p, S)
    BY <1>5, <2>1, <2>10 DEF From
  <2>18. Sided(w, p, S, s, A2, B)
    BY <1>2, <1>4, <2>11, <2>12, <2>14, <2>15, <2>16, <2>17 DEF Sided
  <2> QED BY <1>1, <1>3, <1>7, <2>14, <2>18 DEF Ready
<1> QED BY <1>8, <1>9

LEMMA TreeMoveIs ==
  ASSUME NEW w \in Worlds, NEW d \in Dict, NEW S, Tree(w.ptr, w.here[d], S), NEW o \in Obj, NEW s \in Side
  PROVE  /\ Became(w, TreeMove(w, d, o, s).w, d, S, S)
         /\ Heads(TreeMove(w, d, o, s).got, Aside(S, s, Key[o]), s)
<1>1. S \in SUBSET Obj /\ Distinct(S)
  BY TreeRoot
<1>2. PICK c, q : c = SplayTo(w, d, o, FALSE) /\ q = Closed(c)
  OBVIOUS
<1>3. Halves(w, c, q, S, Key[o])
  BY <1>2, SplayToIs
<1>4. PICK p : p = Filed(q, c.root, s)
  OBVIOUS
<1>5. PICK y, B : y = c.end["right"] /\ B = Aside(S, s, Key[o])
  OBVIOUS
<1>6. PICK A : Sided(w, p, S, s, A, B) /\ y \in A \cup B \cup {Link} /\ (s = "right" /\ B = {} => y = Link)
  <2>1. Ready(w, p, c.end["right"], S, s, Aside(S, s, Key[o]))
    BY <1>1, <1>3, <1>4, HalvesSided
  <2> QED BY <1>5, <2>1 DEF Ready
<1>7. PICK first, e : first = p[Link][Opp(s)] /\ e = Extreme(p, first, Opp(s))
  OBVIOUS
<1>8. TreeMove(w, d, o, s) =
        IF w.here[d] = Nil THEN Answer([w EXCEPT !.flat[d] = FALSE], Nil)
        ELSE IF first = Nil THEN Answer(NoRoot(w, d, p, y), Nil)
        ELSE Answer(HasRoot(w, d, [e.p EXCEPT ![Link][Opp(s)] = e.p[e.root][s]], e.root), e.root)
  BY <1>2, <1>4, <1>5, <1>7 DEF TreeMove, Moved, Filed
<1>9. first = Nil <=> B = {}
  BY <1>6, <1>7, TreeRoot DEF Sided
<1>10. CASE w.here[d] = Nil
  <2>1. S = {}
    BY <1>10, TreeRoot
  <2>2. B = {}
    BY <1>5, <2>1 DEF Aside
  <2>3. TreeMove(w, d, o, s) = TreeStart(w, d, s)
    BY <1>8, <1>10 DEF TreeStart
  <2>4. Became(w, TreeStart(w, d, s).w, d, S, S) /\ Heads(TreeStart(w, d, s).got, S, s)
    BY TreeStartIs
  <2> QED BY <1>5, <2>1, <2>2, <2>3, <2>4
<1>11. CASE w.here[d] # Nil /\ first = Nil
  <2>1. TreeMove(w, d, o, s) = Answer(NoRoot(w, d, p, y), Nil)
    BY <1>8, <1>11
  <2>2. B = {}
    BY <1>9, <1>11
  <2>3. y \in Places
    BY <1>3, <1>5 DEF Halves
  <2>4. Became(w, NoRoot(w, d, p, y), d, S, S)
    BY <1>6, <2>2, <2>3, SidedNone
  <2>5. Heads(Nil, B, s)
    BY <2>2 DEF Heads
  <2> QED BY <1>5, <2>1, <2>4, <2>5 DEF Answer
<1>12. CASE w.here[d] # Nil /\ first # Nil
  <2>1. PICK j : j = [e.p EXCEPT ![Link][Opp(s)] = e.p[e.root][s]]
    OBVIOUS
  <2>2. TreeMove(w, d, o, s) = Answer(HasRoot(w, d, j, e.root), e.root)
    BY <1>8, <1>12, <2>1
  <2>3. B # {}
    BY <1>9, <1>12
  <2>4. Became(w, HasRoot(w, d, j, e.root), d, S, S) /\ Heads(e.root, B, s)
    BY <1>6, <1>7, <2>1, <2>3, SidedSome
  <2> QED BY <1>5, <2>2, <2>4 DEF Answer
<1> QED BY <1>10, <1>11, <1>12

-----------------------------------------------------------------------------
(* The loops of dtclear and dtflatten.                                      *)

LEMMA FreedIs ==
  ASSUME NEW p \in Fields(Obj), NEW root, NEW S, Tree(p, root, S)
  PROVE  Freed(p, root) = S
<1> DEFINE Frees(t) == LET e == Extreme(t.p, t.root, "left")
                       IN  IF t.root = Nil THEN t
                           ELSE [p |-> e.p, root |-> e.p[e.root].right, freed |-> t.freed \cup {e.root}]
           Holds(t, R) == Tree(t.p, t.root, R) /\ t.freed \cap R = {} /\ S = t.freed \cup R
           J == {t \in [p : Fields(Obj), root : Obj \cup {Nil}, freed : SUBSET Obj] : \E R : Holds(t, R)}
           first == [p |-> p, root |-> root, freed |-> {}]
           step == [t \in J |-> Frees(t)]
           m == [t \in J |-> Cardinality(Objects(t.p, t.root))]
           N == Cardinality(Obj)
<1>1. N \in Nat /\ Rounds = 0 .. N
  BY ObjIs DEF Rounds
<1>2. first \in J
  <2>1. root \in Obj \cup {Nil} /\ Holds(first, S)
    BY TreeRoot
  <2> QED BY <2>1
<1>3. ASSUME NEW t \in J, NEW R, Holds(t, R)
      PROVE  /\ m[t] = Cardinality(R) /\ Cardinality(R) \in Nat /\ Cardinality(R) <= N
             /\ Cardinality(R) = 0 <=> t.root = Nil
             /\ Cardinality(R) = 0 <=> R = {}
  <2>1. t.p \in Fields(Obj) /\ Tree(t.p, t.root, R)
    BY <1>3
  <2>2. Objects(t.p, t.root) = R
    BY <2>1, InOrderIs DEF IsFields
  <2>3. R \in SUBSET Obj /\ IsFiniteSet(R) /\ (t.root = Nil <=> R = {}) /\ Cardinality(R) \in Nat
    BY <2>1, TreeRoot
  <2>4. Cardinality(R) <= N
    BY <2>3, ObjIs, FS_Subset
  <2> QED BY <2>2, <2>3, <2>4, FS_EmptySet
<1>4. ASSUME NEW t \in J
      PROVE  /\ Frees(t) \in J
             /\ m[t] \in Nat /\ m[t] <= N /\ (m[Frees(t)] < m[t] \/ m[Frees(t)] = 0)
             /\ m[t] = 0 => t.freed = S
  <2>1. PICK R : Holds(t, R)
    OBVIOUS
  <2>2. /\ m[t] = Cardinality(R) /\ Cardinality(R) \in Nat /\ Cardinality(R) <= N
        /\ (Cardinality(R) = 0 <=> t.root = Nil) /\ (Cardinality(R) = 0 <=> R = {})
    BY <1>3, <2>1
  <2>3. m[t] = 0 => t.freed = S
    BY <2>1, <2>2
  <2>4. CASE t.root = Nil
    <3>1. Frees(t) = t
      BY <2>4
    <3> QED BY <2>2, <2>3, <2>4, <3>1
  <2>5. CASE t.root # Nil
    <3>1. PICK e, x : e = Extreme(t.p, t.root, "left") /\ x = e.root
      OBVIOUS
    <3>2. PICK t2 : t2 = [p |-> e.p, root |-> e.p[x].right, freed |-> t.freed \cup {x}]
      OBVIOUS
    <3>3. Frees(t) = t2
      BY <2>5, <3>1, <3>2
    <3>4. t.p \in Fields(Obj) /\ Tree(t.p, t.root, R) /\ "left" \in Side /\ Obj \in Domains
      BY <2>1, SideIs DEF Domains
    <3>5. Turns(e, t.p, Obj, R, "left")
      BY <2>5, <3>1, <3>4, ExtremeIs
    <3>6. e.p \in Fields(Obj) /\ x \in Obj /\ x \in R /\ Tree(e.p, x, R) /\ Part(R, x, "left") = {} /\ x # Nil
      BY <3>1, <3>5, ObjIs DEF Turns
    <3>7. PICK C : C = Part(R, x, "right")
      OBVIOUS
    <3>8. R = {x} \cup C /\ x \notin C /\ Tree(e.p, e.p[x].right, C) /\ Cardinality(C) < Cardinality(R)
      BY <3>6, <3>7, TreeParts, SideIs DEF Opp
    <3>9. e.p[x].right \in Obj \cup {Nil}
      BY <3>8, TreeRoot
    <3>10. Holds(t2, C)
      BY <2>1, <3>2, <3>8
    <3>11. t2 \in J
      BY <3>2, <3>6, <3>9, <3>10
    <3>12. m[t2] = Cardinality(C)
      BY <1>3, <3>10, <3>11
    <3> HIDE DEF m, J, Frees
    <3> QED BY <2>2, <2>3, <3>3, <3>8, <3>11, <3>12
  <2> QED BY <2>4, <2>5
<1>5. m[first] <= N
  BY <1>2, <1>4
<1>6. \A t \in J : step[t] = Frees(t)
  OBVIOUS
<1> DEFINE Made(f) == f = [n \in Rounds |->
                             IF n = 0 THEN first
                             ELSE LET t == f[n - 1]
                                      e == Extreme(t.p, t.root, "left")
                                  IN  IF t.root = Nil THEN t
                                      ELSE [p |-> e.p, root |-> e.p[e.root].right, freed |-> t.freed \cup {e.root}]]
           Goes(f) == f = [n \in Rounds |-> IF n = 0 THEN first ELSE Frees(f[n - 1])]
<1> HIDE DEF J, step, m, first, N
<1>7. \A f : Made(f) <=> Goes(f)
  OBVIOUS
<1>8. Freed(p, root) = (CHOOSE f : Made(f))[N].freed
  BY DEF Freed, first, N
<1> HIDE DEF Frees
<1>9. Keeps(step, J, m) /\ \A t \in J : step[t] \in J
  BY <1>4, <1>6 DEF Keeps
<1>10. \E f : Goes(f)
  <2>1. PICK f : Follows(f, N, first, step) /\ Within(f, N, J)
    BY <1>1, <1>2, <1>9, LoopIs
  <2>2. \A n \in 0 .. N : f[n] \in J /\ f[n] = IF n = 0 THEN first ELSE step[f[n - 1]]
    BY <2>1 DEF Follows, Within
  <2>3. \A n \in 0 .. N : f[n] = IF n = 0 THEN first ELSE Frees(f[n - 1])
    <3> TAKE n \in 0 .. N
    <3>1. n # 0 => n - 1 \in 0 .. N
      BY <1>1
    <3> QED BY <1>6, <2>2, <3>1
  <2>4. f = [n \in 0 .. N |-> f[n]]
    BY <2>1 DEF Follows
  <2> QED BY <1>1, <2>3, <2>4
<1>11. PICK f : f = CHOOSE g : Made(g)
  OBVIOUS
<1>12. Goes(f)
  <2> HIDE DEF Made, Goes
  <2> QED BY <1>7, <1>10, <1>11
<1>13. Runs(f, N, first, step, J)
  <2>1. \A n \in 0 .. N : f[n] = IF n = 0 THEN first ELSE Frees(f[n - 1])
    BY <1>1, <1>12
  <2>2. 0 \in 0 .. N /\ \A n \in 1 .. N : n \in 0 .. N /\ n # 0
    BY <1>1
  <2> QED BY <1>6, <2>1, <2>2 DEF Runs
<1>14. f[N] \in J /\ m[f[N]] = 0
  BY <1>1, <1>2, <1>5, <1>9, <1>13, LoopEnds
<1> QED BY <1>4, <1>8, <1>11, <1>14

\* The fields p, and r hung on Link.
Under(p, r) == [x \in Places |-> IF x = Link THEN [left |-> Nil, right |-> r] ELSE p[x]]

LEMMA UnderIs ==
  ASSUME NEW p \in Fields(Obj), NEW r \in Obj \cup {Nil}
  PROVE  /\ Under(p, r) \in Fields(Places) /\ Under(p, r)[Link].right = r
         /\ \A x \in Obj : Under(p, r)[x] = p[x]
BY ObjIs DEF Under, Fields, Places

\* t is a state of the rotations of dtflatten, when L is in line from r on, and R is not.
Strings(t, r, p, S, L, R) ==
  /\ t.p \in Fields(Obj) /\ Outside(p, t.p, Obj, S)
  /\ Hung(Under(t.p, r), "left", L, t.last) /\ t.last \in L /\ Slanted(t.p, L)
  /\ Tree(t.p, t.root, R) /\ t.p[t.last].right = t.root
  /\ AllBeyond(R, L, "left") /\ L \cap R = {} /\ S = L \cup R

Strung(t) ==
  LET e == Extreme(t.p, t.root, "left")
      q == IF e.root # t.root THEN [e.p EXCEPT ![t.last].right = e.root] ELSE e.p
  IN  IF t.root = Nil THEN t
      ELSE [p |-> q, root |-> q[e.root].right, last |-> e.root]

LEMMA StrungIs ==
  ASSUME NEW t, NEW r \in Obj, NEW p, NEW S, NEW L, NEW R, Strings(t, r, p, S, L, R), t.root # Nil
  PROVE  \E L2, R2 : Strings(Strung(t), r, p, S, L2, R2) /\ Cardinality(R2) < Cardinality(R)
<1>1. PICK e, x, y, f : e = Extreme(t.p, t.root, "left") /\ x = e.root /\ y = t.last /\ f = e.p
  OBVIOUS
<1>2. PICK s, u : s = "left" /\ u = "right"
  OBVIOUS
<1>3. s \in Side /\ u \in Side /\ Opp(s) = u /\ Opp(u) = s /\ s # u /\ Obj \in Domains
  BY <1>2, SideIs DEF Opp, Domains
<1>4. /\ t.p \in Fields(Obj) /\ Outside(p, t.p, Obj, S)
      /\ Hung(Under(t.p, r), s, L, y) /\ y \in L /\ Slanted(t.p, L)
      /\ Tree(t.p, t.root, R) /\ t.p[y].right = t.root
      /\ AllBeyond(R, L, s) /\ L \cap R = {} /\ S = L \cup R
  BY <1>1, <1>2 DEF Strings
<1>5. L \in SUBSET Obj /\ R \in SUBSET Obj
  BY <1>4, TreeRoot DEF Hung
<1>6. Turns(e, t.p, Obj, R, s)
  BY <1>1, <1>2, <1>3, <1>4, ExtremeIs
<1>7. /\ f \in Fields(Obj) /\ x \in Obj /\ x \in R /\ Tree(f, x, R) /\ Outside(t.p, f, Obj, R)
      /\ Part(R, x, s) = {} /\ f[x][s] = Nil /\ x # Nil
  BY <1>1, <1>6, ObjIs DEF Turns
<1>8. PICK C, v : C = Part(R, x, u) /\ v = f[x].right
  OBVIOUS
<1>9. R = {x} \cup C /\ x \notin C /\ Tree(f, v, C) /\ Cardinality(C) < Cardinality(R) /\ AllPast(u, C, x) /\ C \in SUBSET Obj
  <2>1. /\ R = Part(R, x, s) \cup {x} \cup Part(R, x, Opp(s)) /\ x \notin Part(R, x, Opp(s))
        /\ AllPast(Opp(s), Part(R, x, Opp(s)), x) /\ Tree(f, f[x][Opp(s)], Part(R, x, Opp(s)))
        /\ Part(R, x, Opp(s)) \in SUBSET Obj /\ Cardinality(Part(R, x, Opp(s))) < Cardinality(R)
    BY <1>3, <1>7, TreeParts
  <2> QED BY <1>2, <1>3, <1>7, <1>8, <2>1
<1>10. y \in Obj /\ y \notin R /\ f[y] = t.p[y] /\ \A z \in L : f[z] = t.p[z]
  BY <1>4, <1>5, <1>7 DEF Outside
<1>11. PICK q : q = IF x # t.root THEN [f EXCEPT ![y].right = x] ELSE f
  OBVIOUS
<1>12. Puts(f, q, Obj, y, u, x)
  <2>1. CASE x # t.root
    <3>1. q = [f EXCEPT ![y][u] = x]
      BY <1>2, <1>11, <2>1
    <3>2. Puts(f, [f EXCEPT ![y][u] = x], Obj, y, u, x)
      BY <1>3, <1>7, <1>10, PutIs
    <3> QED BY <3>1, <3>2
  <2>2. CASE x = t.root
    BY <1>2, <1>4, <1>7, <1>10, <1>11, <2>2 DEF Puts
  <2> QED BY <2>1, <2>2
<1>13. q \in Fields(Obj) /\ q[y].right = x /\ q[y].left = f[y].left /\ \A z \in Obj : z # y => q[z] = f[z]
  BY <1>2, <1>3, <1>12 DEF Puts
<1>14. PICK t2 : t2 = [p |-> q, root |-> v, last |-> x]
  OBVIOUS
<1>15. Strung(t) = t2
  <2>1. q[x].right = v
    BY <1>7, <1>8, <1>10, <1>13
  <2> QED BY <1>1, <1>11, <1>14, <2>1 DEF Strung
<1>16. PICK P, F, Q : P = Under(t.p, r) /\ F = Under(f, r) /\ Q = Under(q, r)
  OBVIOUS
<1>17. /\ P \in Fields(Places) /\ F \in Fields(Places) /\ Q \in Fields(Places)
       /\ P[Link] = F[Link] /\ Q[Link] = F[Link]
       /\ \A z \in Obj : P[z] = t.p[z] /\ F[z] = f[z] /\ Q[z] = q[z]
  <2>1. P[Link] = F[Link] /\ Q[Link] = F[Link]
    BY <1>16 DEF Under, Places
  <2> QED BY <1>4, <1>7, <1>13, <1>16, <2>1, UnderIs
<1>18. Hung(F, s, L, y)
  <2>1. (\A z \in L : F[z] = P[z]) /\ F[Link][Opp(s)] = P[Link][Opp(s)] /\ Hung(P, s, L, y)
    BY <1>4, <1>5, <1>10, <1>16, <1>17
  <2> QED BY <1>3, <2>1, HungOutside
<1>19. Puts(F, Q, Places, y, Opp(s), x)
  BY <1>3, <1>10, <1>12, <1>17 DEF Puts, Places
<1>20. Hung(Q, s, L \cup {} \cup {x}, x)
  <2>1. Tree(F, F[x][s], {}) /\ AllPast(s, {}, x)
    BY <1>7, <1>17, TreeEmpty DEF AllPast
  <2>2. x \notin L /\ {} \cap L = {} /\ AllBeyond({} \cup {x}, L, s)
    BY <1>4, <1>7 DEF AllBeyond
  <2> QED BY <1>3, <1>7, <1>17, <1>18, <1>19, <2>1, <2>2, HangIs
<1>21. PICK L2 : L2 = L \cup {x}
  OBVIOUS
<1>22. Hung(Q, s, L2, x)
  <2>1. L \cup {} \cup {x} = L2
    BY <1>21
  <2> QED BY <1>20, <2>1
<1>23. Slanted(q, L2)
  <2>1. q[x].left = Nil
    BY <1>2, <1>4, <1>7, <1>13
  <2>2. \A z \in L : q[z].left = Nil
    <3>1. \A z \in L : q[z].left = f[z].left
      BY <1>5, <1>13
    <3> QED BY <1>4, <1>10, <3>1 DEF Slanted
  <2> QED BY <1>21, <2>1, <2>2 DEF Slanted
<1>24. Tree(q, v, C)
  <2>1. \A z \in C, w \in Side : q[z][w] = f[z][w]
    BY <1>9, <1>10, <1>13
  <2> QED BY <1>9, <2>1, TreeFrame
<1>25. Outside(p, q, Obj, S)
  BY <1>4, <1>7, <1>13 DEF Outside
<1>26. AllBeyond(C, L2, s) /\ L2 \cap C = {} /\ S = L2 \cup C
  <2>1. \A z \in C, w \in L : Past(Opp(s), z, w)
    BY <1>4, <1>9 DEF AllBeyond
  <2>2. \A z \in C : Past(Opp(s), z, x)
    BY <1>3, <1>9 DEF AllPast
  <2> QED BY <1>4, <1>7, <1>9, <1>21, <2>1, <2>2 DEF AllBeyond
<1>27. q[x].right = v
  BY <1>7, <1>8, <1>10, <1>13
<1>28. Strings(t2, r, p, S, L2, C)
  BY <1>2, <1>13, <1>14, <1>16, <1>21, <1>22, <1>23, <1>24, <1>25, <1>26, <1>27 DEF Strings
<1> QED BY <1>9, <1>15, <1>28

LEMMA SpineIs ==
  ASSUME NEW t, NEW r \in Obj, NEW p, NEW S, NEW L, NEW R, Strings(t, r, p, S, L, R),
         t = [p |-> t.p, root |-> t.root, last |-> t.last],
         NEW q, q = Spine(t.p, t.root, t.last)
  PROVE  q \in Fields(Obj) /\ Tree(q, r, S) /\ Slanted(q, S) /\ Outside(p, q, Obj, S)
<1> DEFINE J == {c \in [p : Fields(Obj), root : Obj \cup {Nil}, last : Obj] :
                   \E A, B : Strings(c, r, p, S, A, B)}
           step == [c \in J |-> Strung(c)]
           m == [c \in J |-> Cardinality(Objects(c.p, c.root))]
           N == Cardinality(Obj)
<1>1. N \in Nat /\ Rounds = 0 .. N
  BY ObjIs DEF Rounds
<1>2. ASSUME NEW c, NEW A, NEW B, Strings(c, r, p, S, A, B), c = [p |-> c.p, root |-> c.root, last |-> c.last]
      PROVE  /\ c \in J
             /\ m[c] = Cardinality(B) /\ Cardinality(B) \in Nat /\ Cardinality(B) <= N
             /\ Cardinality(B) = 0 <=> c.root = Nil
             /\ Cardinality(B) = 0 <=> B = {}
  <2>1. c.p \in Fields(Obj) /\ Tree(c.p, c.root, B) /\ c.last \in Obj
    BY <1>2 DEF Strings, Hung
  <2>2. Objects(c.p, c.root) = B
    BY <2>1, InOrderIs DEF IsFields
  <2>3. B \in SUBSET Obj /\ IsFiniteSet(B) /\ (c.root = Nil <=> B = {}) /\ Cardinality(B) \in Nat /\ c.root \in Obj \cup {Nil}
    BY <2>1, TreeRoot
  <2>4. Cardinality(B) <= N
    BY <2>3, ObjIs, FS_Subset
  <2>5. c \in J
    BY <1>2, <2>1, <2>3
  <2> QED BY <2>2, <2>3, <2>4, <2>5, FS_EmptySet
<1>3. t \in J
  BY <1>2
<1>4. ASSUME NEW c \in J
      PROVE  /\ Strung(c) \in J
             /\ m[c] \in Nat /\ m[c] <= N /\ (m[Strung(c)] < m[c] \/ m[Strung(c)] = 0)
             /\ m[c] = 0 => \E A : Strings(c, r, p, S, A, {}) /\ c.root = Nil
  <2>1. PICK A, B : Strings(c, r, p, S, A, B) /\ c = [p |-> c.p, root |-> c.root, last |-> c.last]
    OBVIOUS
  <2>2. /\ m[c] = Cardinality(B) /\ Cardinality(B) \in Nat /\ Cardinality(B) <= N
        /\ (Cardinality(B) = 0 <=> c.root = Nil) /\ (Cardinality(B) = 0 <=> B = {})
    BY <1>2, <2>1
  <2>3. m[c] = 0 => \E A2 : Strings(c, r, p, S, A2, {}) /\ c.root = Nil
    BY <2>1, <2>2
  <2>4. CASE c.root = Nil
    <3>1. Strung(c) = c
      BY <2>4 DEF Strung
    <3> QED BY <2>2, <2>3, <2>4, <3>1
  <2>5. CASE c.root # Nil
    <3>1. PICK A2, B2 : Strings(Strung(c), r, p, S, A2, B2) /\ Cardinality(B2) < Cardinality(B)
      BY <2>1, <2>5, StrungIs
    <3>2. PICK c2 : c2 = Strung(c)
      OBVIOUS
    <3>3. c2 = [p |-> c2.p, root |-> c2.root, last |-> c2.last]
      BY <2>5, <3>2 DEF Strung
    <3>4. c2 \in J /\ m[c2] = Cardinality(B2)
      BY <1>2, <3>1, <3>2, <3>3
    <3> HIDE DEF m, J
    <3> QED BY <2>2, <2>3, <3>1, <3>2, <3>4
  <2> QED BY <2>4, <2>5
<1>5. m[t] <= N
  BY <1>3, <1>4
<1>6. \A c \in J : step[c] = Strung(c)
  OBVIOUS
<1> DEFINE first == [p |-> t.p, root |-> t.root, last |-> t.last]
           Made(f) == f = [n \in Rounds |->
                             IF n = 0 THEN first
                             ELSE LET c == f[n - 1]
                                      e == Extreme(c.p, c.root, "left")
                                      h == IF e.root # c.root THEN [e.p EXCEPT ![c.last].right = e.root] ELSE e.p
                                  IN  IF c.root = Nil THEN c
                                      ELSE [p |-> h, root |-> h[e.root].right, last |-> e.root]]
           Goes(f) == f = [n \in Rounds |-> IF n = 0 THEN first ELSE Strung(f[n - 1])]
<1>0. first = t
  OBVIOUS
<1> HIDE DEF J, step, m, N, first
<1>7. \A f : Made(f) <=> Goes(f)
  BY DEF Strung
<1>8. q = (CHOOSE f : Made(f))[N].p
  BY DEF Spine, N, first
<1>9. Keeps(step, J, m) /\ \A c \in J : step[c] \in J
  BY <1>4, <1>6 DEF Keeps
<1>10. \E f : Goes(f)
  <2>1. PICK f : Follows(f, N, t, step) /\ Within(f, N, J)
    BY <1>1, <1>3, <1>9, LoopIs
  <2>2. \A n \in 0 .. N : f[n] \in J /\ f[n] = IF n = 0 THEN t ELSE step[f[n - 1]]
    BY <2>1 DEF Follows, Within
  <2>3. \A n \in 0 .. N : f[n] = IF n = 0 THEN t ELSE Strung(f[n - 1])
    <3> TAKE n \in 0 .. N
    <3>1. n # 0 => n - 1 \in 0 .. N
      BY <1>1
    <3> QED BY <1>6, <2>2, <3>1
  <2>4. f = [n \in 0 .. N |-> f[n]]
    BY <2>1 DEF Follows
  <2> QED BY <1>0, <1>1, <2>3, <2>4
<1>11. PICK f : f = CHOOSE g : Made(g)
  OBVIOUS
<1>12. Goes(f)
  <2> HIDE DEF Made, Goes
  <2> QED BY <1>7, <1>10, <1>11
<1>13. Runs(f, N, t, step, J)
  <2>1. \A n \in 0 .. N : f[n] = IF n = 0 THEN t ELSE Strung(f[n - 1])
    BY <1>0, <1>1, <1>12
  <2>2. 0 \in 0 .. N /\ \A n \in 1 .. N : n \in 0 .. N /\ n # 0
    BY <1>1
  <2> QED BY <1>6, <2>1, <2>2 DEF Runs
<1>14. f[N] \in J /\ m[f[N]] = 0
  BY <1>1, <1>3, <1>5, <1>9, <1>13, LoopEnds
<1>15. PICK c : c = f[N]
  OBVIOUS
<1>16. PICK A : Strings(c, r, p, S, A, {}) /\ c.root = Nil
  BY <1>4, <1>14, <1>15
<1>17. q = c.p
  BY <1>8, <1>11, <1>15
<1>18. /\ q \in Fields(Obj) /\ Outside(p, q, Obj, S) /\ S = A /\ Slanted(q, S)
       /\ Hung(Under(q, r), "left", S, c.last) /\ c.last \in S /\ q[c.last].right = Nil
  BY <1>16, <1>17 DEF Strings
<1>19. PICK P, s : P = Under(q, r) /\ s = "left"
  OBVIOUS
<1>20. s \in Side /\ Opp(s) = "right" /\ S \in SUBSET Obj
  BY <1>18, <1>19, SideIs DEF Opp, Hung
<1>21. P \in Fields(Places) /\ P[Link].right = r /\ \A x \in Obj : P[x] = q[x]
  BY <1>18, <1>19, UnderIs
<1>22. Tree(P, P[Link][Opp(s)], S \cup {})
  <2>1. AlikeBut(P, P, S, c.last, s) /\ AllBeyond({}, S, s)
    BY DEF AlikeBut, AllBeyond
  <2>2. Tree(P, P[c.last][Opp(s)], {})
    BY <1>18, <1>20, <1>21, TreeEmpty
  <2> QED BY <1>18, <1>19, <1>20, <1>21, <2>1, <2>2, HungIs
<1>23. Tree(P, r, S)
  <2>1. S \cup {} = S
    OBVIOUS
  <2> QED BY <1>20, <1>21, <1>22, <2>1
<1>24. Tree(q, r, S)
  <2>1. \A x \in S, w \in Side : q[x][w] = P[x][w]
    BY <1>20, <1>21
  <2> QED BY <1>23, <2>1, TreeFrame
<1> QED BY <1>18, <1>24

\* dtflatten makes a list of a tree.
LEMMA FlattenIs ==
  ASSUME NEW p \in Fields(Obj), NEW r, NEW S, Tree(p, r, S), r # Nil,
         NEW e, e = Extreme(p, r, "left"),
         NEW q, q = Spine(e.p, e.p[e.root].right, e.root)
  PROVE  q \in Fields(Obj) /\ Tree(q, e.root, S) /\ Slanted(q, S) /\ Outside(p, q, Obj, S) /\ e.root \in Obj
<1>1. PICK x, f, s, u : x = e.root /\ f = e.p /\ s = "left" /\ u = "right"
  OBVIOUS
<1>2. s \in Side /\ u \in Side /\ Opp(s) = u /\ Opp(u) = s /\ s # u /\ Obj \in Domains
  BY <1>1, SideIs DEF Opp, Domains
<1>3. Turns(e, p, Obj, S, s)
  BY <1>1, <1>2, ExtremeIs
<1>4. /\ f \in Fields(Obj) /\ x \in Obj /\ x \in S /\ Tree(f, x, S) /\ Outside(p, f, Obj, S)
      /\ Part(S, x, s) = {} /\ f[x][s] = Nil /\ x # Nil
  BY <1>1, <1>3, ObjIs DEF Turns
<1>5. PICK C, v : C = Part(S, x, u) /\ v = f[x].right
  OBVIOUS
<1>6. S = {x} \cup C /\ x \notin C /\ Tree(f, v, C) /\ AllPast(u, C, x)
  <2>1. /\ S = Part(S, x, s) \cup {x} \cup Part(S, x, Opp(s)) /\ x \notin Part(S, x, Opp(s))
        /\ AllPast(Opp(s), Part(S, x, Opp(s)), x) /\ Tree(f, f[x][Opp(s)], Part(S, x, Opp(s)))
    BY <1>2, <1>4, TreeParts
  <2> QED BY <1>1, <1>2, <1>4, <1>5, <2>1
<1>7. PICK P : P = Under(f, x)
  OBVIOUS
<1>8. P \in Fields(Places) /\ P[Link].right = x /\ \A z \in Obj : P[z] = f[z]
  BY <1>4, <1>7, UnderIs
<1>9. Hung(P, s, {} \cup {} \cup {x}, x)
  <2>1. Hung(P, s, {}, Link) /\ Tree(P, P[x][s], {}) /\ AllPast(s, {}, x)
    BY <1>2, <1>4, <1>8, HungEmpty, TreeEmpty DEF AllPast
  <2>2. x \notin {} /\ {} \cap {} = {} /\ AllBeyond({} \cup {x}, {}, s)
    BY DEF AllBeyond
  <2>3. Puts(P, P, Places, Link, Opp(s), x)
    BY <1>1, <1>2, <1>8 DEF Puts
  <2> QED BY <1>2, <1>4, <1>8, <2>1, <2>2, <2>3, HangIs
<1>10. Hung(P, s, {x}, x)
  <2>1. {} \cup {} \cup {x} = {x}
    OBVIOUS
  <2> QED BY <1>9, <2>1
<1>11. PICK t : t = [p |-> f, root |-> v, last |-> x]
  OBVIOUS
<1>12. Slanted(f, {x}) /\ AllBeyond(C, {x}, s) /\ {x} \cap C = {}
  BY <1>1, <1>2, <1>4, <1>6 DEF Slanted, AllBeyond, AllPast
<1>13. Strings(t, x, p, S, {x}, C)
  BY <1>1, <1>4, <1>5, <1>6, <1>7, <1>10, <1>11, <1>12 DEF Strings
<1>14. t = [p |-> t.p, root |-> t.root, last |-> t.last] /\ q = Spine(t.p, t.root, t.last)
  BY <1>1, <1>5, <1>11
<1>15. q \in Fields(Obj) /\ Tree(q, x, S) /\ Slanted(q, S) /\ Outside(p, q, Obj, S)
  BY <1>4, <1>13, <1>14, SpineIs
<1> QED BY <1>1, <1>4, <1>15

-----------------------------------------------------------------------------
(* All dictionaries.                                                        *)

\* C[d] are the objects of d, and K those of the tree k taken out: all are in
\* trees of their own, and the objects of no tree have no pointers.
Whole(w, C, k, K) ==
  /\ w \in Worlds /\ C \in [Dict -> SUBSET Obj]
  /\ \A d \in Dict : Tree(w.ptr, w.here[d], C[d]) /\ C[d] \cap K = {}
  /\ Tree(w.ptr, k, K)
  /\ \A d, e \in Dict : d # e => C[d] \cap C[e] = {}
  /\ \A d \in Dict : w.flat[d] => Slanted(w.ptr, C[d])
  /\ \A x \in Obj : x \notin K /\ (\A d \in Dict : x \notin C[d]) => w.ptr[x] = Blank

\* x is in no tree, or in that of d.
Its(x, d, C, K) == x \notin K /\ \A e \in Dict : e # d => x \notin C[e]

LEMMA WholeIs ==
  ASSUME NEW w, NEW C, NEW k, NEW K, Whole(w, C, k, K)
  PROVE  /\ K = Objects(w.ptr, k) /\ Len(InOrder(w.ptr, k)) = Cardinality(K)
         /\ \A d \in Dict : /\ C[d] = Objects(w.ptr, w.here[d])
                            /\ Len(InOrder(w.ptr, w.here[d])) = Cardinality(C[d])
         /\ C = [d \in Dict |-> Objects(w.ptr, w.here[d])]
         /\ IsFields(w.ptr) /\ K \in SUBSET Obj /\ k \in Obj \cup {Nil}
<1>1. IsFields(w.ptr)
  BY DEF Whole, Worlds, IsFields
<1>2. K = Objects(w.ptr, k) /\ Len(InOrder(w.ptr, k)) = Cardinality(K)
  BY <1>1, InOrderIs DEF Whole
<1>3. \A d \in Dict : /\ C[d] = Objects(w.ptr, w.here[d])
                      /\ Len(InOrder(w.ptr, w.here[d])) = Cardinality(C[d])
  BY <1>1, InOrderIs DEF Whole
<1>4. C = [d \in Dict |-> Objects(w.ptr, w.here[d])]
  BY <1>3 DEF Whole
<1>5. K \in SUBSET Obj /\ k \in Obj \cup {Nil}
  BY TreeRoot DEF Whole
<1> QED BY <1>1, <1>2, <1>3, <1>4, <1>5

LEMMA BecameWhole ==
  ASSUME NEW w, NEW C, NEW k, NEW K, Whole(w, C, k, K), NEW d \in Dict,
         NEW w2, NEW S2, Became(w, w2, d, C[d], S2),
         \A x \in S2 : Its(x, d, C, K), \A x \in C[d] : x \notin S2 => w2.ptr[x] = Blank
  PROVE  Whole(w2, [C EXCEPT ![d] = S2], k, K)
<1>1. PICK D : D = [C EXCEPT ![d] = S2]
  OBVIOUS
<1>2. S2 \in SUBSET Obj /\ C \in [Dict -> SUBSET Obj] /\ w \in Worlds /\ w2 \in Worlds
  BY TreeRoot DEF Became, Whole
<1>3. D \in [Dict -> SUBSET Obj] /\ D[d] = S2 /\ \A e \in Dict : e # d => D[e] = C[e]
  BY <1>1, <1>2
<1>4. \A x \in Obj : x \notin C[d] /\ x \notin S2 => w2.ptr[x] = w.ptr[x]
  BY DEF Became, Outside
<1>5. ASSUME NEW e \in Dict, e # d PROVE \A x \in C[e] : w2.ptr[x] = w.ptr[x]
  <2>1. C[e] \cap C[d] = {} /\ C[e] \cap S2 = {}
    BY <1>5 DEF Whole, Its
  <2> QED BY <1>2, <1>4, <2>1
<1>6. \A x \in K : w2.ptr[x] = w.ptr[x]
  <2>1. K \in SUBSET Obj /\ K \cap C[d] = {} /\ K \cap S2 = {}
    BY TreeRoot DEF Whole, Its
  <2> QED BY <1>4, <2>1
<1>7. Tree(w2.ptr, k, K)
  <2>1. \A x \in K, s \in Side : w2.ptr[x][s] = w.ptr[x][s]
    BY <1>6
  <2>2. Tree(w.ptr, k, K)
    BY DEF Whole
  <2> QED BY <2>1, <2>2, TreeFrame
<1>8. ASSUME NEW e \in Dict
      PROVE  /\ Tree(w2.ptr, w2.here[e], D[e]) /\ D[e] \cap K = {}
             /\ w2.flat[e] => Slanted(w2.ptr, D[e])
  <2>1. CASE e = d
    <3>1. S2 \cap K = {}
      BY DEF Its
    <3> QED BY <1>3, <2>1, <3>1 DEF Became
  <2>2. CASE e # d
    <3>1. \A x \in C[e] : w2.ptr[x] = w.ptr[x]
      BY <1>5, <2>2
    <3>2. w2.here[e] = w.here[e] /\ w2.flat[e] = w.flat[e] /\ D[e] = C[e]
      BY <1>3, <2>2 DEF Became
    <3>3. Tree(w2.ptr, w.here[e], C[e])
      <4>1. \A x \in C[e], s \in Side : w2.ptr[x][s] = w.ptr[x][s]
        BY <3>1
      <4>2. Tree(w.ptr, w.here[e], C[e])
        BY DEF Whole
      <4> QED BY <4>1, <4>2, TreeFrame
    <3>4. w.flat[e] => Slanted(w2.ptr, C[e])
      BY <3>1 DEF Whole, Slanted
    <3> QED BY <3>2, <3>3, <3>4 DEF Whole
  <2> QED BY <2>1, <2>2
<1>9. \A e, f \in Dict : e # f => D[e] \cap D[f] = {}
  <2>1. \A e \in Dict : e # d => S2 \cap C[e] = {}
    BY DEF Its
  <2> QED BY <1>3, <2>1 DEF Whole
<1>10. ASSUME NEW x \in Obj, x \notin K, \A e \in Dict : x \notin D[e] PROVE w2.ptr[x] = Blank
  <2>1. x \notin S2 /\ \A e \in Dict : e # d => x \notin C[e]
    BY <1>3, <1>10
  <2>2. CASE x \in C[d]
    BY <2>1, <2>2
  <2>3. CASE x \notin C[d]
    <3>1. w.ptr[x] = Blank
      BY <1>10, <2>1, <2>3 DEF Whole
    <3> QED BY <1>4, <2>1, <2>3, <3>1
  <2> QED BY <2>2, <2>3
<1> QED BY <1>1, <1>2, <1>3, <1>7, <1>8, <1>9, <1>10 DEF Whole

\* A step that changes no set.
LEMMA BecameSame ==
  ASSUME NEW w, NEW C, NEW k, NEW K, Whole(w, C, k, K), NEW d \in Dict,
         NEW w2, Became(w, w2, d, C[d], C[d])
  PROVE  Whole(w2, C, k, K)
<1>1. \A x \in C[d] : Its(x, d, C, K)
  BY DEF Whole, Its
<1>2. Whole(w2, [C EXCEPT ![d] = C[d]], k, K)
  BY <1>1, BecameWhole
<1>3. [C EXCEPT ![d] = C[d]] = C
  BY DEF Whole
<1> QED BY <1>2, <1>3

\* The answer a of a call that changes no set.
Holds(a, C, k, K) == a \in [w : Worlds, got : Obj \cup {Nil}] /\ Whole(a.w, C, k, K)

LEMMA SearchHolds ==
  ASSUME NEW w, NEW C, NEW k, NEW K, Whole(w, C, k, K), NEW d \in Dict, NEW o \in Obj
  PROVE  Holds(TreeSearch(w, d, o), C, k, K) /\ Gives(TreeSearch(w, d, o).got, Met(C[d], o))
<1>1. w \in Worlds /\ Tree(w.ptr, w.here[d], C[d])
  BY DEF Whole
<1>2. PICK a : a = TreeSearch(w, d, o)
  OBVIOUS
<1>3. Became(w, a.w, d, C[d], C[d]) /\ Gives(a.got, Met(C[d], o))
  BY <1>1, <1>2, TreeSearchIs
<1>4. Whole(a.w, C, k, K)
  BY <1>3, BecameSame
<1>5. a = [w |-> a.w, got |-> a.got]
  BY <1>2 DEF TreeSearch, Searched, Answer
<1> QED BY <1>2, <1>3, <1>4, <1>5 DEF Holds, Gives, Whole

LEMMA StartHolds ==
  ASSUME NEW w, NEW C, NEW k, NEW K, Whole(w, C, k, K), NEW d \in Dict, NEW s \in Side
  PROVE  Holds(TreeStart(w, d, s), C, k, K) /\ Heads(TreeStart(w, d, s).got, C[d], s)
<1>1. w \in Worlds /\ Tree(w.ptr, w.here[d], C[d])
  BY DEF Whole
<1>2. PICK a : a = TreeStart(w, d, s)
  OBVIOUS
<1>3. Became(w, a.w, d, C[d], C[d]) /\ Heads(a.got, C[d], s)
  BY <1>1, <1>2, TreeStartIs
<1>4. Whole(a.w, C, k, K)
  BY <1>3, BecameSame
<1>5. a = [w |-> a.w, got |-> a.got]
  BY <1>2 DEF TreeStart, Answer
<1> QED BY <1>2, <1>3, <1>4, <1>5 DEF Holds, Heads, Whole

LEMMA MoveHolds ==
  ASSUME NEW w, NEW C, NEW k, NEW K, Whole(w, C, k, K), NEW d \in Dict, NEW o \in Obj, NEW s \in Side
  PROVE  Holds(TreeMove(w, d, o, s), C, k, K) /\ Heads(TreeMove(w, d, o, s).got, Aside(C[d], s, Key[o]), s)
<1>1. w \in Worlds /\ Tree(w.ptr, w.here[d], C[d])
  BY DEF Whole
<1>2. PICK a : a = TreeMove(w, d, o, s)
  OBVIOUS
<1>3. Became(w, a.w, d, C[d], C[d]) /\ Heads(a.got, Aside(C[d], s, Key[o]), s)
  BY <1>1, <1>2, TreeMoveIs
<1>4. Whole(a.w, C, k, K)
  BY <1>3, BecameSame
<1>5. a = [w |-> a.w, got |-> a.got]
  BY <1>2 DEF TreeMove, Moved, Answer
<1> QED BY <1>2, <1>3, <1>4, <1>5 DEF Holds, Heads, Whole

-----------------------------------------------------------------------------
(* Views.                                                                   *)

\* A list has only members that are not null.
LEMMA ListedIn ==
  ASSUME NEW n \in Nat, NEW S, NEW null, null \notin S, NEW step \in [S \cup {null} -> S \cup {null}],
         step[null] = null, NEW first \in S \cup {null}
  PROVE  Listed(n, first, step, null) \in Seq(S)
<1> DEFINE at == Iterates(n, first, step)
           A == {k \in 0 .. n - 1 : at[k] # null}
           T == {k \in 0 .. n : k = n \/ at[k] = null}
           R == S \cup {null}
           P == {k \in Nat : k <= n => at[k] \in R}
<1>1. at[0] = first /\ \A i \in 1 .. n : at[i] = step[at[i - 1]]
  BY IteratesAre
<1>2. ASSUME NEW k \in Nat, \A i \in Nat : i < k => i \in P, k <= n PROVE at[k] \in R
  <2>1. CASE k = 0
    BY <1>1, <2>1
  <2>2. CASE k # 0
    <3>1. k - 1 \in P /\ k - 1 <= n /\ k \in 1 .. n
      BY <1>2, <2>2
    <3>2. at[k - 1] \in R /\ at[k] = step[at[k - 1]]
      BY <1>1, <3>1
    <3> QED BY <3>2
  <2> QED BY <2>1, <2>2
<1>3. P = Nat
  <2>1. P \in SUBSET Nat /\ \A k \in Nat : (\A i \in Nat : i < k => i \in P) => k \in P
    BY <1>2
  <2> HIDE DEF P
  <2> QED BY <2>1, NatComplete
<1>4. \A k \in 0 .. n : at[k] \in R
  BY <1>3
<1>5. PICK m \in T : \A k \in T : m <= k
  <2>1. T \in SUBSET Nat /\ n \in T
    OBVIOUS
  <2> HIDE DEF T
  <2> QED BY <2>1, NatLeast
<1>6. m \in Nat /\ m <= n /\ (\A k \in 0 .. m - 1 : at[k] # null) /\ (m # n => at[m] = null)
  BY <1>5
<1> DEFINE U == {k \in Nat : m <= k /\ k < n => at[k] = null}
<1>7. ASSUME NEW k \in Nat, \A i \in Nat : i < k => i \in U, m <= k, k < n PROVE at[k] = null
  <2>1. CASE k = m
    BY <1>6, <1>7, <2>1
  <2>2. CASE k # m
    <3>1. k - 1 \in U /\ m <= k - 1 /\ k - 1 < n /\ k \in 1 .. n
      BY <1>6, <1>7, <2>2
    <3>2. at[k - 1] = null
      BY <3>1
    <3> QED BY <1>1, <3>1, <3>2
  <2> QED BY <2>1, <2>2
<1>8. U = Nat
  <2>1. U \in SUBSET Nat /\ \A k \in Nat : (\A i \in Nat : i < k => i \in U) => k \in U
    BY <1>7
  <2> HIDE DEF U
  <2> QED BY <2>1, NatComplete
<1>9. A = 0 .. m - 1
  BY <1>6, <1>8
<1>10. Cardinality(A) = m
  <2>1. Cardinality(0 .. m - 1) = IF 0 > m - 1 THEN 0 ELSE m - 1 - 0 + 1
    <3>1. m - 1 \in Int /\ 0 \in Int
      BY <1>6
    <3> QED BY <3>1, FS_Interval
  <2>2. Cardinality(0 .. m - 1) = m
    BY <1>6, <2>1
  <2> QED BY <1>9, <2>2
<1>11. PICK q : q = [i \in 1 .. m |-> at[i - 1]]
  OBVIOUS
<1>12. \A i \in 1 .. m : at[i - 1] \in S
  BY <1>4, <1>6
<1>13. q \in [1 .. m -> S]
  BY <1>11, <1>12
<1>14. q \in Seq(S)
  BY ONLY <1>6, <1>13, SeqDef
<1>15. Listed(n, first, step, null) = q
  BY <1>10, <1>11 DEF Listed
<1> QED BY <1>14, <1>15

\* The objects of U, and those of V that they do not cover.
Over(U, V) == U \cup {x \in V : Met(U, x) = {}}

\* The objects that are seen in the first n dictionaries of b.
SeenTo(C, b, n) ==
  {x \in Obj : \E i \in 1 .. n : x \in C[b[i]] /\ \A j \in 1 .. i - 1 : Met(C[b[j]], x) = {}}

LEMMA SeenStep ==
  ASSUME NEW C \in [Dict -> SUBSET Obj], NEW b \in Seq(Dict), NEW n \in 1 .. Len(b)
  PROVE  /\ SeenTo(C, b, n) = Over(SeenTo(C, b, n - 1), C[b[n]])
         /\ b[n] \in Dict /\ C[b[n]] \in SUBSET Obj /\ SeenTo(C, b, n) \in SUBSET Obj
<1>1. n \in Nat /\ \A i \in 1 .. n : b[i] \in Dict /\ C[b[i]] \in SUBSET Obj
  BY DEF Met
<1>2. ASSUME NEW x \in Obj
      PROVE  Met(SeenTo(C, b, n - 1), x) = {} <=> \A j \in 1 .. n - 1 : Met(C[b[j]], x) = {}
  <2>1. ASSUME \A j \in 1 .. n - 1 : Met(C[b[j]], x) = {} PROVE Met(SeenTo(C, b, n - 1), x) = {}
    BY <2>1 DEF Met, SeenTo
  <2>2. ASSUME NEW j \in 1 .. n - 1, Met(C[b[j]], x) # {} PROVE Met(SeenTo(C, b, n - 1), x) # {}
    <3>1. PICK T : T = {i \in 1 .. n - 1 : Met(C[b[i]], x) # {}}
      OBVIOUS
    <3>2. T \in SUBSET Nat /\ T # {}
      <4>1. \A i \in 1 .. n - 1 : i \in Nat
        BY <1>1
      <4>2. j \in T
        BY <2>2, <3>1
      <4> QED BY <3>1, <4>1, <4>2
    <3>3. PICK i \in T : \A l \in T : i <= l
      BY <3>2, NatLeast
    <3>4. PICK y \in C[b[i]] : Key[y] = Key[x]
      BY <3>1, <3>3 DEF Met
    <3>5. i \in 1 .. n - 1 /\ i \in 1 .. n /\ y \in Obj
      BY <1>1, <3>1, <3>3, <3>4
    <3>6. \A l \in 1 .. i - 1 : Met(C[b[l]], y) = {}
      <4> TAKE l \in 1 .. i - 1
      <4>1. l \notin T /\ l \in 1 .. n - 1
        BY <3>3, <3>5
      <4>2. Met(C[b[l]], x) = {}
        BY <3>1, <4>1
      <4> QED BY <3>4, <4>2 DEF Met
    <3>7. y \in SeenTo(C, b, n - 1)
      BY <3>4, <3>5, <3>6 DEF SeenTo
    <3> QED BY <3>4, <3>7 DEF Met
  <2> QED BY <2>1, <2>2
<1>3. ASSUME NEW x \in Obj
      PROVE  x \in SeenTo(C, b, n) <=> x \in SeenTo(C, b, n - 1) \/ (x \in C[b[n]] /\ \A j \in 1 .. n - 1 : Met(C[b[j]], x) = {})
  <2>1. \A i \in 1 .. n : i \in 1 .. n - 1 \/ i = n
    BY <1>1
  <2>2. n \in 1 .. n /\ \A i \in 1 .. n - 1 : i \in 1 .. n
    BY <1>1
  <2> QED BY <2>1, <2>2 DEF SeenTo
<1>4. SeenTo(C, b, n) \subseteq Obj /\ SeenTo(C, b, n - 1) \subseteq Obj
  BY DEF SeenTo
<1>5. n \in 1 .. n
  BY <1>1
<1> QED BY <1>1, <1>2, <1>3, <1>4, <1>5 DEF Over

\* What is seen when the answers a and b are those of U and V, and U covers V.
LEMMA MetJoin ==
  ASSUME NEW U \in SUBSET Obj, NEW V \in SUBSET Obj, NEW o \in Obj
  PROVE  /\ Met(U, o) # {} => Met(Over(U, V), o) = Met(U, o)
         /\ Met(U, o) = {} => Met(Over(U, V), o) = Met(V, o)
BY DEF Met, Over

LEMMA HeadsJoin ==
  ASSUME NEW s \in Side, NEW U \in SUBSET Obj, NEW V \in SUBSET Obj, NEW a, NEW b,
         Heads(a, U, s), Heads(b, V, s)
  PROVE  Heads(IF Better(b, a, s) THEN b ELSE a, Over(U, V), s)
<1>1. PICK W : W = Over(U, V) /\ W = U \cup {x \in V : Met(U, x) = {}}
  BY DEF Over
<1>2. CASE b = Nil
  <2>1. ~Better(b, a, s) /\ W = U
    BY <1>1, <1>2 DEF Better, Heads
  <2> QED BY <1>1, <2>1
<1>3. CASE b # Nil /\ a = Nil
  <2>1. Better(b, a, s) /\ W = V
    BY <1>1, <1>3 DEF Better, Heads, Met
  <2> QED BY <1>1, <2>1
<1>4. CASE b # Nil /\ a # Nil
  <2>1. /\ a \in U /\ b \in V /\ a \in Obj /\ b \in Obj
        /\ \A y \in U : y = a \/ Past(s, y, a)
        /\ \A y \in V : y = b \/ Past(s, y, b)
    BY <1>4 DEF Heads
  <2>2. Better(b, a, s) <=> Past(s, a, b)
    BY <1>4, <2>1, ObjIs DEF Better, Past, Side
  <2>3. CASE Past(s, a, b)
    <3>1. \A y \in U : Past(s, y, b)
      BY <2>1, <2>3, PastIs
    <3>2. Met(U, b) = {}
      BY <2>1, <3>1, PastIs DEF Met
    <3>3. b \in W /\ \A y \in W : y = b \/ Past(s, y, b)
      BY <1>1, <2>1, <3>1, <3>2
    <3>4. Heads(b, W, s)
      BY <1>4, <2>1, <3>3 DEF Heads
    <3> QED BY <1>1, <2>2, <2>3, <3>4
  <2>4. CASE ~Past(s, a, b)
    <3>1. ASSUME NEW y \in V, Met(U, y) = {} PROVE Past(s, y, a)
      <4>1. Key[y] # Key[a] /\ y \in Obj
        BY <2>1, <3>1 DEF Met
      <4>2. ~Past(s, a, y)
        BY <2>1, <2>4, <4>1, PastIs
      <4> QED BY <2>1, <4>1, <4>2, PastIs, SideIs
    <3>2. a \in W /\ \A y \in W : y = a \/ Past(s, y, a)
      BY <1>1, <2>1, <3>1
    <3>3. Heads(a, W, s)
      BY <1>4, <2>1, <3>2 DEF Heads
    <3> QED BY <1>1, <2>2, <2>4, <3>3
  <2> QED BY <2>3, <2>4
<1> QED BY <1>2, <1>3, <1>4

\* What is carried from each stage to the next holds at all of them.
LEMMA Carried ==
  ASSUME NEW n \in Nat, NEW J, NEW f, f[0] \in J[0],
         \A i \in 1 .. n : f[i - 1] \in J[i - 1] => f[i] \in J[i]
  PROVE  \A i \in 0 .. n : f[i] \in J[i]
<1> DEFINE P == {i \in Nat : i <= n => f[i] \in J[i]}
<1>1. ASSUME NEW i \in Nat, \A j \in Nat : j < i => j \in P, i <= n PROVE f[i] \in J[i]
  <2>1. CASE i = 0
    BY <2>1
  <2>2. CASE i # 0
    <3>1. i - 1 \in P /\ i - 1 <= n /\ i \in 1 .. n
      BY <1>1, <2>2
    <3>2. f[i - 1] \in J[i - 1]
      BY <3>1
    <3> QED BY <3>1, <3>2
  <2> QED BY <2>1, <2>2
<1>2. P = Nat
  <2>1. P \in SUBSET Nat /\ \A i \in Nat : (\A j \in Nat : j < i => j \in P) => i \in P
    BY <1>1
  <2> HIDE DEF P
  <2> QED BY <2>1, NatComplete
<1> QED BY <1>2

\* Below is a list of dictionaries.
LEMMA BelowIn ==
  ASSUME view \in [Dict -> Dict \cup {Nil}], NEW d \in Dict
  PROVE  Below(d) \in Seq(Dict)
<1>1. PICK n : n = Cardinality(Dict)
  OBVIOUS
<1>2. n \in Nat /\ Nil \notin Dict
  BY <1>1, DtAssumption, FS_CardinalityType DEF DtAssumption
<1>3. PICK step : step = [e \in Dict \cup {Nil} |-> IF e = Nil THEN Nil ELSE view[e]]
  OBVIOUS
<1>4. step \in [Dict \cup {Nil} -> Dict \cup {Nil}] /\ step[Nil] = Nil
  BY <1>3
<1>5. Listed(n, d, step, Nil) \in Seq(Dict)
  BY <1>2, <1>4, ListedIn
<1> QED BY <1>1, <1>3, <1>5 DEF Below

Asked(a, e, o) == IF a.got # Nil THEN a ELSE TreeSearch(a.w, e, o)

LEMMA AskedIs ==
  ASSUME NEW C, NEW k, NEW K, NEW b \in Seq(Dict), NEW i \in 1 .. Len(b), NEW o \in Obj,
         NEW a, Holds(a, C, k, K), Gives(a.got, Met(SeenTo(C, b, i - 1), o))
  PROVE  /\ Holds(Asked(a, b[i], o), C, k, K)
         /\ Gives(Asked(a, b[i], o).got, Met(SeenTo(C, b, i), o))
<1>1. Whole(a.w, C, k, K) /\ C \in [Dict -> SUBSET Obj] /\ a.got \in Obj \cup {Nil}
  BY DEF Holds, Whole
<1>2. PICK U, V, W : U = SeenTo(C, b, i - 1) /\ V = C[b[i]] /\ W = SeenTo(C, b, i)
  OBVIOUS
<1>3. W = Over(U, V) /\ b[i] \in Dict /\ V \in SUBSET Obj /\ W \in SUBSET Obj
  BY <1>1, <1>2, SeenStep
<1>4. U \in SUBSET Obj
  BY <1>2 DEF SeenTo
<1>5. (Met(U, o) # {} => Met(W, o) = Met(U, o)) /\ (Met(U, o) = {} => Met(W, o) = Met(V, o))
  BY <1>3, <1>4, MetJoin
<1>6. CASE a.got # Nil
  <2>1. Met(U, o) # {}
    BY <1>2, <1>6 DEF Gives
  <2> QED BY <1>2, <1>5, <1>6, <2>1 DEF Asked
<1>7. CASE a.got = Nil
  <2>1. Met(U, o) = {}
    BY <1>2, <1>7 DEF Gives
  <2>2. /\ Holds(TreeSearch(a.w, b[i], o), C, k, K)
        /\ Gives(TreeSearch(a.w, b[i], o).got, Met(C[b[i]], o))
    BY <1>1, <1>3, SearchHolds
  <2> QED BY <1>2, <1>5, <1>7, <2>1, <2>2 DEF Asked
<1> QED BY <1>6, <1>7

LEMMA AnswerIs ==
  ASSUME NEW w, NEW C, NEW k, NEW K, Whole(w, C, k, K), NEW got \in Obj \cup {Nil}
  PROVE  Answer(w, got) = [w |-> w, got |-> got] /\ Holds(Answer(w, got), C, k, K)
         /\ Answer(w, got).got = got
BY DEF Answer, Holds, Whole

LEMMA ViewSearchIs ==
  ASSUME NEW w, NEW C, NEW k, NEW K, Whole(w, C, k, K), NEW d, Below(d) \in Seq(Dict), NEW o \in Obj,
         NEW v, v = ViewSearch(w, d, o)
  PROVE  Holds(v, C, k, K) /\ Gives(v.got, Met(SeenTo(C, Below(d), Len(Below(d))), o))
<1>1. PICK b, n : b = Below(d) /\ n = Len(b)
  OBVIOUS
<1>2. b \in Seq(Dict) /\ n \in Nat
  BY <1>1
<1> DEFINE all == [w : Worlds, got : Obj \cup {Nil}]
           J == [i \in 0 .. n |-> {a \in all : Holds(a, C, k, K) /\ Gives(a.got, Met(SeenTo(C, b, i), o))}]
           step == [i \in 1 .. n |-> [a \in J[i - 1] |-> Asked(a, b[i], o)]]
           first == Answer(w, Nil)
           Made(f) == f = [i \in 0 .. Len(b) |->
                             IF i = 0 THEN first
                             ELSE LET a == f[i - 1] IN IF a.got # Nil THEN a ELSE TreeSearch(a.w, b[i], o)]
           Goes(f) == f = [i \in 0 .. n |-> IF i = 0 THEN first ELSE Asked(f[i - 1], b[i], o)]
<1>3. \A i \in 0 .. n : \A a : a \in J[i] <=> Holds(a, C, k, K) /\ Gives(a.got, Met(SeenTo(C, b, i), o))
  BY DEF Holds
<1>4. first \in J[0]
  <2>1. Holds(first, C, k, K) /\ first.got = Nil
    BY AnswerIs
  <2>2. Met(SeenTo(C, b, 0), o) = {}
    BY DEF Met, SeenTo
  <2>3. Gives(Nil, {}) /\ 0 \in 0 .. n
    BY <1>2 DEF Gives
  <2> HIDE DEF J, first
  <2> QED BY <1>3, <2>1, <2>2, <2>3
<1>5. \A f : Made(f) <=> Goes(f)
  BY <1>1 DEF Asked
<1>6. v = (CHOOSE f : Made(f))[n]
  BY <1>1 DEF ViewSearch
<1>7. ASSUME NEW i \in 1 .. n PROVE i - 1 \in 0 .. n /\ i \in 0 .. n /\ i # 0 /\ i \in 1 .. Len(b)
  BY <1>1, <1>2
<1>8. \A i \in 1 .. n : \A a \in J[i - 1] : step[i][a] = Asked(a, b[i], o)
  BY <1>7
<1> HIDE DEF J, step, first
<1>9. \A i \in 1 .. n : \A a \in J[i - 1] : Asked(a, b[i], o) \in J[i]
  <2> TAKE i \in 1 .. n
  <2> TAKE a \in J[i - 1]
  <2>1. i - 1 \in 0 .. n /\ i \in 0 .. n /\ i \in 1 .. Len(b)
    BY <1>7
  <2>2. Holds(a, C, k, K) /\ Gives(a.got, Met(SeenTo(C, b, i - 1), o))
    BY <1>3, <2>1
  <2>3. /\ Holds(Asked(a, b[i], o), C, k, K)
        /\ Gives(Asked(a, b[i], o).got, Met(SeenTo(C, b, i), o))
    BY <1>2, <2>1, <2>2, AskedIs
  <2> QED BY <1>3, <2>1, <2>3
<1>10. \E f : Goes(f)
  <2>1. PICK f : Stages(f, n, first, step)
    BY <1>2, StagesExist
  <2>2. f = [i \in 0 .. n |-> IF i = 0 THEN first ELSE step[i][f[i - 1]]]
    BY <2>1 DEF Stages
  <2>3. f[0] = first /\ \A i \in 1 .. n : f[i] = step[i][f[i - 1]]
    <3>1. 0 \in 0 .. n
      BY <1>2
    <3> QED BY <1>7, <2>2, <3>1
  <2>4. \A i \in 1 .. n : f[i - 1] \in J[i - 1] => f[i] \in J[i]
    BY <1>8, <1>9, <2>3
  <2>5. \A i \in 0 .. n : f[i] \in J[i]
    <3>1. f[0] \in J[0]
      BY <1>4, <2>3
    <3> QED BY <1>2, <2>4, <3>1, Carried
  <2>6. \A i \in 1 .. n : f[i] = Asked(f[i - 1], b[i], o)
    BY <1>7, <1>8, <2>3, <2>5
  <2>7. \A i \in 0 .. n : f[i] = IF i = 0 THEN first ELSE Asked(f[i - 1], b[i], o)
    <3>1. \A i \in 0 .. n : i = 0 \/ i \in 1 .. n
      BY <1>2
    <3> QED BY <2>3, <2>6, <3>1
  <2>8. f = [i \in 0 .. n |-> f[i]]
    BY <2>2
  <2> QED BY <2>7, <2>8
<1>11. PICK f : f = CHOOSE g : Made(g)
  OBVIOUS
<1>12. Goes(f)
  <2> HIDE DEF Made, Goes
  <2> QED BY <1>5, <1>10, <1>11
<1>13. f[0] = first /\ \A i \in 1 .. n : f[i] = Asked(f[i - 1], b[i], o)
  <2>1. 0 \in 0 .. n
    BY <1>2
  <2> QED BY <1>7, <1>12, <2>1
<1>14. f[n] \in J[n]
  <2>1. f[0] \in J[0] /\ \A i \in 1 .. n : f[i - 1] \in J[i - 1] => f[i] \in J[i]
    BY <1>4, <1>9, <1>13
  <2>2. \A i \in 0 .. n : f[i] \in J[i]
    BY <1>2, <2>1, Carried
  <2> QED BY <1>2, <2>2
<1>15. v = f[n]
  BY <1>6, <1>11
<1>16. n \in 0 .. n
  BY <1>2
<1> QED BY <1>1, <1>3, <1>14, <1>15, <1>16

\* What a walk asks for: the objects of X, or those beyond o.
Wanted(X, o, s) == IF o = Nil THEN X ELSE Aside(X, s, Key[o])

LEMMA WantedJoin ==
  ASSUME NEW U \in SUBSET Obj, NEW V \in SUBSET Obj, NEW o \in Obj \cup {Nil}, NEW s \in Side
  PROVE  /\ Wanted(Over(U, V), o, s) = Over(Wanted(U, o, s), Wanted(V, o, s))
         /\ Wanted(U, o, s) \in SUBSET Obj
<1>1. CASE o = Nil
  BY <1>1 DEF Wanted
<1>2. CASE o # Nil
  <2>1. PICK k : k = Key[o]
    OBVIOUS
  <2>2. ASSUME NEW x \in Obj, KeyPast(s, x, k) PROVE Met(U, x) = {} <=> Met(Aside(U, s, k), x) = {}
    BY <2>2 DEF Met, Aside, KeyPast
  <2>3. ASSUME NEW x
        PROVE  x \in Aside(Over(U, V), s, k) <=> x \in Over(Aside(U, s, k), Aside(V, s, k))
    BY <2>2 DEF Aside, Over
  <2> QED BY <1>2, <2>1, <2>3 DEF Wanted, Aside
<1> QED BY <1>1, <1>2

Told(a, e, o, s) ==
  LET c == IF o = Nil THEN TreeStart(a.w, e, s) ELSE TreeMove(a.w, e, o, s)
  IN  Answer(c.w, IF Better(c.got, a.got, s) THEN c.got ELSE a.got)

LEMMA ToldIs ==
  ASSUME NEW C, NEW k, NEW K, NEW b \in Seq(Dict), NEW i \in 1 .. Len(b),
         NEW o \in Obj \cup {Nil}, NEW s \in Side,
         NEW a, Holds(a, C, k, K), Heads(a.got, Wanted(SeenTo(C, b, i - 1), o, s), s)
  PROVE  /\ Holds(Told(a, b[i], o, s), C, k, K)
         /\ Heads(Told(a, b[i], o, s).got, Wanted(SeenTo(C, b, i), o, s), s)
<1>1. Whole(a.w, C, k, K) /\ C \in [Dict -> SUBSET Obj] /\ a.got \in Obj \cup {Nil}
  BY DEF Holds, Whole
<1>2. PICK U, V, W : U = SeenTo(C, b, i - 1) /\ V = C[b[i]] /\ W = SeenTo(C, b, i)
  OBVIOUS
<1>3. W = Over(U, V) /\ b[i] \in Dict /\ V \in SUBSET Obj /\ W \in SUBSET Obj
  BY <1>1, <1>2, SeenStep
<1>4. U \in SUBSET Obj
  BY <1>2 DEF SeenTo
<1>5. PICK c : c = IF o = Nil THEN TreeStart(a.w, b[i], s) ELSE TreeMove(a.w, b[i], o, s)
  OBVIOUS
<1>6. Holds(c, C, k, K) /\ Heads(c.got, Wanted(V, o, s), s)
  <2>1. CASE o = Nil
    BY <1>1, <1>2, <1>3, <1>5, <2>1, StartHolds DEF Wanted
  <2>2. CASE o # Nil
    BY <1>1, <1>2, <1>3, <1>5, <2>2, MoveHolds DEF Wanted
  <2> QED BY <2>1, <2>2
<1>7. PICK g : g = IF Better(c.got, a.got, s) THEN c.got ELSE a.got
  OBVIOUS
<1>8. Wanted(U, o, s) \in SUBSET Obj /\ Wanted(V, o, s) \in SUBSET Obj
  BY <1>3, <1>4, WantedJoin
<1>9. Heads(g, Over(Wanted(U, o, s), Wanted(V, o, s)), s)
  BY <1>2, <1>6, <1>7, <1>8, HeadsJoin
<1>10. Heads(g, Wanted(W, o, s), s)
  <2>1. Wanted(Over(U, V), o, s) = Over(Wanted(U, o, s), Wanted(V, o, s))
    BY <1>3, <1>4, WantedJoin
  <2> QED BY <1>3, <1>9, <2>1
<1>11. Told(a, b[i], o, s) = Answer(c.w, g)
  BY <1>5, <1>7 DEF Told, Best
<1>12. g \in Obj \cup {Nil} /\ Whole(c.w, C, k, K)
  BY <1>6, <1>9 DEF Heads, Holds
<1> QED BY <1>2, <1>10, <1>11, <1>12, AnswerIs

LEMMA ViewMoveIs ==
  ASSUME NEW w, NEW C, NEW k, NEW K, Whole(w, C, k, K), NEW d, Below(d) \in Seq(Dict),
         NEW o \in Obj \cup {Nil}, NEW s \in Side,
         NEW v, v = ViewMove(w, d, o, s)
  PROVE  Holds(v, C, k, K) /\ Heads(v.got, Wanted(SeenTo(C, Below(d), Len(Below(d))), o, s), s)
<1>1. PICK b, n : b = Below(d) /\ n = Len(b)
  OBVIOUS
<1>2. b \in Seq(Dict) /\ n \in Nat
  BY <1>1
<1> DEFINE all == [w : Worlds, got : Obj \cup {Nil}]
           J == [i \in 0 .. n |-> {a \in all : Holds(a, C, k, K) /\ Heads(a.got, Wanted(SeenTo(C, b, i), o, s), s)}]
           step == [i \in 1 .. n |-> [a \in J[i - 1] |-> Told(a, b[i], o, s)]]
           first == Answer(w, Nil)
           Made(f) == f = [i \in 0 .. Len(b) |->
                             IF i = 0 THEN first
                             ELSE LET best == f[i - 1]
                                      a == IF o = Nil THEN TreeStart(best.w, b[i], s)
                                           ELSE TreeMove(best.w, b[i], o, s)
                                  IN  Answer(a.w, IF Better(a.got, best.got, s) THEN a.got ELSE best.got)]
           Goes(f) == f = [i \in 0 .. n |-> IF i = 0 THEN first ELSE Told(f[i - 1], b[i], o, s)]
<1>3. \A i \in 0 .. n : \A a : a \in J[i] <=> Holds(a, C, k, K) /\ Heads(a.got, Wanted(SeenTo(C, b, i), o, s), s)
  BY DEF Holds
<1>4. first \in J[0]
  <2>1. Holds(first, C, k, K) /\ first.got = Nil
    BY AnswerIs
  <2>2. Wanted(SeenTo(C, b, 0), o, s) = {}
    BY DEF Wanted, Aside, SeenTo
  <2>3. Heads(Nil, {}, s) /\ 0 \in 0 .. n
    BY <1>2 DEF Heads
  <2> HIDE DEF J, first
  <2> QED BY <1>3, <2>1, <2>2, <2>3
<1>5. \A f : Made(f) <=> Goes(f)
  BY <1>1 DEF Told, Best
<1>6. v = (CHOOSE f : Made(f))[n]
  BY <1>1 DEF ViewMove, Best
<1>7. ASSUME NEW i \in 1 .. n PROVE i - 1 \in 0 .. n /\ i \in 0 .. n /\ i # 0 /\ i \in 1 .. Len(b)
  BY <1>1, <1>2
<1>8. \A i \in 1 .. n : \A a \in J[i - 1] : step[i][a] = Told(a, b[i], o, s)
  BY <1>7
<1> HIDE DEF J, step, first
<1>9. \A i \in 1 .. n : \A a \in J[i - 1] : Told(a, b[i], o, s) \in J[i]
  <2> TAKE i \in 1 .. n
  <2> TAKE a \in J[i - 1]
  <2>1. i - 1 \in 0 .. n /\ i \in 0 .. n /\ i \in 1 .. Len(b)
    BY <1>7
  <2>2. Holds(a, C, k, K) /\ Heads(a.got, Wanted(SeenTo(C, b, i - 1), o, s), s)
    BY <1>3, <2>1
  <2>3. /\ Holds(Told(a, b[i], o, s), C, k, K)
        /\ Heads(Told(a, b[i], o, s).got, Wanted(SeenTo(C, b, i), o, s), s)
    BY <1>2, <2>1, <2>2, ToldIs
  <2> QED BY <1>3, <2>1, <2>3
<1>10. \E f : Goes(f)
  <2>1. PICK f : Stages(f, n, first, step)
    BY <1>2, StagesExist
  <2>2. f = [i \in 0 .. n |-> IF i = 0 THEN first ELSE step[i][f[i - 1]]]
    BY <2>1 DEF Stages
  <2>3. f[0] = first /\ \A i \in 1 .. n : f[i] = step[i][f[i - 1]]
    <3>1. 0 \in 0 .. n
      BY <1>2
    <3> QED BY <1>7, <2>2, <3>1
  <2>4. \A i \in 1 .. n : f[i - 1] \in J[i - 1] => f[i] \in J[i]
    BY <1>8, <1>9, <2>3
  <2>5. \A i \in 0 .. n : f[i] \in J[i]
    <3>1. f[0] \in J[0]
      BY <1>4, <2>3
    <3> QED BY <1>2, <2>4, <3>1, Carried
  <2>6. \A i \in 1 .. n : f[i] = Told(f[i - 1], b[i], o, s)
    BY <1>7, <1>8, <2>3, <2>5
  <2>7. \A i \in 0 .. n : f[i] = IF i = 0 THEN first ELSE Told(f[i - 1], b[i], o, s)
    <3>1. \A i \in 0 .. n : i = 0 \/ i \in 1 .. n
      BY <1>2
    <3> QED BY <2>3, <2>6, <3>1
  <2>8. f = [i \in 0 .. n |-> f[i]]
    BY <2>2
  <2> QED BY <2>7, <2>8
<1>11. PICK f : f = CHOOSE g : Made(g)
  OBVIOUS
<1>12. Goes(f)
  <2> HIDE DEF Made, Goes
  <2> QED BY <1>5, <1>10, <1>11
<1>13. f[0] = first /\ \A i \in 1 .. n : f[i] = Told(f[i - 1], b[i], o, s)
  <2>1. 0 \in 0 .. n
    BY <1>2
  <2> QED BY <1>7, <1>12, <2>1
<1>14. f[n] \in J[n]
  <2>1. f[0] \in J[0] /\ \A i \in 1 .. n : f[i - 1] \in J[i - 1] => f[i] \in J[i]
    BY <1>4, <1>9, <1>13
  <2>2. \A i \in 0 .. n : f[i] \in J[i]
    BY <1>2, <2>1, Carried
  <2> QED BY <1>2, <2>2
<1>15. v = f[n]
  BY <1>6, <1>11
<1>16. n \in 0 .. n
  BY <1>2
<1> QED BY <1>1, <1>3, <1>14, <1>15, <1>16

-----------------------------------------------------------------------------
(* The inductive invariant.                                                 *)

\* z and v are the counts and the views of the dictionaries.
Good(w, k, z, v, C, K) ==
  /\ Whole(w, C, k, K)
  /\ z \in [Dict -> Int] /\ v \in [Dict -> Dict \cup {Nil}]
  /\ \A d \in Dict : z[d] \in {-1, Cardinality(C[d])}

\* Every dictionary, and what has been taken out, is a search tree; the trees
\* have no object in common; the count is that of the tree or unknown.
IInv == \E C, K : Good(World, kept, size, view, C, K)

\* What the state is for Good sets C and K.
LEMMA GoodIs ==
  ASSUME NEW C, NEW K, Good(World, kept, size, view, C, K)
  PROVE  /\ Whole(World, C, kept, K)
         /\ \A d \in Dict : /\ Content(d) = C[d] /\ Tree(ptr, here[d], C[d])
                            /\ C[d] \in SUBSET Obj /\ Distinct(C[d])
                            /\ IsFiniteSet(C[d]) /\ Cardinality(C[d]) \in Nat
                            /\ (Cardinality(C[d]) = 0 <=> C[d] = {})
                            /\ (here[d] = Nil <=> C[d] = {})
                            /\ here[d] \in Obj \cup {Nil} /\ flat[d] \in BOOLEAN
         /\ C \in [Dict -> SUBSET Obj] /\ C = [d \in Dict |-> Content(d)]
         /\ Objects(ptr, kept) = K /\ Tree(ptr, kept, K) /\ K \in SUBSET Obj
         /\ (kept = Nil <=> K = {}) /\ kept \in Obj \cup {Nil}
         /\ K \subseteq Taken /\ \A d \in Dict : C[d] \subseteq Taken
         /\ ptr \in Fields(Obj) /\ here \in [Dict -> Obj \cup {Nil}] /\ flat \in [Dict -> BOOLEAN]
<1>1. Whole(World, C, kept, K) /\ World.ptr = ptr /\ World.here = here /\ World.flat = flat
  BY DEF Good, World
<1>2. /\ K = Objects(ptr, kept) /\ K \in SUBSET Obj /\ kept \in Obj \cup {Nil}
      /\ \A d \in Dict : C[d] = Objects(ptr, here[d])
  BY <1>1, WholeIs
<1>3. \A d \in Dict : Content(d) = C[d]
  BY <1>2 DEF Content
<1>4. C \in [Dict -> SUBSET Obj] /\ Tree(ptr, kept, K) /\ \A d \in Dict : Tree(ptr, here[d], C[d])
  BY <1>1 DEF Whole
<1>5. ptr \in Fields(Obj) /\ here \in [Dict -> Obj \cup {Nil}] /\ flat \in [Dict -> BOOLEAN]
  BY <1>1 DEF Whole, Worlds
<1>6. C = [d \in Dict |-> Content(d)]
  BY <1>3, <1>4
<1>7. K \subseteq Taken /\ \A d \in Dict : C[d] \subseteq Taken
  <2>1. \A d \in Dict : Content(d) \subseteq Taken
    BY DEF Taken
  <2>2. Objects(ptr, kept) \subseteq Taken
    BY DEF Taken
  <2> QED BY <1>2, <1>3, <2>1, <2>2
<1>8. kept = Nil <=> K = {}
  BY <1>4, TreeRoot
<1>9. \A d \in Dict : /\ C[d] \in SUBSET Obj /\ Distinct(C[d])
                      /\ IsFiniteSet(C[d]) /\ Cardinality(C[d]) \in Nat
                      /\ (here[d] = Nil <=> C[d] = {})
  BY <1>4, TreeRoot
<1>10. \A d \in Dict : Cardinality(C[d]) = 0 <=> C[d] = {}
  BY <1>9, FS_EmptySet
<1> QED BY <1>1, <1>2, <1>3, <1>4, <1>5, <1>6, <1>7, <1>8, <1>9, <1>10

LEMMA InitGood ==
  ASSUME Init
  PROVE  Good(World, kept, size, view, [d \in Dict |-> {}], {})
<1>1. Blank \in [left : Obj \cup {Nil}, right : Obj \cup {Nil}]
  BY DEF Blank
<1>2. World \in Worlds
  BY <1>1 DEF Init, World, Worlds, Fields
<1>3. Cardinality({}) = 0
  BY FS_EmptySet
<1>4. Whole(World, [d \in Dict |-> {}], kept, {})
  BY <1>2, TreeEmpty DEF Whole, Init, World
<1> QED BY <1>3, <1>4 DEF Good, Init

\* A step that changes pointers and roots only.
LEMMA StaysGood ==
  ASSUME NEW C, NEW K, Good(World, kept, size, view, C, K),
         NEW w2, Becomes(w2), Whole(w2, C, kept, K), UNCHANGED <<size, view, kept>>
  PROVE  Good(World, kept, size, view, C, K)'
<1>1. w2 = [ptr |-> w2.ptr, here |-> w2.here, flat |-> w2.flat]
  BY DEF Whole, Worlds
<1>2. World' = w2
  BY <1>1 DEF Becomes, World
<1> QED BY <1>2 DEF Good

LEMMA SearchGood ==
  ASSUME NEW C, NEW K, Good(World, kept, size, view, C, K), NEW d \in Dict, NEW o \in Obj,
         Dtsearch(d, o)
  PROVE  Good(World, kept, size, view, C, K)'
<1>1. Below(d) \in Seq(Dict)
  BY BelowIn DEF Good
<1>2. PICK v : v = ViewSearch(World, d, o)
  OBVIOUS
<1>3. Whole(World, C, kept, K)
  BY DEF Good
<1>4. Whole(v.w, C, kept, K)
  BY <1>1, <1>2, <1>3, ViewSearchIs DEF Holds
<1>5. Becomes(v.w) /\ UNCHANGED <<size, view, kept>>
  BY <1>2 DEF Dtsearch
<1> QED BY <1>4, <1>5, StaysGood

LEMMA MoveGood ==
  ASSUME NEW C, NEW K, Good(World, kept, size, view, C, K), NEW d \in Dict, NEW o \in Obj \cup {Nil},
         NEW s \in Side, Becomes(ViewMove(World, d, o, s).w), UNCHANGED <<size, view, kept>>
  PROVE  Good(World, kept, size, view, C, K)'
<1>1. Below(d) \in Seq(Dict)
  BY BelowIn DEF Good
<1>2. PICK v : v = ViewMove(World, d, o, s)
  OBVIOUS
<1>3. Whole(World, C, kept, K)
  BY DEF Good
<1>4. Whole(v.w, C, kept, K)
  BY <1>1, <1>2, <1>3, ViewMoveIs DEF Holds
<1> QED BY <1>2, <1>4, StaysGood

\* A step that changes the objects of one dictionary, and its count.
LEMMA SetGood ==
  ASSUME NEW C, NEW K, Good(World, kept, size, view, C, K), NEW d \in Dict,
         NEW w2, Becomes(w2), UNCHANGED <<view, kept>>,
         NEW S2, Became(World, w2, d, C[d], S2),
         \A x \in S2 : Its(x, d, C, K), \A x \in C[d] : x \notin S2 => w2.ptr[x] = Blank,
         size' \in [Dict -> Int], size'[d] \in {-1, Cardinality(S2)},
         \A e \in Dict : e # d => size'[e] = size[e]
  PROVE  Good(World', kept', size', view', [C EXCEPT ![d] = S2], K)
<1>1. PICK D : D = [C EXCEPT ![d] = S2]
  OBVIOUS
<1>2. Whole(w2, D, kept, K)
  BY <1>1, BecameWhole DEF Good
<1>3. w2 = [ptr |-> w2.ptr, here |-> w2.here, flat |-> w2.flat]
  BY DEF Became, Worlds
<1>4. World' = w2
  BY <1>3 DEF Becomes, World
<1>5. C \in [Dict -> SUBSET Obj]
  BY DEF Good, Whole
<1>6. \A e \in Dict : size'[e] \in {-1, Cardinality(D[e])}
  BY <1>1, <1>5 DEF Good
<1> QED BY <1>1, <1>2, <1>4, <1>6 DEF Good

LEMMA InsertGood ==
  ASSUME NEW C, NEW K, Good(World, kept, size, view, C, K), NEW d \in Dict, NEW o \in Obj,
         Dtinsert(d, o)
  PROVE  /\ Good(World', kept', size', view', [C EXCEPT ![d] = C[d] \cup Kept(C[d], o)], K)
         /\ UNCHANGED <<view, kept>>
<1>1. /\ World \in Worlds /\ Tree(World.ptr, World.here[d], C[d])
      /\ C[d] \in SUBSET Obj /\ IsFiniteSet(C[d]) /\ Cardinality(C[d]) \in Nat
      /\ Content(d) = C[d] /\ K \subseteq Taken /\ \A e \in Dict : C[e] \subseteq Taken
      /\ C \in [Dict -> SUBSET Obj]
  BY GoodIs DEF Whole
<1>2. PICK a, S, S2 : a = TreeInsert(World, d, o) /\ S = C[d] /\ S2 = S \cup Kept(S, o)
  OBVIOUS
<1>3. Became(World, a.w, d, S, S2) /\ Gives(a.got, Kept(S, o))
  BY <1>1, <1>2, TreeInsertIs
<1>4. o \in S \/ o \notin Taken
  BY <1>1, <1>2 DEF Dtinsert
<1>5. Becomes(a.w) /\ UNCHANGED <<view, kept>>
  BY <1>2 DEF Dtinsert
<1>6. size' = [size EXCEPT ![d] = IF a.got = o /\ o \notin Taken /\ @ >= 0 THEN @ + 1 ELSE @]
  BY <1>2 DEF Dtinsert
<1>7. size \in [Dict -> Int] /\ size[d] \in {-1, Cardinality(S)}
  BY <1>2 DEF Good
<1>8. size' \in [Dict -> Int] /\ (\A e \in Dict : e # d => size'[e] = size[e])
      /\ size'[d] = IF a.got = o /\ o \notin Taken /\ size[d] >= 0 THEN size[d] + 1 ELSE size[d]
  BY <1>6, <1>7
<1>9. \A x \in S : Its(x, d, C, K) /\ x \in Taken
  BY <1>1, <1>2 DEF Good, Whole, Its
<1>10. CASE Met(S, o) = {}
  <2>1. Kept(S, o) = {o} /\ o \notin S /\ S2 = S \cup {o}
    BY <1>2, <1>10 DEF Kept, Met
  <2>2. o \notin Taken /\ a.got = o
    <3>1. o \notin Taken
      BY <1>4, <2>1
    <3> QED BY <1>3, <2>1, <3>1 DEF Gives
  <2>3. Cardinality(S2) = Cardinality(S) + 1
    <3>1. IsFiniteSet(S) /\ o \notin S
      BY <1>1, <1>2, <2>1
    <3>2. Cardinality(S \cup {o}) = Cardinality(S) + 1
      BY ONLY <3>1, FS_AddElement
    <3> QED BY <2>1, <3>2
  <2>4. size'[d] \in {-1, Cardinality(S2)}
    BY <1>1, <1>2, <1>7, <1>8, <2>2, <2>3
  <2>5. \A x \in S2 : Its(x, d, C, K)
    <3>1. Its(o, d, C, K)
      <4>1. o \notin K
        BY <1>1, <2>2
      <4>2. \A e \in Dict : o \notin C[e]
        BY <1>1, <2>2
      <4> QED BY <4>1, <4>2 DEF Its
    <3> QED BY <1>9, <2>1, <3>1
  <2>6. \A x \in S : x \in S2
    BY <2>1
  <2> QED BY <1>2, <1>3, <1>5, <1>8, <2>4, <2>5, <2>6, SetGood
<1>11. CASE Met(S, o) # {}
  <2>1. Kept(S, o) = Met(S, o) /\ Met(S, o) \subseteq S
    BY <1>11 DEF Kept, Met
  <2>2. S2 = S
    BY <1>2, <2>1
  <2>3. a.got \in S
    BY <1>3, <1>11, <2>1 DEF Gives
  <2>4. ~(a.got = o /\ o \notin Taken)
    BY <1>9, <2>3
  <2>5. size'[d] \in {-1, Cardinality(S2)}
    BY <1>7, <1>8, <2>2, <2>4
  <2>6. (\A x \in S2 : Its(x, d, C, K)) /\ \A x \in S : x \in S2
    BY <1>9, <2>2
  <2> QED BY <1>2, <1>3, <1>5, <1>8, <2>5, <2>6, SetGood
<1> QED BY <1>10, <1>11

LEMMA DeleteGood ==
  ASSUME NEW C, NEW K, Good(World, kept, size, view, C, K), NEW d \in Dict, NEW o \in Obj,
         Dtdelete(d, o)
  PROVE  /\ Good(World', kept', size', view', [C EXCEPT ![d] = C[d] \ Met(C[d], o)], K)
         /\ UNCHANGED <<view, kept>>
<1>1. /\ World \in Worlds /\ Tree(World.ptr, World.here[d], C[d])
      /\ C[d] \in SUBSET Obj /\ IsFiniteSet(C[d]) /\ Cardinality(C[d]) \in Nat
      /\ C \in [Dict -> SUBSET Obj]
  BY GoodIs DEF Whole
<1>2. PICK a, S, S2 : a = TreeDelete(World, d, o) /\ S = C[d] /\ S2 = S \ Met(S, o)
  OBVIOUS
<1>3. Became(World, a.w, d, S, S2) /\ Gives(a.got, Met(S, o)) /\ \A x \in Met(S, o) : a.w.ptr[x] = Blank
  BY <1>1, <1>2, TreeDeleteIs
<1>4. Becomes(a.w) /\ UNCHANGED <<view, kept>>
  BY <1>2 DEF Dtdelete
<1>5. PICK less : less = IF size[d] - 1 < 0 THEN -1 ELSE size[d] - 1
  OBVIOUS
<1>6. size' = IF a.got = Nil THEN size ELSE [size EXCEPT ![d] = less]
  BY <1>2, <1>5 DEF Dtdelete
<1>7. size \in [Dict -> Int] /\ size[d] \in {-1, Cardinality(S)}
  BY <1>2 DEF Good
<1>8. less \in Int
  BY <1>5, <1>7
<1>9. size' \in [Dict -> Int] /\ (\A e \in Dict : e # d => size'[e] = size[e])
      /\ size'[d] = IF a.got = Nil THEN size[d] ELSE less
  BY <1>6, <1>7, <1>8
<1>10. \A x \in S : Its(x, d, C, K)
  BY <1>2 DEF Good, Whole, Its
<1>11. \A x \in S2 : Its(x, d, C, K)
  BY <1>2, <1>10
<1>12. \A x \in S : x \notin S2 => a.w.ptr[x] = Blank
  BY <1>2, <1>3
<1>13. size'[d] \in {-1, Cardinality(S2)}
  <2>1. CASE a.got = Nil
    <3>1. Met(S, o) = {}
      BY <1>3, <2>1 DEF Gives
    <3>2. S2 = S
      BY <1>2, <3>1
    <3> QED BY <1>7, <1>9, <2>1, <3>2
  <2>2. CASE a.got # Nil
    <3>1. Met(S, o) = {a.got} /\ a.got \in S
      BY <1>3, <2>2 DEF Gives, Met
    <3>2. S2 = S \ {a.got}
      BY <1>2, <3>1
    <3>3. Cardinality(S2) = Cardinality(S) - 1
      <4>1. PICK x : x = a.got
        OBVIOUS
      <4>2. IsFiniteSet(S) /\ x \in S
        BY <1>1, <1>2, <3>1, <4>1
      <4>3. Cardinality(S \ {x}) = Cardinality(S) - 1
        BY ONLY <4>2, FS_RemoveElement
      <4> QED BY <3>2, <4>1, <4>3
    <3>4. Cardinality(S2) \in Nat
      BY <1>1, <1>2, <3>2, FS_RemoveElement, FS_CardinalityType
    <3>5. size'[d] = less
      BY <1>9, <2>2
    <3> HIDE <1>9
    <3> QED BY <1>1, <1>2, <1>5, <1>7, <3>3, <3>4, <3>5
  <2> QED BY <2>1, <2>2
<1> QED BY <1>2, <1>3, <1>4, <1>9, <1>11, <1>12, <1>13, SetGood

LEMMA ClearGood ==
  ASSUME NEW C, NEW K, Good(World, kept, size, view, C, K), NEW d \in Dict, Dtclear(d)
  PROVE  /\ Good(World', kept', size', view', [C EXCEPT ![d] = {}], K)
         /\ UNCHANGED <<view, kept>>
<1>1. /\ World \in Worlds /\ C[d] \in SUBSET Obj /\ Tree(ptr, here[d], C[d])
      /\ ptr \in Fields(Obj) /\ here \in [Dict -> Obj \cup {Nil}] /\ flat \in [Dict -> BOOLEAN]
      /\ (here[d] = Nil <=> C[d] = {})
  BY GoodIs DEF Whole
<1>2. Freed(ptr, here[d]) = C[d]
  BY <1>1, FreedIs
<1>3. PICK q, h, f : /\ q = [o \in Obj |-> IF o \in C[d] THEN Blank ELSE ptr[o]]
                     /\ h = [here EXCEPT ![d] = Nil] /\ f = [flat EXCEPT ![d] = FALSE]
  OBVIOUS
<1>4. ptr' = q /\ here' = h /\ flat' = f /\ UNCHANGED <<view, kept>>
      /\ size' = IF here[d] = Nil THEN size ELSE [size EXCEPT ![d] = 0]
  BY <1>2, <1>3 DEF Dtclear
<1>5. PICK w2 : w2 = [ptr |-> q, here |-> h, flat |-> f]
  OBVIOUS
<1>6. Becomes(w2)
  BY <1>4, <1>5 DEF Becomes
<1>7. Blank \in [left : Obj \cup {Nil}, right : Obj \cup {Nil}]
  BY DEF Blank
<1>8. w2 \in Worlds
  <2>1. q \in Fields(Obj)
    BY <1>1, <1>3, <1>7 DEF Fields
  <2>2. h \in [Dict -> Obj \cup {Nil}] /\ f \in [Dict -> BOOLEAN]
    BY <1>1, <1>3
  <2> QED BY <1>5, <2>1, <2>2 DEF Worlds
<1>9. Became(World, w2, d, C[d], {})
  <2>1. Tree(w2.ptr, w2.here[d], {})
    BY <1>1, <1>3, <1>5, TreeEmpty
  <2>2. \A e \in Dict : e # d => w2.here[e] = World.here[e] /\ w2.flat[e] = World.flat[e]
    BY <1>1, <1>3, <1>5 DEF World
  <2>3. ~w2.flat[d]
    BY <1>1, <1>3, <1>5
  <2>4. Outside(World.ptr, w2.ptr, Obj, C[d] \cup {})
    BY <1>3, <1>5 DEF Outside, World
  <2> QED BY <1>8, <2>1, <2>2, <2>3, <2>4 DEF Became
<1>10. \A x \in C[d] : w2.ptr[x] = Blank
  BY <1>1, <1>3, <1>5
<1>11. Cardinality({}) = 0
  BY FS_EmptySet
<1>12. size \in [Dict -> Int] /\ size[d] \in {-1, Cardinality(C[d])}
  BY DEF Good
<1>13. size' \in [Dict -> Int] /\ (\A e \in Dict : e # d => size'[e] = size[e])
       /\ size'[d] \in {-1, Cardinality({})}
  BY <1>1, <1>4, <1>11, <1>12
<1> QED BY <1>4, <1>6, <1>9, <1>10, <1>13, SetGood

\* A step that changes what is flat only.
LEMMA FlatGood ==
  ASSUME NEW C, NEW K, Good(World, kept, size, view, C, K),
         NEW f \in [Dict -> BOOLEAN], flat' = f, \A e \in Dict : f[e] => flat[e],
         UNCHANGED <<ptr, here, kept>>,
         size' \in [Dict -> Int], view' \in [Dict -> Dict \cup {Nil}],
         \A e \in Dict : size'[e] \in {-1, Cardinality(C[e])}
  PROVE  Good(World', kept', size', view', C, K)
<1>1. Whole(World, C, kept, K)
  BY DEF Good
<1>2. World' \in Worlds /\ World'.ptr = ptr /\ World'.here = here /\ World'.flat = f
  BY GoodIs DEF World, Worlds
<1>3. \A e \in Dict : f[e] => Slanted(ptr, C[e])
  BY <1>1 DEF Whole, World
<1>4. Whole(World', C, kept, K)
  BY <1>1, <1>2, <1>3 DEF Whole, World
<1> QED BY <1>4 DEF Good

LEMMA FlattenGood ==
  ASSUME NEW C, NEW K, Good(World, kept, size, view, C, K), NEW d \in Dict, Dtflatten(d)
  PROVE  /\ Good(World', kept', size', view', C, K)
         /\ UNCHANGED <<view, kept>>
<1>1. /\ World \in Worlds /\ C[d] \in SUBSET Obj /\ Tree(ptr, here[d], C[d])
      /\ ptr \in Fields(Obj) /\ here \in [Dict -> Obj \cup {Nil}] /\ flat \in [Dict -> BOOLEAN]
      /\ (here[d] = Nil <=> C[d] = {}) /\ Whole(World, C, kept, K)
  BY GoodIs DEF Whole
<1>2. UNCHANGED <<size, view, kept>> /\ flat' = [flat EXCEPT ![d] = TRUE]
  BY DEF Dtflatten
<1>3. PICK e, q : e = Extreme(ptr, here[d], "left") /\ q = Spine(e.p, e.p[e.root].right, e.root)
  OBVIOUS
<1>4. IF flat[d] \/ here[d] = Nil THEN UNCHANGED <<ptr, here>>
      ELSE ptr' = q /\ here' = [here EXCEPT ![d] = e.root]
  BY <1>3 DEF Dtflatten
<1>5. PICK w2 : w2 = [ptr |-> ptr', here |-> here', flat |-> [flat EXCEPT ![d] = FALSE]]
  OBVIOUS
<1>6. Became(World, w2, d, C[d], C[d]) /\ Slanted(ptr', C[d])
  <2>1. CASE flat[d] \/ here[d] = Nil
    <3>1. Slanted(ptr, C[d])
      <4>1. CASE flat[d]
        BY <1>1, <4>1 DEF Whole, World
      <4>2. CASE here[d] = Nil
        BY <1>1, <4>2 DEF Slanted
      <4> QED BY <2>1, <4>1, <4>2
    <3>2. UNCHANGED <<ptr, here>>
      BY <1>4, <2>1
    <3> QED BY <1>1, <1>5, <3>1, <3>2 DEF Became, Worlds, World, Outside
  <2>2. CASE ~flat[d] /\ here[d] # Nil
    <3>1. /\ q \in Fields(Obj) /\ Tree(q, e.root, C[d]) /\ Slanted(q, C[d])
          /\ Outside(ptr, q, Obj, C[d]) /\ e.root \in Obj
      BY <1>1, <1>3, <2>2, FlattenIs
    <3>2. PICK h : h = [here EXCEPT ![d] = e.root]
      OBVIOUS
    <3>3. ptr' = q /\ here' = h
      BY <1>4, <2>2, <3>2
    <3>4. h \in [Dict -> Obj \cup {Nil}] /\ h[d] = e.root /\ \A g \in Dict : g # d => h[g] = here[g]
      BY <1>1, <3>1, <3>2
    <3>5. w2 \in Worlds /\ w2.ptr = q /\ w2.here = h
      BY <1>1, <1>5, <3>1, <3>3, <3>4 DEF Worlds
    <3>6. Tree(w2.ptr, w2.here[d], C[d])
      BY <3>1, <3>4, <3>5
    <3>7. \A g \in Dict : g # d => w2.here[g] = World.here[g] /\ w2.flat[g] = World.flat[g]
      BY <1>1, <1>5, <3>4, <3>5 DEF World
    <3>8. ~w2.flat[d]
      BY <1>1, <1>5
    <3>9. Outside(World.ptr, w2.ptr, Obj, C[d] \cup C[d])
      BY <3>1, <3>5 DEF World, Outside
    <3> QED BY <3>1, <3>3, <3>5, <3>6, <3>7, <3>8, <3>9 DEF Became
  <2> QED BY <2>1, <2>2
<1>7. Whole(w2, C, kept, K)
  BY <1>1, <1>6, BecameSame
<1>8. /\ World' \in Worlds /\ World'.ptr = w2.ptr /\ World'.here = w2.here
      /\ World'.flat = [flat EXCEPT ![d] = TRUE]
  BY <1>1, <1>2, <1>5, <1>7 DEF World, Worlds, Whole
<1>9. \A g \in Dict : World'.flat[g] => Slanted(World'.ptr, C[g])
  <2> TAKE g \in Dict
  <2>1. CASE g = d
    BY <1>5, <1>6, <1>8, <2>1
  <2>2. CASE g # d
    <3>1. World'.flat[g] = w2.flat[g]
      BY <1>1, <1>5, <1>8, <2>2
    <3> QED BY <1>7, <1>8, <3>1 DEF Whole
  <2> QED BY <2>1, <2>2
<1>10. Whole(World', C, kept, K)
  BY <1>7, <1>8, <1>9 DEF Whole
<1> QED BY <1>2, <1>10 DEF Good

LEMMA ExtractGood ==
  ASSUME NEW C, NEW K, Good(World, kept, size, view, C, K), NEW d \in Dict, Dtextract(d)
  PROVE  /\ Good(World', kept', size', view', [C EXCEPT ![d] = {}], C[d])
         /\ K = {} /\ UNCHANGED view
<1>1. PICK D : D = [C EXCEPT ![d] = {}]
  OBVIOUS
<1>2. /\ C \in [Dict -> SUBSET Obj] /\ Whole(World, C, kept, K) /\ K = {}
      /\ ptr \in Fields(Obj) /\ here \in [Dict -> Obj \cup {Nil}] /\ flat \in [Dict -> BOOLEAN]
  BY GoodIs DEF Dtextract
<1>3. D \in [Dict -> SUBSET Obj] /\ D[d] = {} /\ \A e \in Dict : e # d => D[e] = C[e]
  BY <1>1, <1>2
<1>4. PICK h, f : h = [here EXCEPT ![d] = Nil] /\ f = [flat EXCEPT ![d] = FALSE]
  OBVIOUS
<1>5. ptr' = ptr /\ here' = h /\ flat' = f /\ kept' = here[d] /\ view' = view /\ size' = [size EXCEPT ![d] = 0]
  BY <1>4 DEF Dtextract
<1>6. /\ h \in [Dict -> Obj \cup {Nil}] /\ h[d] = Nil /\ (\A e \in Dict : e # d => h[e] = here[e])
      /\ f \in [Dict -> BOOLEAN] /\ ~f[d] /\ (\A e \in Dict : e # d => f[e] = flat[e])
  BY <1>2, <1>4
<1>7. World' \in Worlds /\ World'.ptr = ptr /\ World'.here = h /\ World'.flat = f
  BY <1>2, <1>5, <1>6 DEF World, Worlds
<1>8. /\ \A e \in Dict : Tree(ptr, here[e], C[e]) /\ (flat[e] => Slanted(ptr, C[e]))
      /\ \A e, g \in Dict : e # g => C[e] \cap C[g] = {}
      /\ \A x \in Obj : (\A e \in Dict : x \notin C[e]) => ptr[x] = Blank
  BY <1>2 DEF Whole, World
<1>9. Tree(ptr, Nil, {})
  BY TreeEmpty
<1>10. \A e \in Dict : Tree(ptr, h[e], D[e]) /\ D[e] \cap C[d] = {} /\ (f[e] => Slanted(ptr, D[e]))
  BY <1>3, <1>6, <1>8, <1>9
<1>11. \A e, g \in Dict : e # g => D[e] \cap D[g] = {}
  BY <1>3, <1>8
<1>12. \A x \in Obj : x \notin C[d] /\ (\A e \in Dict : x \notin D[e]) => ptr[x] = Blank
  BY <1>3, <1>8
<1>13. Whole(World', D, here[d], C[d])
  BY <1>3, <1>7, <1>8, <1>10, <1>11, <1>12 DEF Whole
<1>14. size' \in [Dict -> Int] /\ \A e \in Dict : size'[e] \in {-1, Cardinality(D[e])}
  <2>1. Cardinality({}) = 0
    BY FS_EmptySet
  <2> QED BY <1>3, <1>5, <2>1 DEF Good
<1> QED BY <1>1, <1>2, <1>5, <1>13, <1>14 DEF Good

\* What dtrestore puts back, when it does.
LEMMA RestoreGood ==
  ASSUME NEW C, NEW K, Good(World, kept, size, view, C, K), NEW d \in Dict, Dtrestore(d)
  PROVE  /\ UNCHANGED view
         /\ IF kept # Nil /\ size[d] = 0
            THEN C[d] = {} /\ Good(World', kept', size', view', [C EXCEPT ![d] = K], {})
            ELSE Good(World', kept', size', view', C, K)
<1>1. /\ C \in [Dict -> SUBSET Obj] /\ Whole(World, C, kept, K) /\ K \in SUBSET Obj
      /\ ptr \in Fields(Obj) /\ here \in [Dict -> Obj \cup {Nil}] /\ flat \in [Dict -> BOOLEAN]
      /\ kept \in Obj \cup {Nil} /\ (kept = Nil <=> K = {}) /\ Tree(ptr, kept, K)
      /\ (Cardinality(C[d]) = 0 <=> C[d] = {})
  BY GoodIs
<1>2. size \in [Dict -> Int] /\ view \in [Dict -> Dict \cup {Nil}] /\ \A e \in Dict : size[e] \in {-1, Cardinality(C[e])}
  BY DEF Good
<1>3. UNCHANGED <<ptr, view>>
  BY DEF Dtrestore
<1>4. PICK f : f = [flat EXCEPT ![d] = FALSE]
  OBVIOUS
<1>5. f \in [Dict -> BOOLEAN] /\ ~f[d] /\ (\A e \in Dict : e # d => f[e] = flat[e])
  BY <1>1, <1>4
<1>6. CASE kept # Nil /\ size[d] # 0
  <2>1. UNCHANGED <<here, size, flat, kept>>
    BY <1>6 DEF Dtrestore
  <2>2. World' = World
    BY <1>3, <2>1 DEF World
  <2> QED BY <1>3, <1>6, <2>1, <2>2
<1>7. CASE kept = Nil
  <2>1. flat' = f /\ kept' = kept /\ UNCHANGED <<here, size>>
    BY <1>4, <1>7 DEF Dtrestore
  <2>2. \A e \in Dict : f[e] => flat[e]
    BY <1>5
  <2>3. Good(World', kept', size', view', C, K)
    BY <1>2, <1>3, <1>5, <2>1, <2>2, FlatGood
  <2> QED BY <1>3, <1>7, <2>3
<1>8. CASE kept # Nil /\ size[d] = 0
  <2>1. PICK h, D : h = [here EXCEPT ![d] = kept] /\ D = [C EXCEPT ![d] = K]
    OBVIOUS
  <2>2. flat' = f /\ kept' = Nil /\ here' = h /\ size' = [size EXCEPT ![d] = -1]
    BY <1>4, <1>8, <2>1 DEF Dtrestore
  <2>3. Cardinality(C[d]) = 0
    BY <1>2, <1>8
  <2>4. C[d] = {}
    BY <1>1, <2>3
  <2>5. /\ h \in [Dict -> Obj \cup {Nil}] /\ h[d] = kept /\ (\A e \in Dict : e # d => h[e] = here[e])
        /\ D \in [Dict -> SUBSET Obj] /\ D[d] = K /\ (\A e \in Dict : e # d => D[e] = C[e])
    BY <1>1, <2>1
  <2>6. World' \in Worlds /\ World'.ptr = ptr /\ World'.here = h /\ World'.flat = f
    BY <1>1, <1>3, <1>5, <2>2, <2>5 DEF World, Worlds
  <2>7. /\ \A e \in Dict : Tree(ptr, here[e], C[e]) /\ (flat[e] => Slanted(ptr, C[e])) /\ C[e] \cap K = {}
        /\ \A e, g \in Dict : e # g => C[e] \cap C[g] = {}
        /\ \A x \in Obj : x \notin K /\ (\A e \in Dict : x \notin C[e]) => ptr[x] = Blank
    BY <1>1 DEF Whole, World
  <2>8. Tree(ptr, Nil, {})
    BY TreeEmpty
  <2>9. \A e \in Dict : Tree(ptr, h[e], D[e]) /\ D[e] \cap {} = {} /\ (f[e] => Slanted(ptr, D[e]))
    BY <1>1, <1>5, <2>5, <2>7
  <2>10. \A e, g \in Dict : e # g => D[e] \cap D[g] = {}
    BY <2>5, <2>7
  <2>11. \A x \in Obj : x \notin {} /\ (\A e \in Dict : x \notin D[e]) => ptr[x] = Blank
    BY <2>4, <2>5, <2>7
  <2>12. Whole(World', D, Nil, {})
    BY <2>5, <2>6, <2>8, <2>9, <2>10, <2>11 DEF Whole
  <2>13. size' \in [Dict -> Int] /\ \A e \in Dict : size'[e] \in {-1, Cardinality(D[e])}
    BY <1>2, <2>2, <2>5
  <2>14. Good(World', kept', size', view', D, {})
    BY <1>2, <1>3, <2>2, <2>12, <2>13 DEF Good
  <2> QED BY <1>3, <1>8, <2>1, <2>4, <2>14
<1> QED BY <1>6, <1>7, <1>8

LEMMA SizeGood ==
  ASSUME NEW C, NEW K, Good(World, kept, size, view, C, K), NEW d \in Dict, Dtsize(d)
  PROVE  /\ Good(World', kept', size', view', C, K)
         /\ UNCHANGED <<view, kept>>
<1>1. size \in [Dict -> Int] /\ view \in [Dict -> Dict \cup {Nil}] /\ \A e \in Dict : size[e] \in {-1, Cardinality(C[e])}
  BY DEF Good
<1>2. /\ Len(InOrder(ptr, here[d])) = Cardinality(C[d]) /\ Cardinality(C[d]) \in Nat
      /\ flat \in [Dict -> BOOLEAN]
  BY GoodIs, WholeIs DEF World
<1>3. PICK n : n = Len(InOrder(ptr, here[d]))
  OBVIOUS
<1>4. UNCHANGED <<ptr, here, view, kept>> /\ flat' = [flat EXCEPT ![d] = FALSE]
      /\ size' = [size EXCEPT ![d] = IF @ < 0 THEN n ELSE @]
  BY <1>3 DEF Dtsize
<1>5. size' \in [Dict -> Int] /\ \A e \in Dict : size'[e] \in {-1, Cardinality(C[e])}
  BY <1>1, <1>2, <1>3, <1>4
<1>6. PICK f : f = [flat EXCEPT ![d] = FALSE]
  OBVIOUS
<1>7. f \in [Dict -> BOOLEAN] /\ flat' = f /\ \A e \in Dict : f[e] => flat[e]
  BY <1>2, <1>4, <1>6
<1> QED BY <1>1, <1>4, <1>5, <1>7, FlatGood

LEMMA ViewGood ==
  ASSUME NEW C, NEW K, Good(World, kept, size, view, C, K),
         NEW d \in Dict, NEW v \in Dict \cup {Nil}, Dtview(d, v)
  PROVE  /\ Good(World', kept', size', view', C, K)
         /\ UNCHANGED kept /\ view' = IF Sees(v, d) THEN view ELSE [view EXCEPT ![d] = v]
<1>1. size \in [Dict -> Int] /\ view \in [Dict -> Dict \cup {Nil}] /\ \A e \in Dict : size[e] \in {-1, Cardinality(C[e])}
  BY DEF Good
<1>2. flat \in [Dict -> BOOLEAN]
  BY GoodIs
<1>3. UNCHANGED <<ptr, here, size, kept>> /\ view' = IF Sees(v, d) THEN view ELSE [view EXCEPT ![d] = v]
  BY DEF Dtview
<1>4. view' \in [Dict -> Dict \cup {Nil}]
  BY <1>1, <1>3
<1>5. PICK f : f = [e \in Dict |-> flat[e] /\ e \notin {d, v}]
  OBVIOUS
<1>6. f \in [Dict -> BOOLEAN] /\ flat' = f /\ \A e \in Dict : f[e] => flat[e]
  BY <1>2, <1>5 DEF Dtview
<1> QED BY <1>1, <1>3, <1>4, <1>6, FlatGood

-----------------------------------------------------------------------------
(* The abstract specification.                                              *)

\* The sets that the abstract specification is about.
LEMMA ShownIs ==
  ASSUME NEW C, NEW K, Good(World, kept, size, view, C, K)
  PROVE  [d \in Dict |-> Content(d)] = C /\ Objects(ptr, kept) = K
BY GoodIs

LEMMA ShownNext ==
  ASSUME NEW C, NEW K, Good(World', kept', size', view', C, K)
  PROVE  [d \in Dict |-> Content(d)]' = C /\ Objects(ptr', kept') = K
<1>1. Whole(World', C, kept', K) /\ World'.ptr = ptr' /\ World'.here = here'
  BY DEF Good, World
<1>2. K = Objects(ptr', kept') /\ C = [d \in Dict |-> Objects(ptr', here'[d])]
  BY <1>1, WholeIs
<1>3. [d \in Dict |-> Content(d)]' = [d \in Dict |-> Objects(ptr', here'[d])]
  BY DEF Content, Objects
<1> QED BY <1>2, <1>3

LEMMA AbsMet ==
  ASSUME NEW S, NEW o
  PROVE  Abs!Same(S, o) = Met(S, o)
BY DEF Abs!Same, Met

LEMMA AbsBelow ==
  ASSUME NEW d
  PROVE  Abs!Below(d) = Below(d)
<1>0. ASSUME NEW S
      PROVE  Abs!Cardinality(S) = Cardinality(S)
  BY DEF Abs!Cardinality, Cardinality
<1>1. ASSUME NEW n, NEW first, NEW step
      PROVE  Abs!Iterates(n, first, step) = Iterates(n, first, step)
  BY DEF Abs!Iterates, Iterates
<1>2. ASSUME NEW n, NEW first, NEW step, NEW null
      PROVE  Abs!Listed(n, first, step, null) = Listed(n, first, step, null)
  <2>1. PICK at : at = Iterates(n, first, step) /\ at = Abs!Iterates(n, first, step)
    BY <1>1
  <2>2. Listed(n, first, step, null) = [i \in 1 .. Cardinality({k \in 0 .. n - 1 : at[k] # null}) |-> at[i - 1]]
    BY <2>1 DEF Listed
  <2>3. Abs!Listed(n, first, step, null) = [i \in 1 .. Cardinality({k \in 0 .. n - 1 : at[k] # null}) |-> at[i - 1]]
    <3>1. PICK m : m = Cardinality({k \in 0 .. n - 1 : at[k] # null})
      OBVIOUS
    <3>2. Abs!Cardinality({k \in 0 .. n - 1 : at[k] # null}) = m
      BY <1>0, <3>1
    <3>3. Abs!Listed(n, first, step, null) = [i \in 1 .. m |-> at[i - 1]]
      BY <2>1, <3>2 DEF Abs!Listed
    <3> QED BY <3>1, <3>3
  <2> QED BY <2>2, <2>3
<1>3. PICK n, step : n = Cardinality(Dict) /\ step = [e \in Dict \cup {Nil} |-> IF e = Nil THEN Nil ELSE view[e]]
  OBVIOUS
<1>4. Below(d) = Listed(n, d, step, Nil)
  BY <1>3 DEF Below
<1>5. Abs!Below(d) = Abs!Listed(n, d, step, Nil)
  <2>1. Abs!Cardinality(Dict) = n
    BY <1>0, <1>3
  <2> QED BY <1>3, <2>1 DEF Abs!Below
<1> QED BY <1>2, <1>4, <1>5

LEMMA AbsSees ==
  ASSUME NEW d, NEW e
  PROVE  Abs!Sees(d, e) <=> Sees(d, e)
<1>1. Abs!Below(d) = Below(d)
  BY AbsBelow
<1> QED BY <1>1 DEF Abs!Sees, Sees, Abs!Range, Range

\* Where nothing changes that the abstract specification is about.
LEMMA AbsSame ==
  ASSUME NEW C, NEW K, Good(World, kept, size, view, C, K),
         Good(World', kept', size', view', C, K), UNCHANGED view
  PROVE  UNCHANGED Abs!vars
<1>1. [d \in Dict |-> Content(d)]' = [d \in Dict |-> Content(d)] /\ Objects(ptr', kept') = Objects(ptr, kept)
  BY ShownIs, ShownNext
<1>2. Objects(ptr, kept)' = Objects(ptr', kept')
  BY DEF Objects
<1> QED BY <1>1, <1>2 DEF Abs!vars

\* Every step is one of the abstract specification, or changes nothing there.
LEMMA AbsStep ==
  ASSUME NEW C, NEW K, Good(World, kept, size, view, C, K), [Next]_vars
  PROVE  IInv' /\ [Abs!Next]_(Abs!vars)
<1> DEFINE Same2 == Good(World', kept', size', view', C, K) /\ UNCHANGED view
<1>1. Same2 => IInv' /\ [Abs!Next]_(Abs!vars)
  BY AbsSame DEF IInv
<1>2. C = [e \in Dict |-> Content(e)] /\ K = Objects(ptr, kept)
  BY ShownIs
<1>3. ASSUME NEW D, NEW L, Good(World', kept', size', view', D, L)
      PROVE  D = [e \in Dict |-> Content(e)]' /\ L = Objects(ptr, kept)' /\ IInv'
  BY <1>3, ShownNext DEF IInv, Objects
<1>4. C \in [Dict -> SUBSET Obj]
  BY GoodIs
<1>5. ASSUME NEW d \in Dict, NEW o \in Obj, Dtsearch(d, o) PROVE Same2
  BY <1>5, SearchGood DEF Dtsearch
<1>6. ASSUME NEW d \in Dict, NEW o \in Obj, Dtinsert(d, o) PROVE IInv' /\ [Abs!Next]_(Abs!vars)
  <2>1. PICK D : D = [C EXCEPT ![d] = C[d] \cup Kept(C[d], o)]
    OBVIOUS
  <2>2. Good(World', kept', size', view', D, K) /\ UNCHANGED <<view, kept>>
    BY <1>6, <2>1, InsertGood
  <2>3. CASE Met(C[d], o) = {}
    <3>1. Kept(C[d], o) = {o} /\ Abs!Same(C[d], o) = {}
      BY <2>3, AbsMet DEF Kept
    <3>2. D = [C EXCEPT ![d] = @ \cup {o}]
      BY <2>1, <3>1
    <3>3. Abs!Insert(d, o)
      BY <1>2, <1>3, <2>2, <3>1, <3>2 DEF Abs!Insert
    <3> QED BY <1>3, <2>2, <3>3 DEF Abs!Next
  <2>4. CASE Met(C[d], o) # {}
    <3>1. C[d] \cup Kept(C[d], o) = C[d]
      BY <2>4 DEF Kept, Met
    <3>2. D = C
      BY <1>4, <2>1, <3>1
    <3> QED BY <1>1, <2>2, <3>2
  <2> QED BY <2>3, <2>4
<1>7. ASSUME NEW d \in Dict, NEW o \in Obj, Dtdelete(d, o) PROVE IInv' /\ [Abs!Next]_(Abs!vars)
  <2>1. PICK D : D = [C EXCEPT ![d] = C[d] \ Met(C[d], o)]
    OBVIOUS
  <2>2. Good(World', kept', size', view', D, K) /\ UNCHANGED <<view, kept>>
    BY <1>7, <2>1, DeleteGood
  <2>3. D = [C EXCEPT ![d] = @ \ Abs!Same(@, o)]
    BY <2>1, AbsMet
  <2>4. Abs!Delete(d, o)
    BY <1>2, <1>3, <2>2, <2>3 DEF Abs!Delete
  <2> QED BY <1>3, <2>2, <2>4 DEF Abs!Next
<1>8. ASSUME NEW d \in Dict, NEW o \in Obj, NEW s \in Side, Dtmove(d, o, s) PROVE Same2
  BY <1>8, MoveGood DEF Dtmove
<1>9. ASSUME NEW d \in Dict, NEW s \in Side, Dtstart(d, s) PROVE Same2
  BY <1>9, MoveGood DEF Dtstart
<1>10. ASSUME NEW d \in Dict, Dtclear(d) PROVE IInv' /\ [Abs!Next]_(Abs!vars)
  <2>1. Good(World', kept', size', view', [C EXCEPT ![d] = {}], K) /\ UNCHANGED <<view, kept>>
    BY <1>10, ClearGood
  <2>2. Abs!Clear(d)
    BY <1>2, <1>3, <2>1 DEF Abs!Clear
  <2> QED BY <1>3, <2>1, <2>2 DEF Abs!Next
<1>11. ASSUME NEW d \in Dict, Dtflatten(d) PROVE Same2
  BY <1>11, FlattenGood
<1>12. ASSUME NEW d \in Dict, Dtextract(d) PROVE IInv' /\ [Abs!Next]_(Abs!vars)
  <2>1. Good(World', kept', size', view', [C EXCEPT ![d] = {}], C[d]) /\ K = {} /\ UNCHANGED view
    BY <1>12, ExtractGood
  <2>2. Abs!Extract(d)
    BY <1>2, <1>3, <2>1 DEF Abs!Extract
  <2> QED BY <1>3, <2>1, <2>2 DEF Abs!Next
<1>13. ASSUME NEW d \in Dict, Dtrestore(d) PROVE IInv' /\ [Abs!Next]_(Abs!vars)
  <2>1. CASE kept # Nil /\ size[d] = 0
    <3>1. C[d] = {} /\ Good(World', kept', size', view', [C EXCEPT ![d] = K], {}) /\ UNCHANGED view
      BY <1>13, <2>1, RestoreGood
    <3>2. Abs!Restore(d)
      BY <1>2, <1>3, <3>1 DEF Abs!Restore
    <3> QED BY <1>3, <3>1, <3>2 DEF Abs!Next
  <2>2. CASE ~(kept # Nil /\ size[d] = 0)
    <3>1. Good(World', kept', size', view', C, K) /\ UNCHANGED view
      BY <1>13, <2>2, RestoreGood
    <3> QED BY <1>1, <3>1
  <2> QED BY <2>1, <2>2
<1>14. ASSUME NEW d \in Dict, Dtsize(d) PROVE Same2
  BY <1>14, SizeGood
<1>15. ASSUME NEW d \in Dict, NEW v \in Dict \cup {Nil}, Dtview(d, v) PROVE IInv' /\ [Abs!Next]_(Abs!vars)
  <2>1. /\ Good(World', kept', size', view', C, K)
        /\ view' = IF Sees(v, d) THEN view ELSE [view EXCEPT ![d] = v]
    BY <1>15, ViewGood
  <2>2. CASE Sees(v, d)
    BY <1>1, <2>1, <2>2
  <2>3. CASE ~Sees(v, d)
    <3>1. ~Abs!Sees(v, d)
      BY <2>3, AbsSees
    <3>2. Abs!View(d, v)
      BY <1>2, <1>3, <2>1, <2>3, <3>1 DEF Abs!View
    <3> QED BY <1>3, <2>1, <3>2 DEF Abs!Next
  <2> QED BY <2>2, <2>3
<1>16. CASE UNCHANGED vars
  <2>1. World' = World
    BY <1>16 DEF vars, World
  <2>2. Good(World', kept', size', view', C, K) /\ UNCHANGED view
    BY <1>16, <2>1 DEF vars
  <2> QED BY <1>1, <2>2
<1>17. CASE Next
  <2> HIDE DEF Same2
  <2> QED BY <1>1, <1>5, <1>6, <1>7, <1>8, <1>9, <1>10, <1>11, <1>12, <1>13, <1>14, <1>15, <1>17 DEF Next
<1> QED BY <1>16, <1>17

-----------------------------------------------------------------------------
(* What the invariant says.                                                 *)

LEMMA AtMostOne ==
  ASSUME NEW S, \A f, g \in S : f = g
  PROVE  Cardinality(S) <= 1
<1>1. CASE S = {}
  BY <1>1, FS_EmptySet
<1>2. CASE S # {}
  <2>1. PICK f : f \in S
    BY <1>2
  <2>2. S = {f}
    BY <2>1
  <2>3. Cardinality({f}) = 1
    BY FS_Singleton
  <2> QED BY <2>2, <2>3
<1> QED BY <1>1, <1>2

\* A pointer of an object is to another one of its tree, and not to the root.
LEMMA PointersWithin ==
  ASSUME NEW C, NEW K, Good(World, kept, size, view, C, K),
         NEW x \in Obj, NEW s \in Side, NEW o \in Obj, ptr[x][s] = o
  PROVE  \/ x \in K /\ o \in K /\ o # kept
         \/ \E d \in Dict : x \in C[d] /\ o \in C[d] /\ o # here[d]
<1>1. /\ Whole(World, C, kept, K) /\ Tree(ptr, kept, K)
      /\ \A d \in Dict : Tree(ptr, here[d], C[d])
  BY GoodIs
<1>2. o # Nil
  BY ObjIs
<1>3. x \in K \/ \E d \in Dict : x \in C[d]
  <2> SUFFICES ASSUME ptr[x] = Blank PROVE FALSE
    BY <1>1 DEF Whole, World
  <2> QED BY <1>2 DEF Blank, Side
<1>4. CASE x \in K
  BY <1>1, <1>2, <1>4, TreePointers
<1>5. ASSUME NEW d \in Dict, x \in C[d] PROVE o \in C[d] /\ o # here[d]
  <2>1. Tree(ptr, here[d], C[d])
    BY <1>1
  <2> QED BY <1>2, <1>5, <2>1, TreePointers
<1> QED BY <1>3, <1>4, <1>5

LEMMA OnePointer ==
  ASSUME NEW C, NEW K, Good(World, kept, size, view, C, K), NEW o \in Obj
  PROVE  Cardinality(PointersTo(o)) <= 1
<1>1. /\ Tree(ptr, kept, K) /\ \A d \in Dict : Tree(ptr, here[d], C[d])
      /\ \A d \in Dict : C[d] \cap K = {}
      /\ \A d, e \in Dict : d # e => C[d] \cap C[e] = {}
  BY GoodIs DEF Whole
<1>2. o # Nil
  BY ObjIs
<1>3. \A d \in Dict : here[d] = o => o \in C[d]
  BY <1>1, <1>2, TreeRoot
<1>4. kept = o => o \in K
  BY <1>1, <1>2, TreeRoot
<1> DEFINE A == {f \in Obj \X Side : ptr[f[1]][f[2]] = o}
           B == {<<d, "here">> : d \in {e \in Dict : here[e] = o}}
           D == {<<k, "kept">> : k \in {kept} \cap {o}}
<1>5. PointersTo(o) = A \cup B \cup D
  BY DEF PointersTo
<1>6. \A f \in A : f = <<f[1], f[2]>> /\ f[1] \in Obj /\ f[2] \in Side /\ ptr[f[1]][f[2]] = o
  OBVIOUS
<1>7. \A f \in A : \/ f[1] \in K /\ o \in K /\ o # kept
                   \/ \E d \in Dict : f[1] \in C[d] /\ o \in C[d] /\ o # here[d]
  BY <1>6, PointersWithin
<1>8. \A f \in B : \E d \in Dict : f = <<d, "here">> /\ here[d] = o
  OBVIOUS
<1>9. \A f \in D : f = <<o, "kept">> /\ kept = o
  OBVIOUS
<1> HIDE DEF A, B, D
<1>10. ASSUME NEW f \in A, NEW g \in A PROVE f = g
  <2>1. ASSUME NEW r, NEW T, Tree(ptr, r, T), f[1] \in T, g[1] \in T PROVE f = g
    <3>1. f[1] = g[1] /\ f[2] = g[2]
      BY <1>2, <1>6, <2>1, TreePointers
    <3> QED BY <1>6, <3>1
  <2>2. CASE o \in K
    <3>1. f[1] \in K /\ g[1] \in K
      BY <1>1, <1>7, <2>2
    <3> QED BY <1>1, <2>1, <3>1
  <2>3. ASSUME NEW d \in Dict, o \in C[d] PROVE f = g
    <3>1. f[1] \in C[d] /\ g[1] \in C[d]
      BY <1>1, <1>7, <2>3
    <3> QED BY <1>1, <2>1, <3>1
  <2> QED BY <1>7, <2>2, <2>3
<1>11. ASSUME NEW f \in A, NEW g \in B PROVE FALSE
  <2>1. PICK d \in Dict : g = <<d, "here">> /\ here[d] = o
    BY <1>8
  <2>2. o \in C[d]
    BY <1>3, <2>1
  <2> QED BY <1>1, <1>7, <2>1, <2>2
<1>12. ASSUME NEW f \in A, NEW g \in D PROVE FALSE
  BY <1>1, <1>4, <1>7, <1>9
<1>13. ASSUME NEW f \in B, NEW g \in B PROVE f = g
  BY <1>1, <1>3, <1>8
<1>14. ASSUME NEW f \in B, NEW g \in D PROVE FALSE
  BY <1>1, <1>3, <1>4, <1>8, <1>9
<1>15. ASSUME NEW f \in D, NEW g \in D PROVE f = g
  BY <1>9
<1>16. \A f, g \in PointersTo(o) : f = g
  BY <1>5, <1>10, <1>11, <1>12, <1>13, <1>14, <1>15
<1> QED BY <1>16, AtMostOne

LEMMA InOrderBefore ==
  ASSUME NEW p \in Fields(Obj), NEW r, NEW S, Tree(p, r, S)
  PROVE  Before(InOrder(p, r))
<1>1. PICK q : q = InOrder(p, r)
  OBVIOUS
<1>2. Lists(q, S)
  BY <1>1, InOrderIs DEF IsFields
<1>3. DOMAIN q = 1 .. Len(q)
  BY <1>2 DEF Lists
<1> QED BY <1>1, <1>2, <1>3 DEF Lists, Before

LEMMA IInvSound ==
  ASSUME IInv
  PROVE  TreeSound
<1>1. PICK C, K : Good(World, kept, size, view, C, K)
  BY DEF IInv
<1>2. /\ Whole(World, C, kept, K) /\ ptr \in Fields(Obj) /\ Tree(ptr, kept, K)
      /\ \A d \in Dict : Tree(ptr, here[d], C[d])
  BY <1>1, GoodIs
<1>3. \A o \in Obj : Cardinality(PointersTo(o)) <= 1
  BY <1>1, OnePointer
<1>4. ASSUME NEW d \in Dict
      PROVE  /\ Before(InOrder(ptr, here[d]))
             /\ flat[d] => Linked(ptr, here[d]) = InOrder(ptr, here[d])
  <2>1. Tree(ptr, here[d], C[d]) /\ IsFields(ptr)
    BY <1>2 DEF IsFields
  <2>2. flat[d] => Slanted(ptr, C[d])
    BY <1>2 DEF Whole, World
  <2> QED BY <1>2, <2>1, <2>2, InOrderBefore, LinkedIs
<1>5. Before(InOrder(ptr, kept))
  BY <1>2, InOrderBefore
<1> QED BY <1>3, <1>4, <1>5 DEF TreeSound

LEMMA IInvHonest ==
  ASSUME IInv
  PROVE  SizeHonest
<1>1. PICK C, K : Good(World, kept, size, view, C, K)
  BY DEF IInv
<1>2. \A d \in Dict : Len(InOrder(ptr, here[d])) = Cardinality(C[d])
  BY <1>1, GoodIs, WholeIs DEF World
<1> QED BY <1>1, <1>2 DEF Good, SizeHonest

-----------------------------------------------------------------------------
(* The answers.                                                             *)

LEMMA AbsSeen ==
  ASSUME NEW C, NEW K, Good(World, kept, size, view, C, K), NEW d \in Dict
  PROVE  Abs!Seen(d) = SeenTo(C, Below(d), Len(Below(d)))
<1>1. PICK b : b = Below(d)
  OBVIOUS
<1>2. b \in Seq(Dict) /\ Abs!Below(d) = b
  BY <1>1, BelowIn, AbsBelow DEF Good
<1>3. DOMAIN b = 1 .. Len(b)
  BY <1>2
<1>4. [e \in Dict |-> Content(e)] = C
  BY ShownIs
<1>5. Abs!Seen(d) = {x \in Obj : \E i \in DOMAIN b :
                       /\ x \in C[b[i]]
                       /\ \A j \in 1 .. i - 1 : Abs!Same(C[b[j]], x) = {}}
  BY <1>2, <1>4 DEF Abs!Seen
<1> QED BY <1>1, <1>3, <1>5, AbsMet DEF SeenTo

LEMMA SeenIn ==
  ASSUME NEW C, NEW b, NEW n, NEW s \in Side, NEW o \in Obj
  PROVE  /\ SeenTo(C, b, n) \in SUBSET Obj /\ Aside(SeenTo(C, b, n), s, Key[o]) \in SUBSET Obj
         /\ Abs!Beyond(SeenTo(C, b, n), o, s) = Aside(SeenTo(C, b, n), s, Key[o])
BY DEF SeenTo, Aside, KeyPast, Abs!Beyond, Side

LEMMA AbsNearest ==
  ASSUME NEW Q \in SUBSET Obj, NEW s \in Side, NEW got, Heads(got, Q, s)
  PROVE  {got} \ {Nil} = Abs!Nearest(Q, s)
<1>1. CASE got = Nil
  BY <1>1 DEF Heads, Abs!Nearest
<1>2. CASE got # Nil
  <2>1. got \in Q /\ \A y \in Q : y = got \/ Past(s, y, got)
    BY <1>2 DEF Heads
  <2>2. \A y \in Q : Key[y] \in Int
    BY ObjIs
  <2>3. \A x \in Q : x \in Abs!Nearest(Q, s) <=> x = got
    BY <2>1, <2>2 DEF Abs!Nearest, Past, Side
  <2>4. Abs!Nearest(Q, s) \subseteq Q
    BY DEF Abs!Nearest
  <2> QED BY <1>2, <2>1, <2>3, <2>4
<1> QED BY <1>1, <1>2

\* The answer of a call that leaves the trees with the sets they had.
LEMMA HoldsDoes ==
  ASSUME NEW a, NEW C, NEW k, NEW K, Holds(a, C, k, K), NEW d \in Dict, NEW Q, {a.got} \ {Nil} = Q
  PROVE  Does(a, d, C[d], Q)
<1>1. Whole(a.w, C, k, K)
  BY DEF Holds
<1>2. C[d] = Objects(a.w.ptr, a.w.here[d])
  BY <1>1, WholeIs
<1> QED BY <1>2 DEF Does

\* The answer of a call that may change the set of d.
LEMMA BecameDoes ==
  ASSUME NEW a, NEW w, NEW d \in Dict, NEW S, NEW S2, Became(w, a.w, d, S, S2), NEW Q, Gives(a.got, Q)
  PROVE  Does(a, d, S2, Q)
<1>1. Tree(a.w.ptr, a.w.here[d], S2) /\ IsFields(a.w.ptr)
  BY DEF Became, Worlds, IsFields
<1>2. Objects(a.w.ptr, a.w.here[d]) = S2
  BY <1>1, InOrderIs
<1> QED BY <1>2 DEF Does, Gives

LEMMA IInvRight ==
  ASSUME IInv
  PROVE  AnswersRight
<1>1. PICK C, K : Good(World, kept, size, view, C, K)
  BY DEF IInv
<1>2. Whole(World, C, kept, K) /\ World \in Worlds /\ World.ptr = ptr /\ World.here = here
  BY <1>1 DEF Good, Whole, World
<1>3. ASSUME NEW d \in Dict
      PROVE  LET own == Content(d)
                 seen == Abs!Seen(d)
             IN  /\ \A o \in Obj :
                     /\ Does(ViewSearch(World, d, o), d, own, Abs!Same(seen, o))
                     /\ Does(TreeDelete(World, d, o), d, own \ Abs!Same(own, o), Abs!Same(own, o))
                     /\ \A side \in Side :
                         Does(ViewMove(World, d, o, side), d, own,
                              Abs!Nearest(Abs!Beyond(seen, o, side), side))
                     /\ o \notin Taken =>
                         LET same == IF Abs!Same(own, o) = {} THEN {o} ELSE Abs!Same(own, o)
                         IN  Does(TreeInsert(World, d, o), d, own \cup same, same)
                 /\ \A side \in Side :
                     Does(ViewMove(World, d, Nil, side), d, own, Abs!Nearest(seen, side))
                 /\ Freed(ptr, here[d]) = own
  <2>1. PICK S, b, X : S = C[d] /\ b = Below(d) /\ X = SeenTo(C, b, Len(b))
    OBVIOUS
  <2>2. S = Content(d) /\ X = Abs!Seen(d) /\ b \in Seq(Dict) /\ Tree(ptr, here[d], S) /\ ptr \in Fields(Obj)
    BY <1>1, <2>1, GoodIs, AbsSeen, BelowIn DEF Good
  <2>3. ASSUME NEW o \in Obj PROVE Does(ViewSearch(World, d, o), d, S, Abs!Same(X, o))
    <3>1. PICK v : v = ViewSearch(World, d, o)
      OBVIOUS
    <3>2. Holds(v, C, kept, K) /\ Gives(v.got, Met(X, o))
      BY <1>2, <2>1, <2>2, <3>1, ViewSearchIs
    <3>3. Does(v, d, C[d], Met(X, o))
      BY <3>2, HoldsDoes DEF Gives
    <3> QED BY <2>1, <3>1, <3>3, AbsMet
  <2>4. ASSUME NEW o \in Obj
        PROVE  Does(TreeDelete(World, d, o), d, S \ Abs!Same(S, o), Abs!Same(S, o))
    <3>1. PICK a : a = TreeDelete(World, d, o)
      OBVIOUS
    <3>2. Became(World, a.w, d, S, S \ Met(S, o)) /\ Gives(a.got, Met(S, o))
      BY <1>2, <2>2, <3>1, TreeDeleteIs
    <3>3. Does(a, d, S \ Met(S, o), Met(S, o))
      BY <3>2, BecameDoes
    <3> QED BY <3>1, <3>3, AbsMet
  <2>5. ASSUME NEW o \in Obj
        PROVE  LET same == IF Abs!Same(S, o) = {} THEN {o} ELSE Abs!Same(S, o)
               IN  Does(TreeInsert(World, d, o), d, S \cup same, same)
    <3>1. PICK a : a = TreeInsert(World, d, o)
      OBVIOUS
    <3>2. Became(World, a.w, d, S, S \cup Kept(S, o)) /\ Gives(a.got, Kept(S, o))
      BY <1>2, <2>2, <3>1, TreeInsertIs
    <3>3. Does(a, d, S \cup Kept(S, o), Kept(S, o))
      BY <3>2, BecameDoes
    <3>4. Kept(S, o) = IF Abs!Same(S, o) = {} THEN {o} ELSE Abs!Same(S, o)
      BY AbsMet DEF Kept
    <3> QED BY <3>1, <3>3, <3>4
  <2>6. ASSUME NEW o \in Obj, NEW s \in Side
        PROVE  Does(ViewMove(World, d, o, s), d, S, Abs!Nearest(Abs!Beyond(X, o, s), s))
    <3>1. PICK v, Q : v = ViewMove(World, d, o, s) /\ Q = Aside(X, s, Key[o])
      OBVIOUS
    <3>2. Q = Wanted(X, o, s)
      BY <3>1, ObjIs DEF Wanted
    <3>3. Holds(v, C, kept, K) /\ Heads(v.got, Q, s)
      BY <1>2, <2>1, <2>2, <3>1, <3>2, ViewMoveIs
    <3>4. Q \in SUBSET Obj /\ Abs!Beyond(X, o, s) = Q
      BY <2>1, <3>1, SeenIn
    <3>5. {v.got} \ {Nil} = Abs!Nearest(Q, s)
      BY <3>3, <3>4, AbsNearest
    <3>6. Does(v, d, C[d], Abs!Nearest(Q, s))
      BY <3>3, <3>5, HoldsDoes
    <3> QED BY <2>1, <3>1, <3>4, <3>6
  <2>7. ASSUME NEW s \in Side
        PROVE  Does(ViewMove(World, d, Nil, s), d, S, Abs!Nearest(X, s))
    <3>1. PICK v : v = ViewMove(World, d, Nil, s)
      OBVIOUS
    <3>2. X = Wanted(X, Nil, s) /\ X \in SUBSET Obj
      BY <2>1 DEF Wanted, SeenTo
    <3>3. Holds(v, C, kept, K) /\ Heads(v.got, X, s)
      BY <1>2, <2>1, <2>2, <3>1, <3>2, ViewMoveIs
    <3>4. {v.got} \ {Nil} = Abs!Nearest(X, s)
      BY <3>2, <3>3, AbsNearest
    <3>5. Does(v, d, C[d], Abs!Nearest(X, s))
      BY <3>3, <3>4, HoldsDoes
    <3> QED BY <2>1, <3>1, <3>5
  <2>8. Freed(ptr, here[d]) = S
    BY <2>2, FreedIs
  <2> QED BY <2>2, <2>3, <2>4, <2>5, <2>6, <2>7, <2>8
<1> QED BY <1>3 DEF AnswersRight

-----------------------------------------------------------------------------
LEMMA InitIInv ==
  ASSUME Init
  PROVE  IInv
BY InitGood DEF IInv

LEMMA NextIInv ==
  ASSUME IInv, [Next]_vars
  PROVE  IInv' /\ [Abs!Next]_(Abs!vars)
<1>1. PICK C, K : Good(World, kept, size, view, C, K)
  BY DEF IInv
<1> QED BY <1>1, AbsStep

\* The inductive invariant holds in every state.
LEMMA Inductive == Spec => []IInv
<1>1. IInv /\ [Next]_vars => IInv'
  BY NextIInv
<1> QED BY <1>1, InitIInv, PTL DEF Spec

\* After any splay, in whatever direction it turned and wherever it ended, the
\* pointers make trees, each object has one pointer to it at most, a walk meets
\* the objects in the order of their keys, and a flattened tree is a list
\* (dttree.c, dtflatten.c).
THEOREM TreesSound == Spec => []TreeSound
BY Inductive, IInvSound, PTL

\* The count of a dictionary is exact or known to be unknown (dtsize.c,
\* dtextract.c, dtrestore.c).
THEOREM SizesHonest == Spec => []SizeHonest
BY Inductive, IInvHonest, PTL

\* Each call answers the object that its key or its neighbour stands for, through
\* views as well, and changes the set of the dictionary as it should (dttree.c,
\* dtview.c).
THEOREM Answered == Spec => []AnswersRight
BY Inductive, IInvRight, PTL

LEMMA AbsInit ==
  ASSUME Init
  PROVE  Abs!Init
<1>1. Good(World, kept, size, view, [d \in Dict |-> {}], {})
  BY InitGood
<1>2. [d \in Dict |-> Content(d)] = [d \in Dict |-> {}] /\ Objects(ptr, kept) = {}
  BY <1>1, ShownIs
<1> QED BY <1>2 DEF Abs!Init, Init

\* The trees change as ordered sets would: the module of the trees implements
\* DtAbs (dttree.c, dtflatten.c, dtextract.c, dtrestore.c, dtview.c).
THEOREM PromiseKept == Spec => KeepsPromise
<1>1. Init => Abs!Init
  BY AbsInit
<1>2. IInv /\ [Next]_vars => [Abs!Next]_(Abs!vars)
  BY NextIInv
<1> QED BY <1>1, <1>2, Inductive, PTL DEF Spec, KeepsPromise, Abs!Spec

=============================================================================
