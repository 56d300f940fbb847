---------------------------- MODULE AgRecProofs ----------------------------
(***************************************************************************)
(* Theorems about AgRec, for any sets of objects, addresses and names and  *)
(* any client: the records of an object stay in one ring, however it is    *)
(* turned, extended and cut, and the halves of an edge agree on it.        *)
(***************************************************************************)
EXTENDS AgRec, ChainsProofs, SequenceTheorems

-----------------------------------------------------------------------------
(* Circles: lists that nx leads around, from d on.                         *)

IsCircle(d, nx, q) ==
  /\ q \in Seq(Rec)
  /\ \A i, j \in 1 .. Len(q) : q[i] = q[j] => i = j
  /\ Len(q) = 0 => d = NULL
  /\ Len(q) # 0 => d = q[1] /\ nx[q[Len(q)]] = d
  /\ \A i \in 1 .. Len(q) - 1 : nx[q[i]] = q[i + 1]

\* what aggetrec finds from d on
From(d, nx) ==
  LET onward == [r \in Rec \cup {NULL} |->
                   IF r = NULL THEN NULL ELSE IF nx[r] = d THEN NULL ELSE nx[r]]
  IN  Listed(Cardinality(Rec), d, onward, NULL)

\* S are the records that a circle through d has.
Circle(d, nx, S) == \E q : IsCircle(d, nx, q) /\ S = {q[i] : i \in 1 .. Len(q)}

LEMMA FromIs ==
  ASSUME NEW d, NEW nx \in [Rec -> Rec \cup {NULL}], NEW q, IsCircle(d, nx, q)
  PROVE  From(d, nx) = q
<1> DEFINE onward == [r \in Rec \cup {NULL} |->
                        IF r = NULL THEN NULL ELSE IF nx[r] = d THEN NULL ELSE nx[r]]
<1>1. /\ q \in Seq(Rec) /\ Len(q) \in Nat
      /\ \A i \in 1 .. Len(q) : q[i] \in Rec
      /\ \A i, j \in 1 .. Len(q) : q[i] = q[j] => i = j
      /\ Len(q) = 0 => d = NULL
      /\ Len(q) # 0 => d = q[1] /\ nx[q[Len(q)]] = d
      /\ \A i \in 1 .. Len(q) - 1 : nx[q[i]] = q[i + 1]
  BY DEF IsCircle
<1>2. NULL \notin Rec /\ IsFiniteSet(Rec) /\ Cardinality(Rec) \in Nat
  BY RecAssumption, FS_CardinalityType DEF RecAssumption
<1>3. Len(q) <= Cardinality(Rec)
  BY <1>1, <1>2, Short
<1>4. onward[NULL] = NULL
  OBVIOUS
<1>5. \A i \in 1 .. Len(q) - 1 : onward[q[i]] = q[i + 1]
  <2> TAKE i \in 1 .. Len(q) - 1
  <2>1. /\ i \in 1 .. Len(q) /\ i + 1 \in 1 .. Len(q) /\ 1 \in 1 .. Len(q) /\ Len(q) # 0
        /\ i + 1 # 1
    BY <1>1
  <2>2. q[i + 1] # d /\ q[i] # NULL /\ q[i] \in Rec
    BY <1>1, <1>2, <2>1
  <2>3. nx[q[i]] = q[i + 1]
    BY <1>1
  <2> QED BY <2>2, <2>3
<1>6. ASSUME q # <<>> PROVE onward[q[Len(q)]] = NULL
  <2>1. Len(q) # 0 /\ Len(q) \in 1 .. Len(q)
    BY <1>1, <1>6
  <2>2. q[Len(q)] \in Rec /\ nx[q[Len(q)]] = d
    BY <1>1, <2>1
  <2> QED BY <2>2, <1>2
<1>7. q = <<>> => d = NULL
  BY <1>1
<1>8. q # <<>> => d = q[1]
  BY <1>1
<1> HIDE DEF onward
<1>9. Listed(Cardinality(Rec), d, onward, NULL) = q
  BY ONLY <1>1, <1>2, <1>3, <1>4, <1>5, <1>6, <1>7, <1>8, ListIs
<1> QED BY <1>9 DEF From, onward

LEMMA CircleFrom ==
  ASSUME NEW d, NEW nx \in [Rec -> Rec \cup {NULL}], NEW S, Circle(d, nx, S)
  PROVE  /\ ToSet(From(d, nx)) = S
         /\ From(d, nx) # <<>> => nx[Last(From(d, nx))] = d
<1>1. PICK q : IsCircle(d, nx, q) /\ S = {q[i] : i \in 1 .. Len(q)}
  BY DEF Circle
<1>2. From(d, nx) = q
  BY <1>1, FromIs
<1>3. q \in Seq(Rec) /\ DOMAIN q = 1 .. Len(q)
  BY <1>1 DEF IsCircle
<1>4. ToSet(q) = S
  BY <1>1, <1>3 DEF ToSet
<1>5. q # <<>> => Len(q) # 0
  BY <1>3
<1>6. q # <<>> => nx[Last(q)] = d
  BY <1>1, <1>5 DEF IsCircle, Last
<1> QED BY <1>2, <1>4, <1>6

LEMMA CircleStart ==
  ASSUME NEW d, NEW nx, NEW S, Circle(d, nx, S)
  PROVE  S \subseteq Rec /\ (d = NULL => S = {}) /\ (d # NULL => d \in S)
<1>1. PICK q : IsCircle(d, nx, q) /\ S = {q[i] : i \in 1 .. Len(q)}
  BY DEF Circle
<1>2. /\ q \in Seq(Rec) /\ Len(q) \in Nat /\ NULL \notin Rec
      /\ \A i \in 1 .. Len(q) : q[i] \in Rec
  BY <1>1, RecAssumption DEF IsCircle, RecAssumption
<1>3. CASE Len(q) = 0
  <2>1. d = NULL /\ 1 .. Len(q) = {}
    BY <1>1, <1>3 DEF IsCircle
  <2> QED BY <2>1, <1>1
<1>4. CASE Len(q) # 0
  <2>1. 1 \in 1 .. Len(q) /\ d = q[1]
    BY <1>1, <1>2, <1>4 DEF IsCircle
  <2> QED BY <2>1, <1>1, <1>2
<1> QED BY <1>3, <1>4

LEMMA CircleFrame ==
  ASSUME NEW d, NEW nx, NEW S, Circle(d, nx, S),
         NEW ny, \A r \in S : ny[r] = nx[r]
  PROVE  Circle(d, ny, S)
<1>1. PICK q : IsCircle(d, nx, q) /\ S = {q[i] : i \in 1 .. Len(q)}
  BY DEF Circle
<1>2. q \in Seq(Rec) /\ Len(q) \in Nat
  BY <1>1 DEF IsCircle
<1>3. \A i \in 1 .. Len(q) : ny[q[i]] = nx[q[i]]
  BY <1>1
<1>4. Len(q) # 0 => Len(q) \in 1 .. Len(q)
  BY <1>2
<1>5. \A i \in 1 .. Len(q) - 1 : i \in 1 .. Len(q)
  BY <1>2
<1>6. IsCircle(d, ny, q)
  BY <1>1, <1>3, <1>4, <1>5 DEF IsCircle
<1> QED BY <1>1, <1>6 DEF Circle

LEMMA CircleNone == ASSUME NEW nx PROVE Circle(NULL, nx, {})
<1>1. PICK q : q = <<>>
  OBVIOUS
<1>2. q \in Seq(Rec) /\ Len(q) = 0 /\ 1 .. 0 = {} /\ 1 .. 0 - 1 = {}
  BY <1>1
<1>3. IsCircle(NULL, nx, q)
  BY <1>2 DEF IsCircle
<1> QED BY <1>2, <1>3 DEF Circle

LEMMA CircleOne ==
  ASSUME NEW r \in Rec, NEW nx, nx[r] = r
  PROVE  Circle(r, nx, {r})
<1>1. PICK q : q = <<r>>
  OBVIOUS
<1>2. q \in Seq(Rec) /\ Len(q) = 1 /\ q[1] = r /\ 1 .. 1 = {1} /\ 1 .. 1 - 1 = {}
  BY <1>1
<1>3. IsCircle(r, nx, q)
  BY <1>2 DEF IsCircle
<1> QED BY <1>2, <1>3 DEF Circle

\* A circle can be entered at any of its records.
LEMMA CircleTurn ==
  ASSUME NEW d, NEW nx, NEW S, Circle(d, nx, S), NEW r \in S
  PROVE  Circle(r, nx, S)
<1>1. PICK q : IsCircle(d, nx, q) /\ S = {q[i] : i \in 1 .. Len(q)}
  BY DEF Circle
<1>2. PICK k \in 1 .. Len(q) : r = q[k]
  BY <1>1
<1>3. PICK n : n = Len(q)
  OBVIOUS
<1>4. /\ q \in Seq(Rec) /\ n \in Nat /\ n # 0 /\ k \in 1 .. n
      /\ \A i \in 1 .. n : q[i] \in Rec
      /\ \A i, j \in 1 .. n : q[i] = q[j] => i = j
      /\ nx[q[n]] = q[1]
      /\ \A i \in 1 .. n - 1 : nx[q[i]] = q[i + 1]
  BY <1>1, <1>2, <1>3 DEF IsCircle
<1>5. PICK at : at = [j \in 1 .. n |-> IF j + k - 1 <= n THEN j + k - 1 ELSE j + k - 1 - n]
  OBVIOUS
<1>6. \A j \in 1 .. n :
        /\ at[j] \in 1 .. n
        /\ \/ at[j] = j + k - 1
           \/ at[j] = j + k - 1 - n
  BY <1>4, <1>5
<1>7. \A i, j \in 1 .. n : at[i] = at[j] => i = j
  <2> TAKE i, j \in 1 .. n
  <2>1. /\ i \in Int /\ j \in Int /\ k \in Int
        /\ i >= 1 /\ i <= n /\ j >= 1 /\ j <= n
    BY <1>4
  <2>2. /\ at[i] = i + k - 1 \/ at[i] = i + k - 1 - n
        /\ at[j] = j + k - 1 \/ at[j] = j + k - 1 - n
    BY <1>6
  <2>3. i + k - 1 = j + k - 1 - n => FALSE
    BY <2>1, <1>4
  <2>4. j + k - 1 = i + k - 1 - n => FALSE
    BY <2>1, <1>4
  <2>5. i + k - 1 = j + k - 1 => i = j
    BY <2>1
  <2>6. i + k - 1 - n = j + k - 1 - n => i = j
    BY <2>1, <1>4
  <2> QED BY <2>2, <2>3, <2>4, <2>5, <2>6
<1>8. at[1] = k
  BY <1>4, <1>5
<1>9. at[n] # n => at[n] + 1 = k
  BY <1>4, <1>6
<1>10. at[n] = n => k = 1
  BY <1>4, <1>6
<1>11. \A j \in 1 .. n - 1 : j \in 1 .. n /\ j + 1 \in 1 .. n
  BY <1>4
<1>12. \A j \in 1 .. n - 1 : at[j] # n => at[j + 1] = at[j] + 1
  <2> SUFFICES ASSUME NEW j \in 1 .. n - 1, at[j] # n PROVE at[j + 1] = at[j] + 1
    OBVIOUS
  <2>1. CASE j + k - 1 <= n
    <3>1. at[j] = j + k - 1
      BY <2>1, <1>5, <1>11
    <3>2. j + 1 + k - 1 <= n /\ j + 1 + k - 1 = j + k - 1 + 1
      BY <3>1, <2>1, <1>4
    <3>3. at[j + 1] = j + 1 + k - 1
      BY <3>2, <1>5, <1>11
    <3> QED BY <3>1, <3>2, <3>3
  <2>2. CASE ~(j + k - 1 <= n)
    <3>1. at[j] = j + k - 1 - n
      BY <2>2, <1>5, <1>11
    <3>2. ~(j + 1 + k - 1 <= n) /\ j + 1 + k - 1 - n = j + k - 1 - n + 1
      BY <2>2, <1>4
    <3>3. at[j + 1] = j + 1 + k - 1 - n
      BY <3>2, <1>5, <1>11
    <3> QED BY <3>1, <3>2, <3>3
  <2> QED BY <2>1, <2>2
<1>13. \A j \in 1 .. n - 1 : at[j] = n => at[j + 1] = 1
  <2> SUFFICES ASSUME NEW j \in 1 .. n - 1, at[j] = n PROVE at[j + 1] = 1
    OBVIOUS
  <2>1. j + k - 1 = n
    <3>1. at[j] = j + k - 1 \/ at[j] = j + k - 1 - n
      BY <1>6, <1>11
    <3>2. j + k - 1 - n # n
      BY <1>4
    <3> QED BY <3>1, <3>2
  <2>2. ~(j + 1 + k - 1 <= n) /\ j + 1 + k - 1 - n = 1
    BY <2>1, <1>4
  <2>3. at[j + 1] = j + 1 + k - 1 - n
    BY <2>2, <1>5, <1>11
  <2> QED BY <2>2, <2>3
<1>14. \A i \in 1 .. n : \E j \in 1 .. n : at[j] = i
  <2> TAKE i \in 1 .. n
  <2>1. CASE i >= k
    <3>1. i - k + 1 \in 1 .. n /\ at[i - k + 1] = i
      BY <2>1, <1>4, <1>5
    <3> QED BY <3>1
  <2>2. CASE i < k
    <3>1. i - k + 1 + n \in 1 .. n /\ at[i - k + 1 + n] = i
      BY <2>2, <1>4, <1>5
    <3> QED BY <3>1
  <2> QED BY <2>1, <2>2, <1>4
<1>15. PICK p : p = [j \in 1 .. n |-> q[at[j]]]
  OBVIOUS
<1>16. /\ p \in Seq(Rec) /\ Len(p) = n
       /\ \A j \in 1 .. n : p[j] = q[at[j]]
  BY <1>4, <1>6, <1>15
<1>17. \A i, j \in 1 .. n : p[i] = p[j] => i = j
  <2> SUFFICES ASSUME NEW i \in 1 .. n, NEW j \in 1 .. n, p[i] = p[j] PROVE i = j
    OBVIOUS
  <2>1. q[at[i]] = q[at[j]] /\ at[i] \in 1 .. n /\ at[j] \in 1 .. n
    BY <1>6, <1>16
  <2>2. at[i] = at[j]
    BY <2>1, <1>4
  <2> QED BY <2>2, <1>7
<1>18. \A j \in 1 .. n - 1 : nx[p[j]] = p[j + 1]
  <2> TAKE j \in 1 .. n - 1
  <2>1. p[j] = q[at[j]] /\ p[j + 1] = q[at[j + 1]] /\ at[j] \in 1 .. n
    BY <1>6, <1>11, <1>16
  <2>2. CASE at[j] = n
    BY <2>1, <2>2, <1>4, <1>13
  <2>3. CASE at[j] # n
    <3>1. at[j] \in 1 .. n - 1
      BY <2>1, <2>3, <1>4
    <3> QED BY <3>1, <2>1, <2>3, <1>4, <1>12
  <2> QED BY <2>2, <2>3
<1>19. nx[p[n]] = r
  <2>1. n \in 1 .. n /\ p[n] = q[at[n]] /\ at[n] \in 1 .. n
    BY <1>4, <1>6, <1>16
  <2>2. CASE at[n] = n
    BY <2>1, <2>2, <1>2, <1>4, <1>10
  <2>3. CASE at[n] # n
    <3>1. at[n] \in 1 .. n - 1
      BY <2>1, <2>3, <1>4
    <3> QED BY <3>1, <2>1, <2>3, <1>2, <1>4, <1>9
  <2> QED BY <2>2, <2>3
<1>20. r = p[1]
  BY <1>2, <1>4, <1>8, <1>16
<1>21. IsCircle(r, nx, p)
  BY <1>4, <1>16, <1>17, <1>18, <1>19, <1>20 DEF IsCircle
<1>22. S = {p[i] : i \in 1 .. Len(p)}
  <2>1. \A s \in S : \E j \in 1 .. n : p[j] = s
    <3> TAKE s \in S
    <3>1. PICK i \in 1 .. n : s = q[i]
      BY <1>1, <1>3
    <3>2. PICK j \in 1 .. n : at[j] = i
      BY <1>14
    <3> QED BY <3>1, <3>2, <1>16
  <2>2. \A j \in 1 .. n : p[j] \in S
    BY <1>1, <1>3, <1>6, <1>16
  <2> QED BY <2>1, <2>2, <1>16
<1> QED BY <1>21, <1>22 DEF Circle

\* objputrec, of a record that is in no ring
LEMMA CircleInsert ==
  ASSUME NEW d \in Rec, NEW nx \in [Rec -> Rec \cup {NULL}], NEW S, Circle(d, nx, S),
         NEW r \in Rec, r \notin S
  PROVE  Circle(d, [nx EXCEPT ![r] = nx[d], ![d] = r], S \cup {r})
<1>1. PICK q : IsCircle(d, nx, q) /\ S = {q[i] : i \in 1 .. Len(q)}
  BY DEF Circle
<1>2. PICK n : n = Len(q)
  OBVIOUS
<1>3. /\ q \in Seq(Rec) /\ n \in Nat /\ n # 0 /\ d = q[1]
      /\ \A i \in 1 .. n : q[i] \in Rec /\ q[i] # r
      /\ \A i, j \in 1 .. n : q[i] = q[j] => i = j
      /\ nx[q[n]] = d
      /\ \A i \in 1 .. n - 1 : nx[q[i]] = q[i + 1]
  <2>1. d # NULL /\ \A i \in 1 .. n : q[i] # r
    BY <1>1, <1>2, RecAssumption DEF RecAssumption
  <2> QED BY <1>1, <1>2, <2>1 DEF IsCircle
<1>4. PICK ny : ny = [nx EXCEPT ![r] = nx[d], ![d] = r]
  OBVIOUS
<1>5. d # r
  <2>1. 1 \in 1 .. n
    BY <1>3
  <2> QED BY <2>1, <1>3
<1>6. /\ ny[d] = r /\ ny[r] = nx[d]
      /\ \A x \in Rec : x # d /\ x # r => ny[x] = nx[x]
  BY <1>4, <1>5
<1>7. PICK p : p = [j \in 1 .. n + 1 |-> IF j = 1 THEN d ELSE IF j = 2 THEN r ELSE q[j - 1]]
  OBVIOUS
<1>8. /\ Len(p) = n + 1
      /\ p[1] = d /\ p[2] = r
      /\ \A j \in 3 .. n + 1 : p[j] = q[j - 1] /\ j - 1 \in 2 .. n
  BY <1>3, <1>7
<1>9. p \in Seq(Rec)
  <2>1. \A j \in 1 .. n + 1 : p[j] \in Rec
    <3> TAKE j \in 1 .. n + 1
    <3>1. j = 1 \/ j = 2 \/ j \in 3 .. n + 1
      BY <1>3
    <3>2. \A i \in 2 .. n : q[i] \in Rec
      BY <1>3
    <3> QED BY <3>1, <3>2, <1>8
  <2>2. p \in [1 .. n + 1 -> Rec] /\ n + 1 \in Nat
    BY <2>1, <1>3, <1>7
  <2> QED BY <2>2
<1>10. \A i \in 2 .. n : q[i] # d /\ q[i] # r
  <2> TAKE i \in 2 .. n
  <2>1. i \in 1 .. n /\ 1 \in 1 .. n /\ i # 1
    BY <1>3
  <2> QED BY <2>1, <1>3
<1>11. \A i, j \in 1 .. n + 1 : p[i] = p[j] => i = j
  <2> TAKE i, j \in 1 .. n + 1
  <2>1. (i = 1 \/ i = 2 \/ i \in 3 .. n + 1) /\ (j = 1 \/ j = 2 \/ j \in 3 .. n + 1)
    BY <1>3
  <2>2. CASE i \in 3 .. n + 1 /\ j \in 3 .. n + 1
    <3>1. p[i] = q[i - 1] /\ p[j] = q[j - 1] /\ i - 1 \in 1 .. n /\ j - 1 \in 1 .. n
      BY <2>2, <1>8, <1>3
    <3>2. p[i] = p[j] => i - 1 = j - 1
      BY <3>1, <1>3
    <3> QED BY <3>2, <1>3
  <2>3. CASE i \in 3 .. n + 1 /\ j \in {1, 2}
    BY <2>3, <1>8, <1>10
  <2>4. CASE j \in 3 .. n + 1 /\ i \in {1, 2}
    BY <2>4, <1>8, <1>10
  <2>5. CASE i \in {1, 2} /\ j \in {1, 2}
    BY <2>5, <1>5, <1>8
  <2> QED BY <2>1, <2>2, <2>3, <2>4, <2>5
<1>12. ASSUME n = 1 PROVE ny[r] = d
  BY <1>12, <1>3, <1>6
<1>13. ASSUME n # 1 PROVE ny[r] = q[2]
  <2>1. 1 \in 1 .. n - 1 /\ 1 + 1 = 2
    BY <1>13, <1>3
  <2>2. nx[q[1]] = q[2]
    BY <2>1, <1>3
  <2> QED BY <2>2, <1>3, <1>6
<1>14. \A i \in 1 .. n : ny[p[i]] = p[i + 1]
  <2> TAKE i \in 1 .. n
  <2>1. CASE i = 1
    BY <2>1, <1>6, <1>8
  <2>2. CASE i = 2
    <3>1. 3 \in 3 .. n + 1 /\ n # 1 /\ 3 - 1 = 2 /\ 2 + 1 = 3
      BY <2>2, <1>3
    <3>2. p[3] = q[2]
      BY <3>1, <1>8
    <3> QED BY <3>1, <3>2, <2>2, <1>8, <1>13
  <2>3. CASE i # 1 /\ i # 2
    <3>1. i \in 3 .. n + 1 /\ i + 1 \in 3 .. n + 1 /\ i - 1 \in 2 .. n /\ i - 1 \in 1 .. n - 1
          /\ i + 1 - 1 = i - 1 + 1
      BY <2>3, <1>3
    <3>2. p[i] = q[i - 1] /\ p[i + 1] = q[i - 1 + 1]
      BY <3>1, <1>8
    <3>3. nx[q[i - 1]] = q[i - 1 + 1]
      BY <3>1, <1>3
    <3>4. q[i - 1] \in Rec /\ q[i - 1] # d /\ q[i - 1] # r
      BY <3>1, <1>3, <1>10
    <3> QED BY <3>2, <3>3, <3>4, <1>6
  <2> QED BY <2>1, <2>2, <2>3
<1>15. ny[p[n + 1]] = d
  <2>1. CASE n = 1
    <3>1. n + 1 = 2
      BY <2>1
    <3> QED BY <3>1, <2>1, <1>8, <1>12
  <2>2. CASE n # 1
    <3>1. n + 1 \in 3 .. n + 1 /\ n \in 2 .. n /\ n + 1 - 1 = n
      BY <2>2, <1>3
    <3>2. p[n + 1] = q[n] /\ q[n] \in Rec /\ q[n] # d /\ q[n] # r
      BY <3>1, <1>3, <1>8, <1>10
    <3> QED BY <3>2, <1>3, <1>6
  <2> QED BY <2>1, <2>2
<1>16. IsCircle(d, ny, p)
  <2>1. Len(p) = n + 1 /\ n + 1 # 0 /\ n + 1 - 1 = n
    BY <1>3, <1>8
  <2>2. Len(p) = 0 => d = NULL
    BY <2>1
  <2>3. \A i, j \in 1 .. Len(p) : p[i] = p[j] => i = j
    BY <2>1, <1>11
  <2>4. \A i \in 1 .. Len(p) - 1 : ny[p[i]] = p[i + 1]
    <3>1. Len(p) - 1 = n
      BY <2>1, <1>3
    <3> QED BY <3>1, <1>14
  <2>5. d = p[1] /\ ny[p[Len(p)]] = d
    BY <2>1, <1>8, <1>15
  <2> QED BY <1>9, <2>2, <2>3, <2>4, <2>5 DEF IsCircle
<1>17. S \cup {r} = {p[i] : i \in 1 .. Len(p)}
  <2>1. \A i \in 1 .. n + 1 : p[i] \in S \cup {r}
    <3> TAKE i \in 1 .. n + 1
    <3>1. i = 1 \/ i = 2 \/ i \in 3 .. n + 1
      BY <1>3
    <3>2. \A k \in 2 .. n : q[k] \in S
      BY <1>1, <1>2, <1>3
    <3>3. d \in S
      BY <1>1, <1>2, <1>3
    <3> QED BY <3>1, <3>2, <3>3, <1>8
  <2>2. \A i \in 1 .. n : \E j \in 1 .. n + 1 : p[j] = q[i]
    <3> TAKE i \in 1 .. n
    <3>1. CASE i = 1
      <4>1. 1 \in 1 .. n + 1
        BY <1>3
      <4> QED BY <4>1, <3>1, <1>3, <1>8
    <3>2. CASE i # 1
      <4>1. i + 1 \in 3 .. n + 1 /\ i + 1 \in 1 .. n + 1 /\ i + 1 - 1 = i
        BY <3>2, <1>3
      <4>2. p[i + 1] = q[i]
        BY <4>1, <1>8
      <4> QED BY <4>1, <4>2
    <3> QED BY <3>1, <3>2
  <2>3. 2 \in 1 .. n + 1
    BY <1>3
  <2>4. \E j \in 1 .. n + 1 : p[j] = r
    BY <2>3, <1>8
  <2>5. \A s \in S : \E j \in 1 .. n + 1 : p[j] = s
    <3> TAKE s \in S
    <3>1. PICK i \in 1 .. n : s = q[i]
      BY <1>1, <1>2
    <3> QED BY <3>1, <2>2
  <2> QED BY <2>1, <2>4, <2>5, <1>8
<1> QED BY <1>4, <1>16, <1>17 DEF Circle

\* objdelrec and listdelrec, of the record that the circle is entered at
LEMMA CircleRemove ==
  ASSUME NEW r \in Rec, NEW nx \in [Rec -> Rec \cup {NULL}], NEW S, Circle(r, nx, S),
         NEW ny, \A x \in S : x # r => ny[x] = IF nx[x] = r THEN nx[r] ELSE nx[x]
  PROVE  Circle(IF nx[r] = r THEN NULL ELSE nx[r], ny, S \ {r})
<1>1. PICK q : IsCircle(r, nx, q) /\ S = {q[i] : i \in 1 .. Len(q)}
  BY DEF Circle
<1>2. PICK n : n = Len(q)
  OBVIOUS
<1>3. /\ q \in Seq(Rec) /\ n \in Nat /\ n # 0 /\ r = q[1]
      /\ \A i \in 1 .. n : q[i] \in Rec
      /\ \A i, j \in 1 .. n : q[i] = q[j] => i = j
      /\ nx[q[n]] = r
      /\ \A i \in 1 .. n - 1 : nx[q[i]] = q[i + 1]
  <2>1. r # NULL
    BY RecAssumption DEF RecAssumption
  <2> QED BY <1>1, <1>2, <2>1 DEF IsCircle
<1>4. CASE n = 1
  <2>1. nx[r] = r
    BY <1>3, <1>4
  <2>2. S = {r}
    <3>1. 1 .. Len(q) = {1}
      BY <1>2, <1>4
    <3> QED BY <3>1, <1>1, <1>3
  <2>3. S \ {r} = {}
    BY <2>2
  <2> QED BY <2>1, <2>3, CircleNone
<1>5. CASE n # 1
  <2>1. /\ 1 \in 1 .. n - 1 /\ 2 \in 1 .. n /\ 1 \in 1 .. n /\ 1 + 1 = 2
        /\ n - 1 \in Nat /\ n - 1 # 0 /\ n \in 2 .. n
    BY <1>3, <1>5
  <2>2. nx[r] = q[2] /\ q[2] # r
    <3>1. nx[q[1]] = q[2]
      BY <2>1, <1>3
    <3>2. q[2] # q[1]
      BY <2>1, <1>3
    <3> QED BY <3>1, <3>2, <1>3
  <2>3. PICK p : p = [j \in 1 .. n - 1 |-> q[j + 1]]
    OBVIOUS
  <2>4. \A j \in 1 .. n - 1 : p[j] = q[j + 1] /\ j + 1 \in 1 .. n /\ j + 1 \in 2 .. n /\ j \in 1 .. n
    BY <2>1, <2>3, <1>3
  <2>5. p \in Seq(Rec) /\ Len(p) = n - 1
    <3>1. \A j \in 1 .. n - 1 : p[j] \in Rec
      BY <2>4, <1>3
    <3>2. p \in [1 .. n - 1 -> Rec]
      BY <3>1, <2>3
    <3> QED BY <3>2, <2>1, <2>3
  <2>6. \A i \in 2 .. n : i \in 1 .. n /\ q[i] # r /\ q[i] \in S
    <3> TAKE i \in 2 .. n
    <3>1. i \in 1 .. n /\ i # 1
      BY <1>3
    <3>2. q[i] # q[1]
      BY <3>1, <2>1, <1>3
    <3> QED BY <3>1, <3>2, <1>1, <1>2, <1>3
  <2>7. \A i, j \in 1 .. n - 1 : p[i] = p[j] => i = j
    <3> SUFFICES ASSUME NEW i \in 1 .. n - 1, NEW j \in 1 .. n - 1, p[i] = p[j] PROVE i = j
      OBVIOUS
    <3>1. q[i + 1] = q[j + 1] /\ i + 1 \in 1 .. n /\ j + 1 \in 1 .. n
      BY <2>4
    <3>2. i + 1 = j + 1
      BY <3>1, <1>3
    <3> QED BY <3>2
  <2>8. \A i \in 1 .. n - 1 - 1 : ny[p[i]] = p[i + 1]
    <3> TAKE i \in 1 .. n - 1 - 1
    <3>1. i \in 1 .. n - 1 /\ i + 1 \in 1 .. n - 1 /\ i + 1 + 1 \in 2 .. n
      BY <2>1, <1>3
    <3>2. p[i] = q[i + 1] /\ p[i + 1] = q[i + 1 + 1] /\ i + 1 \in 2 .. n
      BY <3>1, <2>4
    <3>3. nx[q[i + 1]] = q[i + 1 + 1]
      BY <3>1, <1>3
    <3>4. q[i + 1 + 1] # r /\ q[i + 1] # r /\ q[i + 1] \in S
      BY <3>1, <3>2, <2>6
    <3>5. ny[q[i + 1]] = nx[q[i + 1]]
      BY <3>3, <3>4
    <3> QED BY <3>2, <3>3, <3>5
  <2>9. ny[p[n - 1]] = q[2]
    <3>1. n - 1 \in 1 .. n - 1 /\ n - 1 + 1 = n
      BY <2>1
    <3>2. p[n - 1] = q[n]
      BY <3>1, <2>4
    <3>3. q[n] \in S /\ q[n] # r /\ nx[q[n]] = r
      BY <2>1, <2>6, <1>3
    <3>4. ny[q[n]] = nx[r]
      BY <3>3
    <3> QED BY <3>2, <3>4, <2>2
  <2>10. p[1] = q[2]
    BY <2>1, <2>4
  <2>11. IsCircle(q[2], ny, p)
    <3>1. Len(p) = 0 => q[2] = NULL
      BY <2>1, <2>5
    <3>2. \A i, j \in 1 .. Len(p) : p[i] = p[j] => i = j
      BY <2>5, <2>7
    <3>3. \A i \in 1 .. Len(p) - 1 : ny[p[i]] = p[i + 1]
      BY <2>5, <2>8
    <3>4. q[2] = p[1] /\ ny[p[Len(p)]] = q[2]
      BY <2>5, <2>9, <2>10
    <3> QED BY <2>5, <3>1, <3>2, <3>3, <3>4 DEF IsCircle
  <2>12. S \ {r} = {p[i] : i \in 1 .. Len(p)}
    <3>1. \A j \in 1 .. n - 1 : p[j] \in S \ {r}
      BY <2>4, <2>6
    <3>2. \A s \in S \ {r} : \E j \in 1 .. n - 1 : p[j] = s
      <4> TAKE s \in S \ {r}
      <4>1. PICK i \in 1 .. n : s = q[i]
        BY <1>1, <1>2
      <4>2. i # 1
        BY <4>1, <1>3
      <4>3. i - 1 \in 1 .. n - 1 /\ i - 1 + 1 = i
        BY <4>2, <1>3
      <4>4. p[i - 1] = q[i - 1 + 1]
        BY <4>3, <2>4
      <4> QED BY <4>1, <4>3, <4>4
    <3> QED BY <3>1, <3>2, <2>5
  <2>13. Circle(q[2], ny, S \ {r})
    BY <2>11, <2>12 DEF Circle
  <2> QED BY <2>2, <2>13
<1> QED BY <1>4, <1>5

LEMMA CircleNext ==
  ASSUME NEW d, NEW nx, NEW S, Circle(d, nx, S), NEW r \in S
  PROVE  nx[r] \in S
<1>1. PICK q : IsCircle(d, nx, q) /\ S = {q[i] : i \in 1 .. Len(q)}
  BY DEF Circle
<1>2. PICK k \in 1 .. Len(q) : r = q[k]
  BY <1>1
<1>3. Len(q) \in Nat /\ Len(q) # 0
  BY <1>2, <1>1 DEF IsCircle
<1>4. CASE k = Len(q)
  <2>1. nx[r] = q[1] /\ 1 \in 1 .. Len(q)
    BY <1>1, <1>2, <1>3, <1>4 DEF IsCircle
  <2> QED BY <2>1, <1>1
<1>5. CASE k # Len(q)
  <2>1. k \in 1 .. Len(q) - 1 /\ k + 1 \in 1 .. Len(q)
    BY <1>3, <1>5
  <2>2. nx[r] = q[k + 1]
    BY <2>1, <1>1, <1>2 DEF IsCircle
  <2> QED BY <2>1, <2>2, <1>1
<1> QED BY <1>4, <1>5

-----------------------------------------------------------------------------
(* The invariant.                                                          *)

Header == [data : Rec \cup {NULL}, lock : BOOLEAN]
Halves(h) == {h, Opp[h]}

\* The data pointers H and the next fields nx make a circle of the records S[h]
\* of each h, the halves of an edge agree, and a lock is on a record.
Sound(H, nx, S) ==
  /\ H \in [Hdr -> Header]
  /\ \A h \in Hdr : Circle(H[h].data, nx, S[h])
  /\ \A h \in Hdr : H[Opp[h]] = H[h] /\ S[Opp[h]] = S[h]
  /\ \A h \in Hdr : H[h].lock => H[h].data # NULL
  /\ \A h, k \in Hdr : k \notin Halves(h) => S[h] \cap S[k] = {}

\* S[h] are the records of each object h: all that are allocated, and the names
\* of an object's records differ.
Holds(S) ==
  /\ next \in [Rec -> Rec \cup {NULL}]
  /\ name \in [Rec -> Name \cup {NULL}]
  /\ Sound(hdr, next, S)
  /\ allocated = UNION {S[h] : h \in Hdr}
  /\ \A r \in allocated : name[r] \in Name
  /\ \A h \in Hdr : \A r, s \in S[h] : name[r] = name[s] => r = s

Inv == \E S \in [Hdr -> SUBSET Rec] : Holds(S)

LEMMA Opposite ==
  ASSUME NEW h \in Hdr
  PROVE  /\ Opp[h] \in Hdr /\ Opp[Opp[h]] = h
         /\ \A k \in Hdr : k \in Halves(h) <=> Opp[k] \in Halves(h)
BY RecAssumption DEF RecAssumption, Halves

LEMMA RingIs == \A h \in Hdr : Ring(h) = From(hdr[h].data, next)
BY DEF Ring, From

LEMMA SetDataIs ==
  ASSUME NEW H \in [Hdr -> Header], NEW h \in Hdr, NEW r \in Rec \cup {NULL}, NEW b \in BOOLEAN
  PROVE  /\ SetData(H, h, r, b) \in [Hdr -> Header]
         /\ \A k \in Halves(h) : SetData(H, h, r, b)[k] = [data |-> r, lock |-> b]
         /\ \A k \in Hdr : k \notin Halves(h) => SetData(H, h, r, b)[k] = H[k]
<1>1. [data |-> r, lock |-> b] \in Header
  BY DEF Header
<1>2. Opp[h] \in Hdr
  BY Opposite
<1>3. PICK d : d = [data |-> r, lock |-> b]
  OBVIOUS
<1>4. SetData(H, h, r, b) = [H EXCEPT ![h] = d, ![Opp[h]] = d]
  BY <1>3 DEF SetData
<1> QED BY <1>1, <1>2, <1>3, <1>4 DEF Halves

\* The records of h become T[h] and those of other objects stay, in their order.
Elsewhere(S, T, h, nx, ny) ==
  /\ \A k \in Halves(h) : T[k] = T[h]
  /\ \A k \in Hdr :
       k \notin Halves(h) =>
         T[k] = S[k] /\ T[h] \cap S[k] = {} /\ \A x \in S[k] : ny[x] = nx[x]

\* What has to be seen of a step that gives the circle of h a new front.
LEMMA SoundAfter ==
  ASSUME NEW H, NEW nx, NEW S, Sound(H, nx, S), NEW h \in Hdr, NEW r \in Rec \cup {NULL},
         NEW b \in BOOLEAN, b => r # NULL, NEW ny, NEW T,
         Elsewhere(S, T, h, nx, ny),
         Circle(r, ny, T[h])
  PROVE  Sound(SetData(H, h, r, b), ny, T)
<1>1. PICK J : J = SetData(H, h, r, b)
  OBVIOUS
<1> USE DEF Elsewhere
<1>2. /\ J \in [Hdr -> Header]
      /\ \A k \in Halves(h) : J[k] = [data |-> r, lock |-> b]
      /\ \A k \in Hdr : k \notin Halves(h) => J[k] = H[k]
  <2>1. H \in [Hdr -> Header]
    BY DEF Sound
  <2>2. /\ SetData(H, h, r, b) \in [Hdr -> Header]
        /\ \A k \in Halves(h) : SetData(H, h, r, b)[k] = [data |-> r, lock |-> b]
        /\ \A k \in Hdr : k \notin Halves(h) => SetData(H, h, r, b)[k] = H[k]
    BY ONLY <2>1, h \in Hdr, r \in Rec \cup {NULL}, b \in BOOLEAN, SetDataIs
  <2> QED BY <1>1, <2>2
<1>3. \A k \in Hdr : Circle(J[k].data, ny, T[k])
  <2> TAKE k \in Hdr
  <2>1. CASE k \in Halves(h)
    <3>1. J[k].data = r /\ T[k] = T[h]
      BY <1>2, <2>1
    <3> QED BY <3>1
  <2>2. CASE k \notin Halves(h)
    <3>1. J[k] = H[k] /\ T[k] = S[k] /\ \A x \in S[k] : ny[x] = nx[x]
      BY <1>2, <2>2
    <3>2. Circle(H[k].data, nx, S[k])
      BY DEF Sound
    <3>3. Circle(H[k].data, ny, S[k])
      BY <3>1, <3>2, CircleFrame
    <3> QED BY <3>1, <3>3
  <2> QED BY <2>1, <2>2
<1>4. \A k \in Hdr : J[Opp[k]] = J[k] /\ T[Opp[k]] = T[k]
  <2> TAKE k \in Hdr
  <2>1. Opp[k] \in Hdr /\ (k \in Halves(h) <=> Opp[k] \in Halves(h))
    BY Opposite
  <2>2. CASE k \in Halves(h)
    BY <1>2, <2>1, <2>2
  <2>3. CASE k \notin Halves(h)
    <3>1. H[Opp[k]] = H[k] /\ S[Opp[k]] = S[k]
      BY DEF Sound
    <3> QED BY <1>2, <2>1, <2>3, <3>1
  <2> QED BY <2>2, <2>3
<1>5. \A k \in Hdr : J[k].lock => J[k].data # NULL
  BY <1>2 DEF Sound
<1>6. \A j, k \in Hdr : k \notin Halves(j) => T[j] \cap T[k] = {}
  <2> SUFFICES ASSUME NEW j \in Hdr, NEW k \in Hdr, k \notin Halves(j)
               PROVE  T[j] \cap T[k] = {}
    OBVIOUS
  <2>1. j \notin Halves(k)
    BY RecAssumption DEF RecAssumption, Halves
  <2>2. CASE j \in Halves(h)
    <3>1. k \notin Halves(h)
      BY <2>2, RecAssumption DEF RecAssumption, Halves
    <3> QED BY <2>2, <3>1
  <2>3. CASE k \in Halves(h)
    <3>1. j \notin Halves(h)
      BY <2>1, <2>3, RecAssumption DEF RecAssumption, Halves
    <3> QED BY <2>3, <3>1
  <2>4. CASE j \notin Halves(h) /\ k \notin Halves(h)
    <3>1. S[j] \cap S[k] = {}
      BY DEF Sound
    <3> QED BY <2>4, <3>1
  <2> QED BY <2>2, <2>3, <2>4
<1>7. Sound(J, ny, T)
  BY <1>2, <1>3, <1>4, <1>5, <1>6 DEF Sound
<1> QED BY <1>1, <1>7

LEMMA ToFrontSound ==
  ASSUME NEW H, NEW nx, NEW S, Sound(H, nx, S), NEW h \in Hdr, NEW r \in S[h] \cup {NULL},
         NEW mtf \in BOOLEAN
  PROVE  Sound(ToFront(H, h, r, mtf), nx, S)
<1>1. CASE r = NULL \/ H[h].lock \/ (H[h].data = r /\ ~mtf)
  BY <1>1 DEF ToFront
<1>2. CASE ~(r = NULL \/ H[h].lock \/ (H[h].data = r /\ ~mtf))
  <2>1. ToFront(H, h, r, mtf) = SetData(H, h, r, mtf)
    BY <1>2 DEF ToFront
  <2>2. r \in S[h] /\ Circle(H[h].data, nx, S[h])
    BY <1>2 DEF Sound
  <2>3. Circle(r, nx, S[h]) /\ r \in Rec
    BY <2>2, CircleTurn, CircleStart
  <2>4. \A k \in Halves(h) : S[k] = S[h]
    BY DEF Sound, Halves
  <2>5. \A k \in Hdr : k \notin Halves(h) => S[h] \cap S[k] = {}
    BY DEF Sound
  <2>6. Elsewhere(S, S, h, nx, nx)
    BY <2>4, <2>5 DEF Elsewhere
  <2>7. mtf => r # NULL
    BY <1>2
  <2>8. Sound(SetData(H, h, r, mtf), nx, S)
    BY ONLY h \in Hdr, mtf \in BOOLEAN, Sound(H, nx, S), <2>3, <2>6, <2>7, SoundAfter
  <2> QED BY <2>1, <2>8
<1> QED BY <1>1, <1>2

\* A header that is set to what it is does not change.
LEMMA SetDataSame ==
  ASSUME NEW H, NEW nx, NEW S, Sound(H, nx, S), NEW h \in Hdr
  PROVE  /\ SetData(H, h, H[h].data, H[h].lock) = H
         /\ H[h].data \in Rec \cup {NULL} /\ H[h].lock \in BOOLEAN
<1>1. H \in [Hdr -> Header] /\ H[h] \in Header
  BY DEF Sound
<1>2. H[h].data \in Rec \cup {NULL} /\ H[h].lock \in BOOLEAN
  BY <1>1 DEF Header
<1>3. [data |-> H[h].data, lock |-> H[h].lock] = H[h]
  BY <1>1 DEF Header
<1>4. H[Opp[h]] = H[h]
  BY DEF Sound
<1>5. PICK J : J = SetData(H, h, H[h].data, H[h].lock)
  OBVIOUS
<1>6. /\ J \in [Hdr -> Header]
      /\ \A k \in Halves(h) : J[k] = [data |-> H[h].data, lock |-> H[h].lock]
      /\ \A k \in Hdr : k \notin Halves(h) => J[k] = H[k]
  <2>1. /\ SetData(H, h, H[h].data, H[h].lock) \in [Hdr -> Header]
        /\ \A k \in Halves(h) :
             SetData(H, h, H[h].data, H[h].lock)[k] = [data |-> H[h].data, lock |-> H[h].lock]
        /\ \A k \in Hdr : k \notin Halves(h) => SetData(H, h, H[h].data, H[h].lock)[k] = H[k]
    BY ONLY <1>1, <1>2, h \in Hdr, SetDataIs
  <2> QED BY <1>5, <2>1
<1>7. \A k \in Hdr : J[k] = H[k]
  BY <1>3, <1>4, <1>6 DEF Halves
<1>8. J = H
  BY <1>1, <1>6, <1>7
<1> QED BY <1>2, <1>5, <1>8

\* the records of each object when those of h are X
Given(S, h, X) == [k \in Hdr |-> IF k \in Halves(h) THEN X ELSE S[k]]

LEMMA GivenIs ==
  ASSUME NEW S \in [Hdr -> SUBSET Rec], NEW h \in Hdr, NEW X \in SUBSET Rec
  PROVE  /\ Given(S, h, X) \in [Hdr -> SUBSET Rec]
         /\ Given(S, h, X)[h] = X
         /\ \A k \in Halves(h) : Given(S, h, X)[k] = X
         /\ \A k \in Hdr : k \notin Halves(h) => Given(S, h, X)[k] = S[k]
<1>1. Opp[h] \in Hdr
  BY Opposite
<1> QED BY <1>1 DEF Given, Halves

LEMMA GivenUnion ==
  ASSUME NEW S \in [Hdr -> SUBSET Rec], NEW h \in Hdr, NEW X \in SUBSET Rec,
         S[Opp[h]] = S[h], \A k \in Hdr : k \notin Halves(h) => S[h] \cap S[k] = {}
  PROVE  UNION {Given(S, h, X)[k] : k \in Hdr} = ((UNION {S[k] : k \in Hdr}) \ S[h]) \cup X
<1>1. PICK T : T = Given(S, h, X)
  OBVIOUS
<1>2. /\ T[h] = X
      /\ \A k \in Halves(h) : T[k] = X
      /\ \A k \in Hdr : k \notin Halves(h) => T[k] = S[k]
  BY <1>1, GivenIs
<1>3. \A k \in Halves(h) : S[k] = S[h]
  BY DEF Halves
<1>4. \A x : x \in UNION {T[k] : k \in Hdr} <=> x \in ((UNION {S[k] : k \in Hdr}) \ S[h]) \cup X
  <2> TAKE x
  <2>1. ASSUME NEW k \in Hdr, x \in T[k]
        PROVE  x \in ((UNION {S[j] : j \in Hdr}) \ S[h]) \cup X
    BY <1>2, <2>1
  <2>2. ASSUME NEW k \in Hdr, x \in S[k], x \notin S[h]
        PROVE  x \in T[k]
    BY <1>2, <1>3, <2>2
  <2>3. x \in X => x \in T[h]
    BY <1>2
  <2> QED BY <2>1, <2>2, <2>3
<1> QED BY <1>1, <1>4

LEMMA PutSound ==
  ASSUME next \in [Rec -> Rec \cup {NULL}],
         NEW S \in [Hdr -> SUBSET Rec], Sound(hdr, next, S), NEW h \in Hdr,
         NEW r \in Rec, \A k \in Hdr : r \notin S[k]
  PROVE  Sound(IF hdr[h].lock THEN hdr ELSE SetData(hdr, h, r, FALSE), Put(h, r),
               Given(S, h, S[h] \cup {r}))
<1>1. PICK d : d = hdr[h].data
  OBVIOUS
<1>2. PICK T : T = Given(S, h, S[h] \cup {r})
  OBVIOUS
<1>3. PICK ny : ny = Put(h, r)
  OBVIOUS
<1>4. /\ T[h] = S[h] \cup {r}
      /\ \A k \in Halves(h) : T[k] = T[h]
      /\ \A k \in Hdr : k \notin Halves(h) => T[k] = S[k]
  BY <1>2, GivenIs
<1>5. Circle(d, next, S[h]) /\ (hdr[h].lock => d # NULL)
  BY <1>1 DEF Sound
<1>6. (d = NULL => S[h] = {}) /\ (d # NULL => d \in S[h] /\ d \in Rec)
  BY <1>5, CircleStart
<1>7. \A k \in Hdr : k \notin Halves(h) => T[h] \cap S[k] = {}
  BY <1>4 DEF Sound
<1>8. \A k \in Hdr : k \notin Halves(h) => \A x \in S[k] : ny[x] = next[x]
  <2> SUFFICES ASSUME NEW k \in Hdr, k \notin Halves(h), NEW x \in S[k] PROVE ny[x] = next[x]
    OBVIOUS
  <2>1. x \in Rec /\ x # r /\ x \notin S[h]
    BY <1>7, <1>4
  <2>2. CASE d = NULL
    BY <2>1, <2>2, <1>1, <1>3 DEF Put
  <2>3. CASE d # NULL
    BY <2>1, <2>3, <1>1, <1>3, <1>6 DEF Put
  <2> QED BY <2>2, <2>3
<1>e. Elsewhere(S, T, h, next, ny)
  BY <1>4, <1>7, <1>8 DEF Elsewhere
<1>9. Circle(r, ny, T[h]) /\ (d # NULL => Circle(d, ny, T[h]))
  <2>1. CASE d = NULL
    <3>1. T[h] = {r}
      BY <2>1, <1>4, <1>6
    <3>2. ny[r] = r
      BY <2>1, <1>1, <1>3 DEF Put
    <3> QED BY <2>1, <3>1, <3>2, CircleOne
  <2>2. CASE d # NULL
    <3>1. ny = [next EXCEPT ![r] = next[d], ![d] = r]
      BY <2>2, <1>1, <1>3 DEF Put
    <3>2. Circle(d, [next EXCEPT ![r] = next[d], ![d] = r], S[h] \cup {r})
      <4>1. d \in Rec /\ r \notin S[h] /\ next \in [Rec -> Rec \cup {NULL}]
        BY <2>2, <1>6
      <4> QED BY ONLY <4>1, <1>5, r \in Rec, CircleInsert
    <3>3. r \in T[h] /\ Circle(d, ny, T[h])
      BY <1>4, <3>1, <3>2
    <3> QED BY <3>3, CircleTurn
  <2> QED BY <2>1, <2>2
<1>10. CASE hdr[h].lock
  <2>1. SetData(hdr, h, d, hdr[h].lock) = hdr /\ d \in Rec \cup {NULL} /\ hdr[h].lock \in BOOLEAN
    BY <1>1, SetDataSame
  <2>2. Circle(d, ny, T[h]) /\ d # NULL
    BY <1>5, <1>9, <1>10
  <2>3. Sound(SetData(hdr, h, d, hdr[h].lock), ny, T)
    BY ONLY h \in Hdr, Sound(hdr, next, S), <2>1, <2>2, <1>e, SoundAfter
  <2> QED BY <2>1, <2>3, <1>2, <1>3, <1>10
<1>11. CASE ~hdr[h].lock
  <2>1. Sound(SetData(hdr, h, r, FALSE), ny, T)
    BY ONLY h \in Hdr, r \in Rec, Sound(hdr, next, S), <1>e, <1>9, SoundAfter
  <2> QED BY <2>1, <1>2, <1>3, <1>11
<1> QED BY <1>10, <1>11

LEMMA MoveOffSound ==
  ASSUME next \in [Rec -> Rec \cup {NULL}],
         NEW H, NEW S \in [Hdr -> SUBSET Rec], Sound(H, next, S), NEW h \in Hdr,
         NEW r \in S[h]
  PROVE  Sound(MoveOff(H, h, r), Unlinked(r), Given(S, h, S[h] \ {r}))
<1>1. PICK d : d = H[h].data
  OBVIOUS
<1>2. PICK T : T = Given(S, h, S[h] \ {r})
  OBVIOUS
<1>3. PICK ny : ny = Unlinked(r)
  OBVIOUS
<1>4. /\ T[h] = S[h] \ {r}
      /\ \A k \in Halves(h) : T[k] = T[h]
      /\ \A k \in Hdr : k \notin Halves(h) => T[k] = S[k]
  BY <1>2, GivenIs
<1>5. Circle(d, next, S[h]) /\ (H[h].lock => d # NULL)
  BY <1>1 DEF Sound
<1>6. r \in Rec /\ d # NULL /\ d \in S[h] /\ Circle(r, next, S[h])
  BY <1>5, CircleStart, CircleTurn
<1>7. \A k \in Hdr : k \notin Halves(h) => S[h] \cap S[k] = {} /\ T[h] \cap S[k] = {}
  BY <1>4 DEF Sound
<1>8. \A k \in Hdr : k \notin Halves(h) => \A x \in S[k] : ny[x] = next[x]
  <2> SUFFICES ASSUME NEW k \in Hdr, k \notin Halves(h), NEW x \in S[k] PROVE ny[x] = next[x]
    OBVIOUS
  <2>1. Circle(H[k].data, next, S[k])
    BY DEF Sound
  <2>2. next[x] \in S[k]
    BY <2>1, CircleNext
  <2>3. x \in Rec /\ x # r /\ next[x] # r
    BY <2>2, <1>7
  <2> QED BY <2>3, <1>3 DEF Unlinked
<1>e. Elsewhere(S, T, h, next, ny)
  BY <1>4, <1>7, <1>8 DEF Elsewhere
<1>9. PICK e : e = IF next[r] = r THEN NULL ELSE next[r]
  OBVIOUS
<1>10. Circle(e, ny, T[h])
  <2>1. \A x \in S[h] : x # r => ny[x] = IF next[x] = r THEN next[r] ELSE next[x]
    BY <1>3 DEF Unlinked
  <2>2. Circle(IF next[r] = r THEN NULL ELSE next[r], ny, S[h] \ {r})
    BY <2>1, <1>6, CircleRemove
  <2> QED BY <2>2, <1>4, <1>9
<1>11. e \in Rec \cup {NULL}
  BY <1>6, <1>9
<1>12. CASE d = r
  <2>1. MoveOff(H, h, r) = SetData(H, h, e, FALSE)
    BY <1>1, <1>9, <1>12 DEF MoveOff
  <2>2. Sound(SetData(H, h, e, FALSE), ny, T)
    BY ONLY h \in Hdr, Sound(H, next, S), <1>e, <1>10, <1>11, SoundAfter
  <2> QED BY <2>1, <2>2, <1>2, <1>3
<1>13. CASE d # r
  <2>1. MoveOff(H, h, r) = H
    BY <1>1, <1>13 DEF MoveOff
  <2>2. SetData(H, h, d, H[h].lock) = H /\ d \in Rec \cup {NULL} /\ H[h].lock \in BOOLEAN
    BY <1>1, SetDataSame
  <2>3. d \in T[h]
    BY <1>4, <1>6, <1>13
  <2>4. Circle(d, ny, T[h])
    BY <1>10, <2>3, CircleTurn
  <2>5. Sound(SetData(H, h, d, H[h].lock), ny, T)
    BY ONLY h \in Hdr, Sound(H, next, S), <2>2, <2>4, <1>5, <1>e, SoundAfter
  <2> QED BY <2>1, <2>2, <2>5, <1>2, <1>3
<1> QED BY <1>12, <1>13

LEMMA SearchIs ==
  ASSUME next \in [Rec -> Rec \cup {NULL}], NEW S, Sound(hdr, next, S), NEW h \in Hdr, NEW n
  PROVE  /\ Search(h, n) = NULL => \A r \in S[h] : name[r] # n
         /\ Search(h, n) # NULL => Search(h, n) \in S[h] /\ name[Search(h, n)] = n
<1>1. Circle(hdr[h].data, next, S[h])
  BY DEF Sound
<1>2. PICK q : IsCircle(hdr[h].data, next, q) /\ S[h] = {q[i] : i \in 1 .. Len(q)}
  BY <1>1 DEF Circle
<1>3. Ring(h) = q
  BY <1>2, FromIs, RingIs
<1>4. /\ q \in Seq(Rec) /\ Len(q) \in Nat /\ NULL \notin Rec
      /\ \A i \in 1 .. Len(q) : q[i] \in Rec
  BY <1>2, RecAssumption DEF IsCircle, RecAssumption
<1>5. PICK I : I = {i \in 1 .. Len(q) : name[q[i]] = n}
  OBVIOUS
<1>6. CASE I = {}
  <2>1. Search(h, n) = NULL
    BY <1>3, <1>5, <1>6 DEF Search, SelectInSeq
  <2>2. \A i \in 1 .. Len(q) : name[q[i]] # n
    BY <1>5, <1>6
  <2> QED BY <2>1, <2>2, <1>2
<1>7. CASE I # {}
  <2>1. I \in SUBSET Nat
    BY <1>4, <1>5
  <2>2. \E x \in I : \A y \in I : x <= y
    BY <2>1, <1>7, NatLeast
  <2>3. PICK i : i = Min(I)
    OBVIOUS
  <2>4. i \in I
    BY <2>2, <2>3 DEF Min
  <2>5. i # 0 /\ i \in 1 .. Len(q) /\ name[q[i]] = n
    BY <2>4, <1>4, <1>5
  <2>6. Search(h, n) = q[i]
    BY <2>3, <2>5, <1>3, <1>5, <1>7 DEF Search, SelectInSeq
  <2> QED BY <2>5, <2>6, <1>2, <1>4
<1> QED BY <1>6, <1>7

-----------------------------------------------------------------------------
(* The steps.                                                              *)

\* What there is to know of the records of h before a step.
LEMMA Now ==
  ASSUME NEW S \in [Hdr -> SUBSET Rec], Holds(S), NEW h \in Hdr
  PROVE  /\ S[h] \subseteq allocated /\ allocated \subseteq Rec
         /\ S[Opp[h]] = S[h]
         /\ \A k \in Halves(h) : S[k] = S[h]
         /\ \A k \in Hdr : k \notin Halves(h) => S[h] \cap S[k] = {}
BY DEF Holds, Sound, Halves

\* The records stay where they are, whatever comes to the front.
LEMMA AggetrecHolds ==
  ASSUME NEW S \in [Hdr -> SUBSET Rec], Holds(S), NEW h \in Hdr, NEW n, NEW mtf \in BOOLEAN,
         Aggetrec(h, n, mtf)
  PROVE  Holds(S)'
<1>1. PICK r : r = Search(h, n)
  OBVIOUS
<1>2. r \in S[h] \cup {NULL}
  BY <1>1, SearchIs DEF Holds
<1>3. Sound(ToFront(hdr, h, r, mtf), next, S)
  BY <1>2, ToFrontSound DEF Holds
<1>4. /\ hdr' = ToFront(hdr, h, r, mtf)
      /\ next' = next /\ name' = name /\ allocated' = allocated
  BY <1>1 DEF Aggetrec
<1>5. Sound(hdr', next', S)
  BY <1>3, <1>4
<1> QED BY <1>4, <1>5 DEF Holds

LEMMA AgbindrecOldHolds ==
  ASSUME NEW S \in [Hdr -> SUBSET Rec], Holds(S), NEW h \in Hdr, NEW n, NEW mtf \in BOOLEAN,
         AgbindrecOld(h, n, mtf)
  PROVE  Holds(S)'
<1>1. PICK r : r = Search(h, n)
  OBVIOUS
<1>2. r \in S[h] \cup {NULL}
  BY <1>1, SearchIs DEF Holds
<1>3. PICK H : H = ToFront(hdr, h, r, FALSE)
  OBVIOUS
<1>4. Sound(H, next, S)
  BY <1>2, <1>3, ToFrontSound DEF Holds
<1>5. Sound(ToFront(H, h, r, TRUE), next, S)
  BY <1>2, <1>4, ToFrontSound
<1>6. /\ hdr' = IF mtf THEN ToFront(H, h, r, TRUE) ELSE H
      /\ next' = next /\ name' = name /\ allocated' = allocated
  BY <1>1, <1>3 DEF AgbindrecOld
<1>7. Sound(hdr', next', S)
  BY <1>4, <1>5, <1>6
<1> QED BY <1>6, <1>7 DEF Holds

LEMMA AgbindrecNewHolds ==
  ASSUME NEW S \in [Hdr -> SUBSET Rec], Holds(S), NEW h \in Hdr, NEW n \in Name,
         NEW mtf \in BOOLEAN, AgbindrecNew(h, n, mtf)
  PROVE  \E r \in Rec \ allocated :
           Holds(Given(S, h, S[h] \cup {r}))' /\ name' = [name EXCEPT ![r] = n]
<1>1. PICK r \in Rec \ allocated :
        LET H == IF hdr[h].lock THEN hdr ELSE SetData(hdr, h, r, FALSE)
        IN  /\ allocated' = allocated \cup {r}
            /\ name' = [name EXCEPT ![r] = n]
            /\ next' = Put(h, r)
            /\ hdr' = IF mtf THEN ToFront(H, h, r, TRUE) ELSE H
            /\ ret' = [h |-> h, rec |-> r, mtf |-> mtf]
  BY DEF AgbindrecNew
<1>2. PICK H : H = IF hdr[h].lock THEN hdr ELSE SetData(hdr, h, r, FALSE)
  OBVIOUS
<1>3. /\ allocated' = allocated \cup {r}
      /\ name' = [name EXCEPT ![r] = n]
      /\ next' = Put(h, r)
      /\ hdr' = IF mtf THEN ToFront(H, h, r, TRUE) ELSE H
  BY <1>1, <1>2
<1>4. PICK T : T = Given(S, h, S[h] \cup {r})
  OBVIOUS
<1>5. \A k \in Hdr : S[k] \subseteq allocated /\ r \notin S[k]
  BY Now
<1>6. /\ T \in [Hdr -> SUBSET Rec] /\ T[h] = S[h] \cup {r}
      /\ \A k \in Halves(h) : T[k] = S[h] \cup {r}
      /\ \A k \in Hdr : k \notin Halves(h) => T[k] = S[k]
  BY <1>4, GivenIs
<1>7. Sound(H, next', T)
  BY <1>2, <1>3, <1>4, <1>5, PutSound DEF Holds
<1>8. Sound(ToFront(H, h, r, TRUE), next', T)
  BY <1>6, <1>7, ToFrontSound
<1>9. Sound(hdr', next', T)
  BY <1>3, <1>7, <1>8
<1>10. next' \in [Rec -> Rec \cup {NULL}]
  <2>1. hdr[h].data \in Rec \cup {NULL}
    BY SetDataSame DEF Holds
  <2> QED BY <1>3, <2>1 DEF Put, Holds
<1>11. name' \in [Rec -> Name \cup {NULL}]
  BY <1>3 DEF Holds
<1>12. allocated' = UNION {T[k] : k \in Hdr}
  <2>1. UNION {T[k] : k \in Hdr} = ((UNION {S[k] : k \in Hdr}) \ S[h]) \cup (S[h] \cup {r})
    BY <1>4, Now, GivenUnion
  <2>2. allocated = UNION {S[k] : k \in Hdr}
    BY DEF Holds
  <2> QED BY <1>3, <1>5, <2>1, <2>2
<1>13. \A x \in allocated' : name'[x] \in Name
  BY <1>3, Now DEF Holds
<1>14. \A x \in S[h] : name[x] # n
  BY SearchIs DEF Holds, AgbindrecNew
<1>15. \A k \in Hdr : \A x, y \in T[k] : name'[x] = name'[y] => x = y
  <2> SUFFICES ASSUME NEW k \in Hdr, NEW x \in T[k], NEW y \in T[k], name'[x] = name'[y]
               PROVE  x = y
    OBVIOUS
  <2>1. /\ name'[r] = n
        /\ \A j \in Hdr : \A z \in S[j] : name'[z] = name[z]
    BY <1>3, <1>5 DEF Holds
  <2>2. \A j \in Hdr : \A z, w \in S[j] : name[z] = name[w] => z = w
    BY DEF Holds
  <2>3. CASE k \in Halves(h)
    <3>1. x \in S[h] \cup {r} /\ y \in S[h] \cup {r}
      BY <2>3, <1>6
    <3> QED BY <3>1, <2>1, <2>2, <1>14
  <2>4. CASE k \notin Halves(h)
    <3>1. x \in S[k] /\ y \in S[k]
      BY <2>4, <1>6
    <3> QED BY <3>1, <2>1, <2>2
  <2> QED BY <2>3, <2>4
<1>16. Holds(T)'
  BY <1>9, <1>10, <1>11, <1>12, <1>13, <1>15 DEF Holds
<1> QED BY <1>3, <1>4, <1>16

LEMMA AgdelrecHolds ==
  ASSUME NEW S \in [Hdr -> SUBSET Rec], Holds(S), NEW h \in Hdr, NEW n \in Name,
         Agdelrec(h, n)
  PROVE  \E r \in S[h] : /\ name[r] = n
                         /\ Holds(Given(S, h, S[h] \ {r}))'
                         /\ name' = [name EXCEPT ![r] = NULL]
                         /\ hdr' = MoveOff(ToFront(hdr, h, r, FALSE), h, r)
<1>1. PICK r : r = Search(h, n)
  OBVIOUS
<1>2. /\ r # NULL
      /\ hdr' = MoveOff(ToFront(hdr, h, r, FALSE), h, r)
      /\ next' = Unlinked(r)
      /\ name' = [name EXCEPT ![r] = NULL]
      /\ allocated' = allocated \ {r}
  BY <1>1 DEF Agdelrec
<1>3. r \in S[h] /\ name[r] = n /\ r \in Rec
  BY <1>1, <1>2, SearchIs DEF Holds
<1>4. PICK T : T = Given(S, h, S[h] \ {r})
  OBVIOUS
<1>5. PICK H : H = ToFront(hdr, h, r, FALSE)
  OBVIOUS
<1>6. /\ T \in [Hdr -> SUBSET Rec] /\ T[h] = S[h] \ {r}
      /\ \A k \in Halves(h) : T[k] = S[h] \ {r}
      /\ \A k \in Hdr : k \notin Halves(h) => T[k] = S[k]
  BY <1>4, GivenIs
<1>7. Sound(H, next, S)
  BY <1>3, <1>5, ToFrontSound DEF Holds
<1>8. Sound(hdr', next', T)
  <2>1. next \in [Rec -> Rec \cup {NULL}]
    BY DEF Holds
  <2>2. Sound(MoveOff(H, h, r), Unlinked(r), Given(S, h, S[h] \ {r}))
    BY <2>1, <1>3, <1>7, MoveOffSound
  <2> QED BY <2>2, <1>2, <1>4, <1>5
<1>9. next' \in [Rec -> Rec \cup {NULL}]
  BY <1>2, <1>3 DEF Unlinked, Holds
<1>10. name' \in [Rec -> Name \cup {NULL}]
  BY <1>2 DEF Holds
<1>11. allocated' = UNION {T[k] : k \in Hdr}
  <2>1. UNION {T[k] : k \in Hdr} = ((UNION {S[k] : k \in Hdr}) \ S[h]) \cup (S[h] \ {r})
    BY <1>4, Now, GivenUnion
  <2>2. allocated = UNION {S[k] : k \in Hdr} /\ S[h] \subseteq allocated
    BY Now DEF Holds
  <2> QED BY <1>2, <1>3, <2>1, <2>2
<1>12. \A x \in allocated' : name'[x] = name[x] /\ name[x] \in Name
  BY <1>2, Now DEF Holds
<1>13. \A k \in Hdr : \A x \in T[k] : x \in S[k] /\ x \in allocated'
  BY <1>6, <1>11, Now
<1>14. \A k \in Hdr : \A x, y \in T[k] : name'[x] = name'[y] => x = y
  BY <1>12, <1>13 DEF Holds
<1>15. Holds(T)'
  BY <1>8, <1>9, <1>10, <1>11, <1>12, <1>14 DEF Holds
<1> QED BY <1>2, <1>3, <1>4, <1>15

LEMMA AgreccloseHolds ==
  ASSUME NEW S \in [Hdr -> SUBSET Rec], Holds(S), NEW h \in Hdr, Agrecclose(h)
  PROVE  /\ Holds(Given(S, h, {}))'
         /\ hdr' = SetData(hdr, h, NULL, FALSE)
         /\ \A x \in Rec : x \notin S[h] => name'[x] = name[x]
<1>1. ToSet(Ring(h)) = S[h]
  <2>1. Circle(hdr[h].data, next, S[h]) /\ next \in [Rec -> Rec \cup {NULL}]
    BY DEF Holds, Sound
  <2> QED BY <2>1, CircleFrom, RingIs
<1>2. /\ hdr' = SetData(hdr, h, NULL, FALSE)
      /\ next' = [r \in Rec |-> IF r \in S[h] THEN NULL ELSE next[r]]
      /\ name' = [r \in Rec |-> IF r \in S[h] THEN NULL ELSE name[r]]
      /\ allocated' = allocated \ S[h]
  BY <1>1 DEF Agrecclose, SetData, Bare
<1>3. PICK T : T = Given(S, h, {})
  OBVIOUS
<1>4. /\ T \in [Hdr -> SUBSET Rec] /\ T[h] = {}
      /\ \A k \in Halves(h) : T[k] = {}
      /\ \A k \in Hdr : k \notin Halves(h) => T[k] = S[k]
  BY <1>3, GivenIs
<1>5. \A k \in Hdr : k \notin Halves(h) => S[h] \cap S[k] = {} /\ S[k] \subseteq Rec
  BY Now
<1>6. Elsewhere(S, T, h, next, next')
  BY <1>2, <1>4, <1>5 DEF Elsewhere
<1>7. Circle(NULL, next', T[h])
  BY <1>4, CircleNone
<1>8. Sound(SetData(hdr, h, NULL, FALSE), next', T)
  <2>1. Sound(hdr, next, S) /\ NULL \in Rec \cup {NULL} /\ FALSE \in BOOLEAN
    BY DEF Holds
  <2> QED BY ONLY h \in Hdr, <2>1, <1>6, <1>7, SoundAfter
<1>9. next' \in [Rec -> Rec \cup {NULL}] /\ name' \in [Rec -> Name \cup {NULL}]
  BY <1>2 DEF Holds
<1>10. allocated' = UNION {T[k] : k \in Hdr}
  <2>1. UNION {T[k] : k \in Hdr} = ((UNION {S[k] : k \in Hdr}) \ S[h]) \cup {}
    BY <1>3, Now, GivenUnion
  <2>2. allocated = UNION {S[k] : k \in Hdr}
    BY DEF Holds
  <2> QED BY <1>2, <2>1, <2>2
<1>11. \A x \in allocated' : name'[x] = name[x] /\ name[x] \in Name
  BY <1>2, Now DEF Holds
<1>12. \A k \in Hdr : \A x \in T[k] : x \in S[k] /\ x \in allocated'
  BY <1>4, <1>10
<1>13. \A k \in Hdr : \A x, y \in T[k] : name'[x] = name'[y] => x = y
  BY <1>11, <1>12 DEF Holds
<1>14. Holds(T)'
  BY <1>2, <1>8, <1>9, <1>10, <1>11, <1>13 DEF Holds
<1> QED BY <1>2, <1>3, <1>14

LEMMA InitHolds == Init => Holds([h \in Hdr |-> {}])
<1> SUFFICES ASSUME Init PROVE Holds([h \in Hdr |-> {}])
  OBVIOUS
<1>1. PICK S : S = [h \in Hdr |-> {}]
  OBVIOUS
<1>2. \A h \in Hdr : S[h] = {} /\ hdr[h] = Bare /\ Opp[h] \in Hdr
  BY <1>1, Opposite DEF Init
<1>3. hdr \in [Hdr -> Header]
  BY DEF Init, Header, Bare
<1>4. \A h \in Hdr : Circle(hdr[h].data, next, S[h])
  <2> TAKE h \in Hdr
  <2>1. hdr[h].data = NULL /\ S[h] = {}
    BY <1>2 DEF Bare
  <2> QED BY <2>1, CircleNone
<1>5. Sound(hdr, next, S)
  <2>1. \A h \in Hdr : hdr[Opp[h]] = hdr[h] /\ S[Opp[h]] = S[h]
    BY <1>2
  <2>2. \A h \in Hdr : ~hdr[h].lock
    BY <1>2 DEF Bare
  <2>3. \A h, k \in Hdr : S[h] \cap S[k] = {}
    BY <1>2
  <2> QED BY <2>1, <2>2, <2>3, <1>3, <1>4 DEF Sound
<1>6. UNION {S[h] : h \in Hdr} = {}
  BY <1>2
<1> QED BY <1>1, <1>2, <1>5, <1>6 DEF Holds, Init

LEMMA Inductive ==
  /\ Init => Inv
  /\ Inv /\ [Next]_vars => Inv'
<1>1. ASSUME Init PROVE Inv
  <2>1. [h \in Hdr |-> {}] \in [Hdr -> SUBSET Rec]
    OBVIOUS
  <2> QED BY <1>1, <2>1, InitHolds DEF Inv
<1>2. ASSUME Inv, [Next]_vars PROVE Inv'
  <2>1. PICK S \in [Hdr -> SUBSET Rec] : Holds(S)
    BY <1>2 DEF Inv
  <2>2. CASE UNCHANGED vars
    <3>1. Holds(S)'
      BY <2>1, <2>2 DEF Holds, vars
    <3> QED BY <3>1 DEF Inv
  <2>3. ASSUME NEW h \in Hdr, Agrecclose(h) PROVE Inv'
    <3>1. Holds(Given(S, h, {}))' /\ Given(S, h, {}) \in [Hdr -> SUBSET Rec]
      BY <2>1, <2>3, AgreccloseHolds, GivenIs
    <3> QED BY <3>1 DEF Inv
  <2>4. ASSUME NEW h \in Hdr, NEW n \in Name, Agdelrec(h, n) PROVE Inv'
    <3>1. PICK r \in S[h] : Holds(Given(S, h, S[h] \ {r}))'
      BY <2>1, <2>4, AgdelrecHolds
    <3>2. Given(S, h, S[h] \ {r}) \in [Hdr -> SUBSET Rec]
      BY GivenIs
    <3> QED BY <3>1, <3>2 DEF Inv
  <2>5. ASSUME NEW h \in Hdr, NEW n \in Name, NEW mtf \in BOOLEAN,
               Aggetrec(h, n, mtf) \/ AgbindrecOld(h, n, mtf)
        PROVE  Inv'
    <3>1. Holds(S)'
      BY <2>1, <2>5, AggetrecHolds, AgbindrecOldHolds
    <3> QED BY <3>1 DEF Inv
  <2>6. ASSUME NEW h \in Hdr, NEW n \in Name, NEW mtf \in BOOLEAN, AgbindrecNew(h, n, mtf)
        PROVE  Inv'
    <3>1. PICK r \in Rec \ allocated : Holds(Given(S, h, S[h] \cup {r}))'
      BY <2>1, <2>6, AgbindrecNewHolds
    <3>2. Given(S, h, S[h] \cup {r}) \in [Hdr -> SUBSET Rec]
      BY GivenIs
    <3> QED BY <3>1, <3>2 DEF Inv
  <2> QED BY <1>2, <2>2, <2>3, <2>4, <2>5, <2>6 DEF Next
<1> QED BY <1>1, <1>2

\* Whatever a client binds, looks up and deletes, the records of each object are
\* one ring through its data pointer, the rings of two objects have no record in
\* common, and every record that is allocated is in a ring.
THEOREM RingsStaySound == Spec => []RingsSound
<1>1. Inv => RingsSound
  <2> SUFFICES ASSUME Inv PROVE RingsSound
    OBVIOUS
  <2>1. PICK S \in [Hdr -> SUBSET Rec] : Holds(S)
    BY DEF Inv
  <2>2. next \in [Rec -> Rec \cup {NULL}] /\ \A h \in Hdr : Circle(hdr[h].data, next, S[h])
    BY <2>1 DEF Holds, Sound
  <2>3. \A h \in Hdr : /\ ToSet(Ring(h)) = S[h]
                       /\ Ring(h) # <<>> => next[Last(Ring(h))] = hdr[h].data
    BY <2>2, CircleFrom, RingIs
  <2>4. allocated = UNION {ToSet(Ring(h)) : h \in Hdr}
    BY <2>1, <2>3 DEF Holds
  <2>5. \A h, k \in Hdr : k \notin {h, Opp[h]} => ToSet(Ring(h)) \cap ToSet(Ring(k)) = {}
    BY <2>1, <2>3 DEF Holds, Sound, Halves
  <2> QED BY <2>3, <2>4, <2>5 DEF RingsSound
<1> QED BY <1>1, Inductive, PTL DEF Spec

\* Whichever half of an edge a client names, set_data leaves both halves with the
\* same record in front and the same lock.
THEOREM HalvesStayAgreed == Spec => []HalvesAgree
<1>1. Inv => HalvesAgree
  BY DEF Inv, Holds, Sound, HalvesAgree
<1> QED BY <1>1, Inductive, PTL DEF Spec

-----------------------------------------------------------------------------
(* AgRec implements AgRecAbs.                                              *)

LEMMA HdrOfIs ==
  /\ \A h \in Hdr : Halves(h) \in Objects
  /\ \A o \in Objects : HdrOf(o) \in Hdr /\ Halves(HdrOf(o)) = o
<1>1. \A h \in Hdr : Halves(h) \in Objects
  BY DEF Halves, Objects
<1>2. ASSUME NEW o \in Objects PROVE HdrOf(o) \in Hdr /\ Halves(HdrOf(o)) = o
  <2>1. PICK h \in Hdr : o = {h, Opp[h]}
    BY DEF Objects
  <2>2. HdrOf(o) \in {h, Opp[h]} /\ HdrOf(o) \in Hdr
    BY <2>1 DEF HdrOf
  <2> QED BY <2>1, <2>2, Opposite DEF Halves
<1> QED BY <1>1, <1>2

NamesOf(nm, S) == [o \in Objects |-> {nm[r] : r \in S[HdrOf(o)]}]
LockOf(H, nm, k) == IF H[k].lock THEN nm[H[k].data] ELSE NULL

LEMMA BoundNow == \A S \in [Hdr -> SUBSET Rec] : Holds(S) => BoundNames = NamesOf(name, S)
<1> SUFFICES ASSUME NEW S \in [Hdr -> SUBSET Rec], Holds(S)
             PROVE  BoundNames = NamesOf(name, S)
  OBVIOUS
<1>1. next \in [Rec -> Rec \cup {NULL}] /\ \A h \in Hdr : Circle(hdr[h].data, next, S[h])
  BY DEF Holds, Sound
<1>2. \A h \in Hdr : ToSet(Ring(h)) = S[h]
  BY <1>1, CircleFrom, RingIs
<1>3. \A o \in Objects : ToSet(Ring(HdrOf(o))) = S[HdrOf(o)]
  BY <1>2, HdrOfIs
<1> QED BY <1>3 DEF BoundNames, NamesOf

LEMMA BoundNext ==
  (\A S \in [Hdr -> SUBSET Rec] : Holds(S) => BoundNames = NamesOf(name, S))'
BY BoundNow, PTL

LEMMA LockedNow == LockedName = [o \in Objects |-> LockOf(hdr, name, HdrOf(o))]
BY DEF LockedName, LockOf

\* Where a lock is, there is a record of the object.
LEMMA LockHeld ==
  ASSUME NEW S \in [Hdr -> SUBSET Rec], Holds(S), NEW k \in Hdr, hdr[k].lock
  PROVE  hdr[k].data \in S[k] /\ hdr[k].data \in allocated /\ name[hdr[k].data] \in Name
<1>1. hdr[k].data # NULL /\ Circle(hdr[k].data, next, S[k])
  BY DEF Holds, Sound
<1>2. hdr[k].data \in S[k]
  BY <1>1, CircleStart
<1> QED BY <1>2, Now DEF Holds

\* What becomes of the headers H when r, of h, is looked up or NULL is found.
LooksUp(H, J, h, r, mtf) ==
  /\ \A k \in Hdr : k \notin Halves(h) => J[k] = H[k]
  /\ \A k \in Halves(h) :
       /\ H[k].lock \/ r = NULL => J[k] = H[k]
       /\ ~H[k].lock /\ r # NULL => J[k].lock = mtf /\ (mtf => J[k].data = r)

LEMMA ToFrontLocks ==
  ASSUME NEW H, NEW nx, NEW S, Sound(H, nx, S), NEW h \in Hdr, NEW r \in S[h] \cup {NULL},
         NEW mtf \in BOOLEAN, NEW J, J = ToFront(H, h, r, mtf)
  PROVE  LooksUp(H, J, h, r, mtf)
<1> USE DEF LooksUp
<1>1. \A k \in Halves(h) : k \in Hdr /\ H[k] = H[h]
  BY Opposite DEF Sound, Halves
<1>2. H[h] \in Header
  BY DEF Sound
<1>3. CASE r = NULL \/ H[h].lock \/ (H[h].data = r /\ ~mtf)
  <2>1. J = H
    BY <1>3 DEF ToFront
  <2> QED BY <2>1, <1>1, <1>2, <1>3 DEF Header
<1>4. CASE ~(r = NULL \/ H[h].lock \/ (H[h].data = r /\ ~mtf))
  <2>1. J = SetData(H, h, r, mtf)
    BY <1>4 DEF ToFront
  <2>2. r \in Rec \cup {NULL} /\ H \in [Hdr -> Header]
    <3>1. Circle(H[h].data, nx, S[h])
      BY DEF Sound
    <3> QED BY <3>1, CircleStart DEF Sound
  <2>3. /\ \A k \in Halves(h) : J[k] = [data |-> r, lock |-> mtf]
        /\ \A k \in Hdr : k \notin Halves(h) => J[k] = H[k]
    BY <2>1, <2>2, SetDataIs
  <2> QED BY <2>3, <1>1, <1>4
<1> QED BY <1>3, <1>4

\* J are the headers H, but h and its other half have r in front.
SetsTo(H, J, h, r, b) ==
  /\ \A k \in Halves(h) : J[k].data = r /\ J[k].lock = b
  /\ \A k \in Hdr : k \notin Halves(h) => J[k] = H[k]

LEMMA SetDataMakes ==
  ASSUME NEW H \in [Hdr -> Header], NEW h \in Hdr, NEW r \in Rec \cup {NULL}, NEW b \in BOOLEAN,
         NEW J, J = SetData(H, h, r, b)
  PROVE  SetsTo(H, J, h, r, b)
<1>1. /\ SetData(H, h, r, b) \in [Hdr -> Header]
      /\ \A k \in Halves(h) : SetData(H, h, r, b)[k] = [data |-> r, lock |-> b]
      /\ \A k \in Hdr : k \notin Halves(h) => SetData(H, h, r, b)[k] = H[k]
  BY SetDataIs
<1> QED BY <1>1 DEF SetsTo

\* What has to be seen of a step for it to be a Bind of AgRecAbs.
Binds(S, T, h, n, mtf) ==
  /\ \A x \in allocated : name'[x] = name[x]
  /\ \A k \in Hdr : k \notin Halves(h) => T[k] = S[k] /\ hdr'[k] = hdr[k]
  /\ {name'[x] : x \in T[h]} = {name[x] : x \in S[h]} \cup {n}
  /\ \A k \in Halves(h) :
       /\ hdr[k].lock => hdr'[k] = hdr[k]
       /\ ~hdr[k].lock => hdr'[k].lock = mtf /\ (mtf => name'[hdr'[k].data] = n)

LEMMA BindStep ==
  ASSUME NEW S \in [Hdr -> SUBSET Rec], Holds(S), NEW T \in [Hdr -> SUBSET Rec], Holds(T)',
         NEW h \in Hdr, NEW n \in Name, NEW mtf \in BOOLEAN,
         Binds(S, T, h, n, mtf)
  PROVE  Abs!Bind(Halves(h), n, mtf)
<1> USE DEF Binds
<1>1. BoundNames = NamesOf(name, S) /\ BoundNames' = NamesOf(name', T)
  BY BoundNow, BoundNext DEF NamesOf
<1>2. LockedName' = [o \in Objects |-> LockOf(hdr', name', HdrOf(o))]
  BY DEF LockedName, LockOf
<1>3. \A o \in Objects : /\ HdrOf(o) \in Hdr
                         /\ o = Halves(h) <=> HdrOf(o) \in Halves(h)
  <2> TAKE o \in Objects
  <2>1. HdrOf(o) \in Hdr /\ Halves(HdrOf(o)) = o
    BY HdrOfIs
  <2>2. HdrOf(o) \in Halves(HdrOf(o))
    BY DEF Halves
  <2>3. HdrOf(o) \in Halves(h) => Halves(HdrOf(o)) = Halves(h)
    BY Opposite DEF Halves
  <2> QED BY <2>1, <2>2, <2>3
<1>4. \A k \in Halves(h) : S[k] = S[h] /\ T[k] = T[h]
  BY DEF Holds, Sound, Halves
<1>5. \A k \in Hdr : S[k] \subseteq allocated
  BY Now
<1>6. BoundNames' = [BoundNames EXCEPT ![Halves(h)] = @ \cup {n}]
  <2>1. \A o \in Objects :
          {name'[x] : x \in T[HdrOf(o)]} =
            IF o = Halves(h) THEN {name[x] : x \in S[HdrOf(o)]} \cup {n}
            ELSE {name[x] : x \in S[HdrOf(o)]}
    <3> TAKE o \in Objects
    <3>1. CASE o = Halves(h)
      BY <3>1, <1>3, <1>4
    <3>2. CASE o # Halves(h)
      <4>1. T[HdrOf(o)] = S[HdrOf(o)] /\ S[HdrOf(o)] \subseteq allocated
        BY <3>2, <1>3, <1>5
      <4>2. {name'[x] : x \in T[HdrOf(o)]} = {name[x] : x \in S[HdrOf(o)]}
        BY <4>1
      <4> QED BY <3>2, <4>2
    <3> QED BY <3>1, <3>2
  <2> QED BY <1>1, <2>1 DEF NamesOf
<1>7. LockedName' =
        [LockedName EXCEPT ![Halves(h)] = IF mtf /\ @ = NULL THEN n ELSE @]
  <2>1. \A o \in Objects :
          LockOf(hdr', name', HdrOf(o)) =
            IF o = Halves(h) /\ mtf /\ LockOf(hdr, name, HdrOf(o)) = NULL THEN n
            ELSE LockOf(hdr, name, HdrOf(o))
    <3> TAKE o \in Objects
    <3>1. PICK k \in Hdr : k = HdrOf(o) /\ (o = Halves(h) <=> k \in Halves(h))
      BY <1>3
    <3>2. hdr[k].lock => name'[hdr[k].data] = name[hdr[k].data] /\ name[hdr[k].data] # NULL
      <4>1. NULL \notin Name
        BY RecAssumption DEF RecAssumption
      <4> QED BY <4>1, LockHeld
    <3>3. CASE k \notin Halves(h)
      BY <3>1, <3>2, <3>3 DEF LockOf
    <3>4. CASE k \in Halves(h) /\ hdr[k].lock
      BY <3>1, <3>2, <3>4 DEF LockOf
    <3>5. CASE k \in Halves(h) /\ ~hdr[k].lock
      <4>1. LockOf(hdr, name, k) = NULL
        BY <3>5 DEF LockOf
      <4>2. hdr'[k].lock = mtf /\ (mtf => name'[hdr'[k].data] = n)
        BY <3>5
      <4>3. LockOf(hdr', name', k) = IF mtf THEN n ELSE NULL
        BY <4>2 DEF LockOf
      <4> QED BY <3>1, <3>5, <4>1, <4>3
    <3> QED BY <3>3, <3>4, <3>5
  <2> QED BY <1>2, <2>1, LockedNow
<1> QED BY <1>6, <1>7 DEF Abs!Bind

LEMMA AggetrecStep ==
  ASSUME NEW S \in [Hdr -> SUBSET Rec], Holds(S), NEW h \in Hdr, NEW n \in Name,
         NEW mtf \in BOOLEAN, Aggetrec(h, n, mtf) \/ AgbindrecOld(h, n, mtf)
  PROVE  Abs!Bind(Halves(h), n, mtf) \/ (BoundNames' = BoundNames /\ LockedName' = LockedName)
<1>1. PICK r : r = Search(h, n)
  OBVIOUS
<1>2. r \in S[h] \cup {NULL} /\ (r # NULL => name[r] = n)
  BY <1>1, SearchIs DEF Holds
<1>3. next' = next /\ name' = name /\ allocated' = allocated
  BY DEF Aggetrec, AgbindrecOld
<1>4. Sound(hdr, next, S)
  BY DEF Holds
<1>5. /\ \A k \in Hdr : k \notin Halves(h) => hdr'[k] = hdr[k]
      /\ \A k \in Halves(h) :
           /\ hdr[k].lock \/ r = NULL => hdr'[k] = hdr[k]
           /\ ~hdr[k].lock /\ r # NULL => hdr'[k].lock = mtf /\ (mtf => hdr'[k].data = r)
  <2>1. CASE Aggetrec(h, n, mtf)
    <3>1. hdr' = ToFront(hdr, h, r, mtf)
      BY <1>1, <2>1 DEF Aggetrec
    <3>2. LooksUp(hdr, hdr', h, r, mtf)
      BY <3>1, <1>2, <1>4, ToFrontLocks
    <3> QED BY <3>2 DEF LooksUp
  <2>2. CASE AgbindrecOld(h, n, mtf)
    <3>1. PICK H : H = ToFront(hdr, h, r, FALSE)
      OBVIOUS
    <3>2. PICK J : J = ToFront(H, h, r, TRUE)
      OBVIOUS
    <3>3. hdr' = IF mtf THEN J ELSE H
      BY <1>1, <2>2, <3>1, <3>2 DEF AgbindrecOld
    <3>4. Sound(H, next, S)
      BY <1>2, <1>4, <3>1, ToFrontSound
    <3>5. LooksUp(hdr, H, h, r, FALSE)
      BY <1>2, <1>4, <3>1, ToFrontLocks
    <3>6. LooksUp(H, J, h, r, TRUE)
      BY <1>2, <3>2, <3>4, ToFrontLocks
    <3> QED BY <3>3, <3>5, <3>6 DEF LooksUp
  <2> QED BY <2>1, <2>2
<1>6. CASE r = NULL
  <2>1. \A k \in Hdr : hdr'[k] = hdr[k]
    BY <1>5, <1>6
  <2>2. Holds(S)'
    BY AggetrecHolds, AgbindrecOldHolds
  <2>3. hdr' = hdr
    BY <2>1, <2>2 DEF Holds, Sound
  <2> QED BY <2>3, <1>3 DEF BoundNames, LockedName, Ring
<1>7. CASE r # NULL
  <2>1. Holds(S)'
    BY AggetrecHolds, AgbindrecOldHolds
  <2>2. {name'[x] : x \in S[h]} = {name[x] : x \in S[h]} \cup {n}
    BY <1>2, <1>3, <1>7
  <2>3. \A k \in Halves(h) :
           /\ hdr[k].lock => hdr'[k] = hdr[k]
           /\ ~hdr[k].lock => hdr'[k].lock = mtf /\ (mtf => name'[hdr'[k].data] = n)
    BY <1>2, <1>3, <1>5, <1>7
  <2>4. \A k \in Hdr : k \notin Halves(h) => S[k] = S[k] /\ hdr'[k] = hdr[k]
    BY <1>5
  <2>5. Abs!Bind(Halves(h), n, mtf)
    <3>1. Binds(S, S, h, n, mtf)
      BY <2>2, <2>3, <2>4, <1>3 DEF Binds
    <3> QED BY <2>1, <3>1, BindStep
  <2> QED BY <2>5
<1> QED BY <1>6, <1>7

LEMMA AgbindrecNewStep ==
  ASSUME NEW S \in [Hdr -> SUBSET Rec], Holds(S), NEW h \in Hdr, NEW n \in Name,
         NEW mtf \in BOOLEAN, AgbindrecNew(h, n, mtf)
  PROVE  Abs!Bind(Halves(h), n, mtf)
<1>1. PICK r \in Rec \ allocated :
        LET H == IF hdr[h].lock THEN hdr ELSE SetData(hdr, h, r, FALSE)
        IN  /\ allocated' = allocated \cup {r}
            /\ name' = [name EXCEPT ![r] = n]
            /\ next' = Put(h, r)
            /\ hdr' = IF mtf THEN ToFront(H, h, r, TRUE) ELSE H
            /\ ret' = [h |-> h, rec |-> r, mtf |-> mtf]
  BY DEF AgbindrecNew
<1>2. PICK H : H = IF hdr[h].lock THEN hdr ELSE SetData(hdr, h, r, FALSE)
  OBVIOUS
<1>3. PICK q \in Rec \ allocated :
        Holds(Given(S, h, S[h] \cup {q}))' /\ name' = [name EXCEPT ![q] = n]
  BY AgbindrecNewHolds
<1>4. /\ allocated' = allocated \cup {r}
      /\ name' = [name EXCEPT ![r] = n]
      /\ next' = Put(h, r)
      /\ hdr' = IF mtf THEN ToFront(H, h, r, TRUE) ELSE H
  BY <1>1, <1>2
<1>5. PICK T : T = Given(S, h, S[h] \cup {q})
  OBVIOUS
<1>6. /\ T \in [Hdr -> SUBSET Rec] /\ T[h] = S[h] \cup {q} /\ Holds(T)'
      /\ \A k \in Hdr : k \notin Halves(h) => T[k] = S[k]
  BY <1>3, <1>5, GivenIs
<1>7. q = r
  <2>1. q \in allocated'
    <3>1. T[h] \subseteq allocated'
      BY <1>6 DEF Holds
    <3> QED BY <3>1, <1>6
  <2> QED BY <2>1, <1>4
<1>8. \A x \in allocated : name'[x] = name[x]
  BY <1>4, Now DEF Holds
<1>9. {name'[x] : x \in T[h]} = {name[x] : x \in S[h]} \cup {n}
  <2>1. name'[r] = n /\ S[h] \subseteq allocated
    BY <1>4, Now DEF Holds
  <2> QED BY <2>1, <1>6, <1>7, <1>8
<1>10. Sound(hdr, next, S)
  BY DEF Holds
<1>11. /\ Sound(H, Put(h, r), T)
       /\ \A k \in Hdr : k \notin Halves(h) => H[k] = hdr[k]
       /\ \A k \in Halves(h) : hdr[k].lock => H[k] = hdr[k]
       /\ \A k \in Halves(h) : ~hdr[k].lock => H[k].lock = FALSE
  <2>1. Sound(H, Put(h, r), T)
    <3>1. next \in [Rec -> Rec \cup {NULL}] /\ \A k \in Hdr : r \notin S[k]
      BY Now DEF Holds
    <3> QED BY <3>1, <1>2, <1>5, <1>7, <1>10, PutSound
  <2>2. \A k \in Halves(h) : hdr[k] = hdr[h]
    BY <1>10 DEF Sound, Halves
  <2>3. CASE hdr[h].lock
    BY <2>1, <2>2, <2>3, <1>2
  <2>4. CASE ~hdr[h].lock
    <3>1. H = SetData(hdr, h, r, FALSE)
      BY <2>4, <1>2
    <3>2. hdr \in [Hdr -> Header] /\ r \in Rec \cup {NULL} /\ FALSE \in BOOLEAN
      BY <1>10 DEF Sound
    <3>3. SetsTo(hdr, H, h, r, FALSE)
      BY <3>1, <3>2, SetDataMakes
    <3> QED BY <2>1, <2>2, <2>4, <3>3 DEF SetsTo
  <2> QED BY <2>3, <2>4
<1>12. LooksUp(H, ToFront(H, h, r, TRUE), h, r, TRUE)
  BY <1>6, <1>7, <1>11, ToFrontLocks
<1>13. r # NULL
  BY RecAssumption DEF RecAssumption
<1>14. \A k \in Hdr : k \notin Halves(h) => T[k] = S[k] /\ hdr'[k] = hdr[k]
  BY <1>4, <1>6, <1>11, <1>12 DEF LooksUp
<1>15. \A k \in Halves(h) :
         /\ hdr[k].lock => hdr'[k] = hdr[k]
         /\ ~hdr[k].lock => hdr'[k].lock = mtf /\ (mtf => name'[hdr'[k].data] = n)
  <2> TAKE k \in Halves(h)
  <2>1. hdr[k].lock => hdr'[k] = hdr[k]
    BY <1>4, <1>11, <1>12 DEF LooksUp
  <2>2. ASSUME ~hdr[k].lock PROVE hdr'[k].lock = mtf /\ (mtf => hdr'[k].data = r)
    <3>1. H[k].lock = FALSE
      BY <2>2, <1>11
    <3>2. ToFront(H, h, r, TRUE)[k].lock = TRUE /\ ToFront(H, h, r, TRUE)[k].data = r
      BY <3>1, <1>12, <1>13 DEF LooksUp
    <3> QED BY <3>1, <3>2, <1>4
  <2>3. name'[r] = n
    BY <1>4 DEF Holds
  <2> QED BY <2>1, <2>2, <2>3
<1>16. Binds(S, T, h, n, mtf)
  BY <1>8, <1>9, <1>14, <1>15 DEF Binds
<1> QED BY <1>6, <1>16, BindStep

\* What has to be seen of a step for it to take the names X from an object.
Takes(S, T, h, X) ==
  /\ \A k \in Hdr : k \notin Halves(h) =>
        T[k] = S[k] /\ hdr'[k] = hdr[k] /\ \A x \in S[k] : name'[x] = name[x]
  /\ {name'[x] : x \in T[h]} = {name[x] : x \in S[h]} \ X
  /\ \A k \in Halves(h) :
        LockOf(hdr', name', k) =
          IF LockOf(hdr, name, k) \in X THEN NULL ELSE LockOf(hdr, name, k)

LEMMA TakeStep ==
  ASSUME NEW S \in [Hdr -> SUBSET Rec], Holds(S), NEW T \in [Hdr -> SUBSET Rec], Holds(T)',
         NEW h \in Hdr, NEW X,
         Takes(S, T, h, X)
  PROVE  /\ BoundNames' = [BoundNames EXCEPT ![Halves(h)] = @ \ X]
         /\ LockedName' = [LockedName EXCEPT ![Halves(h)] = IF @ \in X THEN NULL ELSE @]
<1> USE DEF Takes
<1>1. BoundNames = NamesOf(name, S) /\ BoundNames' = NamesOf(name', T)
  BY BoundNow, BoundNext DEF NamesOf
<1>2. LockedName' = [o \in Objects |-> LockOf(hdr', name', HdrOf(o))]
  BY DEF LockedName, LockOf
<1>3. \A o \in Objects : /\ HdrOf(o) \in Hdr
                         /\ o = Halves(h) <=> HdrOf(o) \in Halves(h)
  <2> TAKE o \in Objects
  <2>1. HdrOf(o) \in Hdr /\ Halves(HdrOf(o)) = o
    BY HdrOfIs
  <2>2. HdrOf(o) \in Halves(HdrOf(o))
    BY DEF Halves
  <2>3. HdrOf(o) \in Halves(h) => Halves(HdrOf(o)) = Halves(h)
    BY Opposite DEF Halves
  <2> QED BY <2>1, <2>2, <2>3
<1>4. \A k \in Halves(h) : S[k] = S[h] /\ T[k] = T[h]
  BY DEF Holds, Sound, Halves
<1>5. \A o \in Objects :
        {name'[x] : x \in T[HdrOf(o)]} =
          IF o = Halves(h) THEN {name[x] : x \in S[HdrOf(o)]} \ X
          ELSE {name[x] : x \in S[HdrOf(o)]}
  <2> TAKE o \in Objects
  <2>1. CASE o = Halves(h)
    BY <2>1, <1>3, <1>4
  <2>2. CASE o # Halves(h)
    <3>1. T[HdrOf(o)] = S[HdrOf(o)] /\ \A x \in S[HdrOf(o)] : name'[x] = name[x]
      BY <2>2, <1>3
    <3>2. {name'[x] : x \in T[HdrOf(o)]} = {name[x] : x \in S[HdrOf(o)]}
      BY <3>1
    <3> QED BY <2>2, <3>2
  <2> QED BY <2>1, <2>2
<1>6. \A o \in Objects :
        LockOf(hdr', name', HdrOf(o)) =
          IF o = Halves(h) /\ LockOf(hdr, name, HdrOf(o)) \in X THEN NULL
          ELSE LockOf(hdr, name, HdrOf(o))
  <2> TAKE o \in Objects
  <2>1. PICK k \in Hdr : k = HdrOf(o) /\ (o = Halves(h) <=> k \in Halves(h))
    BY <1>3
  <2>2. CASE k \in Halves(h)
    BY <2>1, <2>2
  <2>3. CASE k \notin Halves(h)
    <3>1. hdr'[k] = hdr[k] /\ (hdr[k].lock => name'[hdr[k].data] = name[hdr[k].data])
      BY <2>3, LockHeld
    <3> QED BY <2>1, <2>3, <3>1 DEF LockOf
  <2> QED BY <2>2, <2>3
<1>7. BoundNames' = [BoundNames EXCEPT ![Halves(h)] = @ \ X]
  BY <1>1, <1>5 DEF NamesOf
<1>8. LockedName' = [LockedName EXCEPT ![Halves(h)] = IF @ \in X THEN NULL ELSE @]
  BY <1>2, <1>6, LockedNow
<1> QED BY <1>7, <1>8

LEMMA AgdelrecStep ==
  ASSUME NEW S \in [Hdr -> SUBSET Rec], Holds(S), NEW h \in Hdr, NEW n \in Name,
         Agdelrec(h, n)
  PROVE  Abs!Remove(Halves(h), n)
<1>1. PICK r \in S[h] : /\ name[r] = n
                        /\ Holds(Given(S, h, S[h] \ {r}))'
                        /\ name' = [name EXCEPT ![r] = NULL]
                        /\ hdr' = MoveOff(ToFront(hdr, h, r, FALSE), h, r)
  BY AgdelrecHolds
<1>2. PICK T : T = Given(S, h, S[h] \ {r})
  OBVIOUS
<1>3. /\ T \in [Hdr -> SUBSET Rec] /\ T[h] = S[h] \ {r} /\ Holds(T)'
      /\ \A k \in Hdr : k \notin Halves(h) => T[k] = S[k]
  BY <1>1, <1>2, GivenIs
<1>4. /\ NULL \notin Name /\ NULL \notin Rec /\ r \in Rec
      /\ name \in [Rec -> Name \cup {NULL}]
      /\ \A x, y \in S[h] : name[x] = name[y] => x = y
      /\ \A x \in S[h] : x \in Rec
  BY RecAssumption DEF RecAssumption, Holds
<1>5. \A x \in Rec : x # r => name'[x] = name[x]
  BY <1>1, <1>4
<1>6. {name'[x] : x \in T[h]} = {name[x] : x \in S[h]} \ {n}
  <2>1. \A x \in S[h] : x # r => name'[x] = name[x] /\ name[x] # n
    BY <1>1, <1>4, <1>5
  <2>2. {name'[x] : x \in T[h]} \subseteq {name[x] : x \in S[h]} \ {n}
    BY <1>3, <2>1
  <2>3. {name[x] : x \in S[h]} \ {n} \subseteq {name'[x] : x \in T[h]}
    BY <1>1, <1>3, <2>1
  <2> QED BY <2>2, <2>3
<1>7. PICK J : J = ToFront(hdr, h, r, FALSE)
  OBVIOUS
<1>8. Sound(hdr, next, S) /\ Sound(J, next, S)
  BY <1>7, ToFrontSound DEF Holds
<1>9. LooksUp(hdr, J, h, r, FALSE)
  BY <1>7, <1>8, ToFrontLocks
<1>10. /\ \A k \in Hdr : k \notin Halves(h) => hdr'[k] = J[k]
       /\ \A k \in Halves(h) : J[k] = J[h]
       /\ \A k \in Halves(h) : J[k].data = r => ~hdr'[k].lock
       /\ \A k \in Halves(h) : J[k].data # r => hdr'[k] = J[k]
  <2>1. \A k \in Halves(h) : J[k] = J[h]
    BY <1>8 DEF Sound, Halves
  <2>2. CASE J[h].data = r
    <3>1. PICK e : e = IF next[r] = r THEN NULL ELSE next[r]
      OBVIOUS
    <3>2. hdr' = SetData(J, h, e, FALSE)
      BY <1>1, <1>7, <2>2, <3>1 DEF MoveOff
    <3>3. J \in [Hdr -> Header] /\ e \in Rec \cup {NULL} /\ FALSE \in BOOLEAN
      BY <1>4, <1>8, <3>1 DEF Sound, Holds
    <3>4. SetsTo(J, hdr', h, e, FALSE)
      BY <3>2, <3>3, SetDataMakes
    <3> QED BY <2>1, <2>2, <3>4 DEF SetsTo
  <2>3. CASE J[h].data # r
    <3>1. hdr' = J
      BY <1>1, <1>7, <2>3 DEF MoveOff
    <3> QED BY <2>1, <2>3, <3>1
  <2> QED BY <2>2, <2>3
<1>11. \A k \in Halves(h) : S[k] = S[h] /\ k \in Hdr
  BY Now, Opposite DEF Halves
<1>12. \A k \in Halves(h) :
         LockOf(hdr', name', k) =
           IF LockOf(hdr, name, k) \in {n} THEN NULL ELSE LockOf(hdr, name, k)
  <2> TAKE k \in Halves(h)
  <2>1. CASE ~hdr[k].lock
    <3>1. J[k].lock = FALSE
      BY <2>1, <1>4, <1>9 DEF LooksUp
    <3>2. ~hdr'[k].lock
      BY <3>1, <1>10
    <3> QED BY <2>1, <3>2 DEF LockOf
  <2>2. CASE hdr[k].lock
    <3>1. J[k] = hdr[k] /\ hdr[k].data \in S[h]
      BY <2>2, <1>9, <1>11, LockHeld DEF LooksUp
    <3>2. CASE hdr[k].data = r
      <4>1. ~hdr'[k].lock /\ LockOf(hdr, name, k) = n
        BY <2>2, <3>1, <3>2, <1>1, <1>10 DEF LockOf
      <4> QED BY <4>1 DEF LockOf
    <3>3. CASE hdr[k].data # r
      <4>1. hdr'[k] = hdr[k] /\ name'[hdr[k].data] = name[hdr[k].data] /\ name[hdr[k].data] # n
        BY <3>1, <3>3, <1>1, <1>4, <1>5, <1>10
      <4> QED BY <2>2, <4>1 DEF LockOf
    <3> QED BY <3>2, <3>3
  <2> QED BY <2>1, <2>2
<1>13. \A k \in Hdr : k \notin Halves(h) =>
         T[k] = S[k] /\ hdr'[k] = hdr[k] /\ \A x \in S[k] : name'[x] = name[x]
  <2> SUFFICES ASSUME NEW k \in Hdr, k \notin Halves(h)
               PROVE  T[k] = S[k] /\ hdr'[k] = hdr[k] /\ \A x \in S[k] : name'[x] = name[x]
    OBVIOUS
  <2>1. S[h] \cap S[k] = {} /\ S[k] \subseteq Rec
    BY Now
  <2> QED BY <2>1, <1>3, <1>5, <1>9, <1>10 DEF LooksUp
<1>14. Takes(S, T, h, {n})
  BY <1>6, <1>12, <1>13 DEF Takes
<1>15. /\ BoundNames' = [BoundNames EXCEPT ![Halves(h)] = @ \ {n}]
       /\ LockedName' = [LockedName EXCEPT ![Halves(h)] = IF @ \in {n} THEN NULL ELSE @]
  <2>1. NULL \notin {n}
    BY <1>4
  <2> QED BY <2>1, <1>3, <1>14, TakeStep
<1>16. n \in BoundNames[Halves(h)]
  <2>1. BoundNames = NamesOf(name, S)
    BY BoundNow
  <2>2. Halves(h) \in Objects /\ HdrOf(Halves(h)) \in Hdr /\ Halves(HdrOf(Halves(h))) = Halves(h)
    BY HdrOfIs
  <2>3. HdrOf(Halves(h)) \in Halves(h)
    BY <2>2 DEF Halves
  <2> QED BY <1>1, <1>11, <2>1, <2>2, <2>3 DEF NamesOf
<1>17. LockedName' = [LockedName EXCEPT ![Halves(h)] = IF @ = n THEN NULL ELSE @]
  BY <1>15
<1> QED BY <1>15, <1>16, <1>17 DEF Abs!Remove

LEMMA AgreccloseStep ==
  ASSUME NEW S \in [Hdr -> SUBSET Rec], Holds(S), NEW h \in Hdr, Agrecclose(h)
  PROVE  Abs!Close(Halves(h))
<1>1. /\ Holds(Given(S, h, {}))'
      /\ hdr' = SetData(hdr, h, NULL, FALSE)
      /\ \A x \in Rec : x \notin S[h] => name'[x] = name[x]
  BY AgreccloseHolds
<1>2. PICK T : T = Given(S, h, {})
  OBVIOUS
<1>3. /\ T \in [Hdr -> SUBSET Rec] /\ T[h] = {} /\ Holds(T)'
      /\ \A k \in Hdr : k \notin Halves(h) => T[k] = S[k]
  BY <1>1, <1>2, GivenIs
<1>4. /\ \A k \in Halves(h) : ~hdr'[k].lock
      /\ \A k \in Hdr : k \notin Halves(h) => hdr'[k] = hdr[k]
  <2>1. hdr \in [Hdr -> Header] /\ NULL \in Rec \cup {NULL} /\ FALSE \in BOOLEAN
    BY DEF Holds, Sound
  <2>2. SetsTo(hdr, hdr', h, NULL, FALSE)
    BY <1>1, <2>1, SetDataMakes
  <2> QED BY <2>2 DEF SetsTo
<1>5. NULL \notin Name
  BY RecAssumption DEF RecAssumption
<1>6. \A k \in Halves(h) : k \in Hdr /\ S[k] = S[h]
  BY Now, Opposite DEF Halves
<1>7. PICK X : X = Name
  OBVIOUS
<1>8. \A x \in S[h] : name[x] \in Name
  BY Now DEF Holds
<1>9. {name'[x] : x \in T[h]} = {name[x] : x \in S[h]} \ X
  BY <1>3, <1>7, <1>8
<1>10. \A k \in Halves(h) :
         LockOf(hdr', name', k) =
           IF LockOf(hdr, name, k) \in X THEN NULL ELSE LockOf(hdr, name, k)
  <2> TAKE k \in Halves(h)
  <2>1. LockOf(hdr', name', k) = NULL
    BY <1>4 DEF LockOf
  <2>2. hdr[k].lock => name[hdr[k].data] \in Name
    BY <1>6, LockHeld
  <2> QED BY <2>1, <2>2, <1>7 DEF LockOf
<1>11. \A k \in Hdr : k \notin Halves(h) =>
         T[k] = S[k] /\ hdr'[k] = hdr[k] /\ \A x \in S[k] : name'[x] = name[x]
  <2> SUFFICES ASSUME NEW k \in Hdr, k \notin Halves(h)
               PROVE  T[k] = S[k] /\ hdr'[k] = hdr[k] /\ \A x \in S[k] : name'[x] = name[x]
    OBVIOUS
  <2>1. S[h] \cap S[k] = {} /\ S[k] \subseteq Rec
    BY Now
  <2> QED BY <2>1, <1>1, <1>3, <1>4
<1>12. Takes(S, T, h, X)
  BY <1>9, <1>10, <1>11 DEF Takes
<1>13. /\ BoundNames' = [BoundNames EXCEPT ![Halves(h)] = @ \ X]
       /\ LockedName' = [LockedName EXCEPT ![Halves(h)] = IF @ \in X THEN NULL ELSE @]
  BY <1>3, <1>5, <1>7, <1>12, TakeStep
<1>14. Halves(h) \in Objects /\ HdrOf(Halves(h)) \in Halves(h)
  <2>1. Halves(h) \in Objects /\ Halves(HdrOf(Halves(h))) = Halves(h)
    BY HdrOfIs
  <2> QED BY <2>1 DEF Halves
<1>15. BoundNames[Halves(h)] \ X = {}
  <2>1. BoundNames = NamesOf(name, S)
    BY BoundNow
  <2> QED BY <2>1, <1>6, <1>7, <1>8, <1>14 DEF NamesOf
<1>16. LockedName[Halves(h)] \in X \cup {NULL}
  <2>1. hdr[HdrOf(Halves(h))].lock => name[hdr[HdrOf(Halves(h))].data] \in Name
    BY <1>6, <1>14, LockHeld
  <2> QED BY <2>1, <1>7, <1>14 DEF LockedName
<1>17. /\ BoundNames' = [BoundNames EXCEPT ![Halves(h)] = {}]
       /\ LockedName' = [LockedName EXCEPT ![Halves(h)] = NULL]
  BY <1>13, <1>15, <1>16
<1> QED BY <1>17 DEF Abs!Close

\* Each step of AgRec does what AgRecAbs promises: an object has one record of a
\* name at most, binding adds a name and deleting takes it, and a lock, once on a
\* record, stays on it until that record or the object is deleted.
THEOREM RecordsKeepPromise == Spec => KeepsPromise
<1>1. Init => Abs!Init
  <2> SUFFICES ASSUME Init PROVE Abs!Init
    OBVIOUS
  <2>1. Holds([h \in Hdr |-> {}]) /\ [h \in Hdr |-> {}] \in [Hdr -> SUBSET Rec]
    BY InitHolds
  <2>2. PICK S \in [Hdr -> SUBSET Rec] : Holds(S) /\ \A h \in Hdr : S[h] = {}
    BY <2>1
  <2>3. BoundNames = NamesOf(name, S)
    BY <2>2, BoundNow
  <2>4. \A o \in Objects : S[HdrOf(o)] = {} /\ ~hdr[HdrOf(o)].lock
    BY <2>2, HdrOfIs DEF Init, Bare
  <2>5. NamesOf(name, S) = [o \in Objects |-> {}]
    BY <2>4 DEF NamesOf
  <2>6. LockedName = [o \in Objects |-> NULL]
    BY <2>4 DEF LockedName
  <2> QED BY <2>3, <2>5, <2>6 DEF Abs!Init
<1>2. Inv /\ [Next]_vars => [Abs!Next]_(Abs!vars)
  <2> SUFFICES ASSUME Inv, [Next]_vars PROVE [Abs!Next]_(Abs!vars)
    OBVIOUS
  <2>1. PICK S \in [Hdr -> SUBSET Rec] : Holds(S)
    BY DEF Inv
  <2>2. CASE UNCHANGED vars
    BY <2>2 DEF vars, Abs!vars, BoundNames, LockedName, Ring
  <2>3. ASSUME NEW h \in Hdr, Agrecclose(h) PROVE Abs!Next
    BY <2>1, <2>3, AgreccloseStep, HdrOfIs DEF Abs!Next
  <2>4. ASSUME NEW h \in Hdr, NEW n \in Name, Agdelrec(h, n) PROVE Abs!Next
    BY <2>1, <2>4, AgdelrecStep, HdrOfIs DEF Abs!Next
  <2>5. ASSUME NEW h \in Hdr, NEW n \in Name, NEW mtf \in BOOLEAN,
               Aggetrec(h, n, mtf) \/ AgbindrecOld(h, n, mtf)
        PROVE  [Abs!Next]_(Abs!vars)
    BY <2>1, <2>5, AggetrecStep, HdrOfIs DEF Abs!Next, Abs!vars
  <2>6. ASSUME NEW h \in Hdr, NEW n \in Name, NEW mtf \in BOOLEAN, AgbindrecNew(h, n, mtf)
        PROVE  Abs!Next
    BY <2>1, <2>6, AgbindrecNewStep, HdrOfIs DEF Abs!Next
  <2> QED BY <2>2, <2>3, <2>4, <2>5, <2>6 DEF Next
<1> QED BY <1>1, <1>2, Inductive, PTL DEF Spec, KeepsPromise, Abs!Spec
=============================================================================
