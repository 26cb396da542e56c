--------------------------- MODULE Frame_proofs -----------------------------
(***************************************************************************)
(* What is called in every frame: timers and services, of every number.    *)
(* TimerWheel: every timer is in one list, in the slot of its wheel its    *)
(* deadline asks for, so that none is called early or left behind, for     *)
(* wheels of any number and size. Services: whatever is registered and     *)
(* unregistered in a round or between rounds, RunSevice calls its function *)
(* for the right objects and, but for the map, in turn. The list is a ring *)
(* that begins at the cursor.                                              *)
(***************************************************************************)
EXTENDS TimerWheel, Services, Iteration, FiniteSetTheorems, SequenceTheorems, TLAPS

-----------------------------------------------------------------------------
(* Lists that hold every element once                                      *)

Elems(s) == {s[n] : n \in 1 .. Len(s)}

\* The lists L[p], p in P, hold each member of A once and nothing else.
Once(P, L, A) ==
  /\ \A p \in P : \A n \in 1 .. Len(L[p]) : L[p][n] \in A
  /\ \A t \in A : \E p \in P : \E n \in 1 .. Len(L[p]) : L[p][n] = t
  /\ \A p, q \in P : \A n \in 1 .. Len(L[p]), m \in 1 .. Len(L[q]) :
       L[p][n] = L[q][m] => p = q /\ n = m

\* A member that was in no list is appended to one.
LEMMA OnceAppend ==
  ASSUME NEW P, NEW T, NEW L \in [P -> Seq(T)], NEW M \in [P -> Seq(T)], NEW A,
         Once(P, L, A), NEW t \in T, t \notin A, NEW p \in P,
         M[p] = Append(L[p], t), \A q \in P : q # p => M[q] = L[q]
  PROVE  Once(P, M, A \cup {t})
<1>1. Len(L[p]) \in Nat /\ Len(M[p]) = Len(L[p]) + 1 /\ M[p][Len(L[p]) + 1] = t
  OBVIOUS
<1>2. \A n \in 1 .. Len(L[p]) : n \in 1 .. Len(M[p]) /\ M[p][n] = L[p][n]
  BY <1>1
<1>3. \A n \in 1 .. Len(M[p]) : n \in 1 .. Len(L[p]) \/ n = Len(L[p]) + 1
  BY <1>1
<1>4. \A q \in P : \A n \in 1 .. Len(M[q]) :
        \/ n \in 1 .. Len(L[q]) /\ M[q][n] = L[q][n]
        \/ q = p /\ n = Len(L[p]) + 1 /\ M[q][n] = t
  BY <1>1, <1>2, <1>3
<1>5. \A q \in P : \A n \in 1 .. Len(L[q]) : n \in 1 .. Len(M[q]) /\ M[q][n] = L[q][n]
  BY <1>2
<1>6. Len(L[p]) + 1 \in 1 .. Len(M[p])
  BY <1>1
<1>7. \A q \in P : \A n \in 1 .. Len(M[q]) : M[q][n] \in A \cup {t}
  BY ONLY <1>4, Once(P, L, A) DEF Once
<1>8. \A x \in A \cup {t} : \E q \in P : \E n \in 1 .. Len(M[q]) : M[q][n] = x
  <2> TAKE x \in A \cup {t}
  <2>1. CASE x = t
    BY ONLY <1>1, <1>6, <2>1, p \in P
  <2>2. CASE x \in A
    <3>1. PICK q \in P : \E n \in 1 .. Len(L[q]) : L[q][n] = x
      BY <2>2 DEF Once
    <3> QED BY ONLY <1>5, <3>1
  <2> QED BY <2>1, <2>2
<1>9. ASSUME NEW q \in P, NEW r \in P, NEW n \in 1 .. Len(M[q]), NEW m \in 1 .. Len(M[r]),
             M[q][n] = M[r][m]
      PROVE  q = r /\ n = m
  <2>1. \/ n \in 1 .. Len(L[q]) /\ M[q][n] = L[q][n]
        \/ q = p /\ n = Len(L[p]) + 1 /\ M[q][n] = t
    BY <1>4
  <2>2. \/ m \in 1 .. Len(L[r]) /\ M[r][m] = L[r][m]
        \/ r = p /\ m = Len(L[p]) + 1 /\ M[r][m] = t
    BY <1>4
  <2> QED BY ONLY <2>1, <2>2, <1>9, Once(P, L, A), t \notin A, q \in P, r \in P DEF Once
<1> QED BY ONLY <1>7, <1>8, <1>9 DEF Once

\* A list is emptied: its members are gone.
LEMMA OnceEmptied ==
  ASSUME NEW P, NEW T, NEW L \in [P -> Seq(T)], NEW M \in [P -> Seq(T)], NEW A,
         Once(P, L, A), NEW p \in P,
         M[p] = <<>>, \A q \in P : q # p => M[q] = L[q]
  PROVE  Once(P, M, A \ Elems(L[p]))
<1>1. 1 .. Len(M[p]) = {}
  OBVIOUS
<1>2. \A q \in P : \A n \in 1 .. Len(M[q]) : q # p /\ M[q] = L[q]
  BY <1>1
<1>3. \A q \in P : \A n \in 1 .. Len(M[q]) : M[q][n] \in A \ Elems(L[p])
  <2> TAKE q \in P
  <2> TAKE n \in 1 .. Len(M[q])
  <2>1. q # p /\ n \in 1 .. Len(L[q]) /\ M[q][n] = L[q][n]
    BY <1>2
  <2>2. L[q][n] \in A /\ \A m \in 1 .. Len(L[p]) : L[q][n] # L[p][m]
    BY ONLY <2>1, Once(P, L, A), q \in P, p \in P DEF Once
  <2> QED BY <2>1, <2>2 DEF Elems
<1>4. \A x \in A \ Elems(L[p]) : \E q \in P : \E n \in 1 .. Len(M[q]) : M[q][n] = x
  <2> TAKE x \in A \ Elems(L[p])
  <2>1. PICK q \in P : \E n \in 1 .. Len(L[q]) : L[q][n] = x
    BY DEF Once
  <2>2. q # p
    BY <2>1 DEF Elems
  <2> QED BY <2>1, <2>2
<1>5. \A q, r \in P : \A n \in 1 .. Len(M[q]), m \in 1 .. Len(M[r]) :
        M[q][n] = M[r][m] => q = r /\ n = m
  BY ONLY <1>2, Once(P, L, A) DEF Once
<1> QED BY ONLY <1>3, <1>4, <1>5 DEF Once

\* A list is moved to the end of another.
LEMMA OnceMoved ==
  ASSUME NEW P, NEW T, NEW L \in [P -> Seq(T)], NEW M \in [P -> Seq(T)], NEW A,
         Once(P, L, A), NEW p \in P, NEW z \in P, p # z,
         M[p] = <<>>, M[z] = L[z] \o L[p], \A q \in P : q # p /\ q # z => M[q] = L[q]
  PROVE  Once(P, M, A)
<1> DEFINE a == Len(L[z])
           b == Len(L[p])
<1>1. a \in Nat /\ b \in Nat /\ Len(M[z]) = a + b /\ 1 .. Len(M[p]) = {}
  OBVIOUS
<1>2. \A n \in 1 .. a : n \in 1 .. Len(M[z]) /\ M[z][n] = L[z][n]
  BY <1>1
<1>3. \A n \in 1 .. b : a + n \in 1 .. Len(M[z]) /\ M[z][a + n] = L[p][n]
  <2> TAKE n \in 1 .. b
  <2>1. a + n \in 1 .. Len(M[z]) /\ ~ (a + n <= a) /\ (a + n) - a = n
    BY <1>1
  <2>2. L[z] \in Seq(T) /\ L[p] \in Seq(T)
    OBVIOUS
  <2> QED BY <2>1, <2>2, <1>1
<1>4. \A n \in 1 .. Len(M[z]) : n \in 1 .. a \/ \E k \in 1 .. b : n = a + k
  <2> TAKE n \in 1 .. Len(M[z])
  <2>1. n \in 1 .. a \/ (n - a \in 1 .. b /\ n = a + (n - a))
    BY <1>1
  <2> QED BY <2>1
<1>5. \A q \in P : \A n \in 1 .. Len(M[q]) :
        \/ q # p /\ n \in 1 .. Len(L[q]) /\ M[q][n] = L[q][n]
        \/ q = z /\ \E k \in 1 .. b : n = a + k /\ M[q][n] = L[p][k]
  <2> TAKE q \in P
  <2>1. CASE q = z
    BY <2>1, <1>2, <1>3, <1>4
  <2>2. CASE q # z
    BY <2>2, <1>1
  <2> QED BY <2>1, <2>2
<1>6. \A q \in P : \A n \in 1 .. Len(M[q]) : M[q][n] \in A
  <2>1. \A q \in P : \A n \in 1 .. Len(L[q]) : L[q][n] \in A
    BY DEF Once
  <2>2. \A k \in 1 .. b : L[p][k] \in A
    BY <2>1
  <2> QED BY ONLY <1>5, <2>1, <2>2
<1>7. \A x \in A : \E q \in P : \E n \in 1 .. Len(M[q]) : M[q][n] = x
  <2> TAKE x \in A
  <2>1. PICK q \in P : \E n \in 1 .. Len(L[q]) : L[q][n] = x
    BY DEF Once
  <2>2. CASE q = p
    BY <2>1, <2>2, <1>3
  <2>3. CASE q = z
    BY <2>1, <2>3, <1>2
  <2>4. CASE q # p /\ q # z
    BY <2>1, <2>4
  <2> QED BY <2>2, <2>3, <2>4
<1>8. ASSUME NEW q \in P, NEW r \in P, NEW n \in 1 .. Len(M[q]), NEW m \in 1 .. Len(M[r]),
             M[q][n] = M[r][m]
      PROVE  q = r /\ n = m
  <2>1. \/ q # p /\ n \in 1 .. Len(L[q]) /\ M[q][n] = L[q][n]
        \/ q = z /\ \E k \in 1 .. b : n = a + k /\ M[q][n] = L[p][k]
    BY <1>5
  <2>2. \/ r # p /\ m \in 1 .. Len(L[r]) /\ M[r][m] = L[r][m]
        \/ r = z /\ \E k \in 1 .. b : m = a + k /\ M[r][m] = L[p][k]
    BY <1>5
  <2>3. \A x, y \in P : \A i \in 1 .. Len(L[x]), j \in 1 .. Len(L[y]) :
          L[x][i] = L[y][j] => x = y /\ i = j
    BY DEF Once
  <2>4. \A x \in P : \A i \in 1 .. Len(L[x]), j \in 1 .. b : L[x][i] = L[p][j] => x = p /\ i = j
    BY <2>3
  <2>5. \A i, j \in 1 .. b : L[p][i] = L[p][j] => i = j
    BY <2>4
  <2> HIDE DEF a, b
  <2> QED BY ONLY <2>1, <2>2, <2>3, <2>4, <2>5, <1>8, q \in P, r \in P
<1> QED BY ONLY <1>6, <1>7, <1>8 DEF Once

\* Removing a node takes one place out of its list.
LEMMA RemovedIs ==
  ASSUME NEW T, NEW s \in Seq(T), NEW t, NEW i \in 1 .. Len(s),
         \A j \in 1 .. Len(s) : s[j] = t <=> j = i
  PROVE  /\ RemoveFirst(s, t) \in Seq(T)
         /\ Len(RemoveFirst(s, t)) = Len(s) - 1
         /\ \A n \in 1 .. Len(s) - 1 : RemoveFirst(s, t)[n] = IF n < i THEN s[n] ELSE s[n + 1]
<1>1. {j \in 1 .. Len(s) : s[j] = t} = {i}
  OBVIOUS
<1>2. Min({i}) = i
  BY DEF Min
<1>3. SelectInSeq(s, LAMBDA v : v = t) = i
  BY <1>1, <1>2 DEF SelectInSeq
<1> DEFINE a == SubSeq(s, 1, i - 1)
           b == SubSeq(s, i + 1, Len(s))
<1>4. RemoveFirst(s, t) = a \o b
  BY <1>3 DEF RemoveFirst, RemoveAt
<1>5. a \in Seq(T) /\ Len(a) = i - 1 /\ \A n \in 1 .. i - 1 : a[n] = s[n]
  OBVIOUS
<1>6. b \in Seq(T) /\ Len(b) = Len(s) - i /\ \A n \in 1 .. Len(s) - i : b[n] = s[n + i]
  OBVIOUS
<1> HIDE DEF a, b
<1>7. a \o b \in Seq(T) /\ Len(a \o b) = Len(s) - 1
  <2>1. a \o b \in Seq(T) /\ Len(a \o b) = Len(a) + Len(b)
    BY <1>5, <1>6, ConcatProperties
  <2> QED BY <2>1, <1>5, <1>6
<1>8. \A n \in 1 .. Len(s) - 1 : (a \o b)[n] = IF n < i THEN s[n] ELSE s[n + 1]
  <2> TAKE n \in 1 .. Len(s) - 1
  <2>1. CASE n < i
    BY <2>1, <1>5, <1>6
  <2>2. CASE ~ (n < i)
    <3>1. n - (i - 1) \in 1 .. Len(s) - i /\ (n - (i - 1)) + i = n + 1 /\ ~ (n <= i - 1)
      BY <2>2
    <3>2. (a \o b)[n] = b[n - (i - 1)]
      BY <1>5, <1>6, <3>1
    <3> QED BY <1>6, <2>2, <3>1, <3>2
  <2> QED BY <2>1, <2>2
<1> QED BY <1>4, <1>7, <1>8

\* A member is taken out, wherever it is.
LEMMA OnceRemoved ==
  ASSUME NEW P, NEW T, NEW L \in [P -> Seq(T)], NEW M, NEW A,
         Once(P, L, A), NEW t,
         \A q \in P : M[q] = RemoveFirst(L[q], t)
  PROVE  /\ \A q \in P : M[q] \in Seq(T)
         /\ Once(P, M, A \ {t})
<1>0. \A x, y \in P : \A i \in 1 .. Len(L[x]), j \in 1 .. Len(L[y]) :
        L[x][i] = L[y][j] => x = y /\ i = j
  BY DEF Once
<1>1. ASSUME NEW q \in P, \A n \in 1 .. Len(L[q]) : L[q][n] # t
      PROVE  M[q] = L[q]
  BY <1>1 DEF RemoveFirst
<1>2. CASE t \notin A
  <2>1. \A q \in P : \A n \in 1 .. Len(L[q]) : L[q][n] # t
    BY <1>2 DEF Once
  <2>2. \A q \in P : M[q] = L[q]
    BY <1>1, <2>1
  <2>3. A \ {t} = A
    BY <1>2
  <2> QED BY <2>2, <2>3 DEF Once
<1>3. CASE t \in A
  <2>1. PICK p \in P : \E n \in 1 .. Len(L[p]) : L[p][n] = t
    BY <1>3 DEF Once
  <2>2. PICK i \in 1 .. Len(L[p]) : L[p][i] = t
    BY <2>1
  <2>3. \A q \in P : \A n \in 1 .. Len(L[q]) : L[q][n] = t <=> q = p /\ n = i
    BY <1>0, <2>2
  <2>4. \A q \in P : q # p => M[q] = L[q]
    BY <1>1, <2>3
  <2>5. L[p] \in Seq(T) /\ \A j \in 1 .. Len(L[p]) : L[p][j] = t <=> j = i
    BY <2>3
  <2> DEFINE l == L[p]
             m == M[p]
  <2>6. /\ m \in Seq(T) /\ Len(m) = Len(l) - 1
        /\ \A n \in 1 .. Len(l) - 1 : m[n] = IF n < i THEN l[n] ELSE l[n + 1]
    BY <2>5, RemovedIs
  <2> DEFINE Old(q, n) == IF q = p /\ n >= i THEN n + 1 ELSE n
  <2>7. \A q \in P : \A n \in 1 .. Len(M[q]) :
          Old(q, n) \in 1 .. Len(L[q]) /\ M[q][n] = L[q][Old(q, n)] /\ ~ (q = p /\ Old(q, n) = i)
    <3>1. \A n \in 1 .. Len(m) : /\ (IF n >= i THEN n + 1 ELSE n) \in 1 .. Len(l)
                                 /\ m[n] = l[IF n >= i THEN n + 1 ELSE n]
                                 /\ (IF n >= i THEN n + 1 ELSE n) # i
      <4> HIDE DEF l, m
      <4>1. l \in Seq(T) /\ i \in 1 .. Len(l)
        BY <2>5 DEF l
      <4> QED BY <2>6, <4>1
    <3>2. \A q \in P : q # p => M[q] = L[q] /\ \A n \in 1 .. Len(M[q]) : Old(q, n) = n
      BY <2>4
    <3> QED BY <3>1, <3>2
  <2>8. \A q \in P : \A k \in 1 .. Len(L[q]) :
          ~ (q = p /\ k = i) => \E n \in 1 .. Len(M[q]) : M[q][n] = L[q][k]
    <3>1. \A k \in 1 .. Len(l) : k # i => \E n \in 1 .. Len(m) : m[n] = l[k]
      <4> HIDE DEF l, m
      <4>1. l \in Seq(T) /\ i \in 1 .. Len(l)
        BY <2>5 DEF l
      <4> TAKE k \in 1 .. Len(l)
      <4> HAVE k # i
      <4>2. CASE k < i
        <5>1. k \in 1 .. Len(m) /\ m[k] = l[k]
          BY <2>6, <4>1, <4>2
        <5> QED BY <5>1
      <4>3. CASE k > i
        <5>1. k - 1 \in 1 .. Len(m) /\ m[k - 1] = l[k]
          <6>1. k - 1 \in 1 .. Len(l) - 1 /\ ~ (k - 1 < i) /\ (k - 1) + 1 = k
            BY <4>1, <4>3
          <6> QED BY <2>6, <6>1
        <5> QED BY <5>1
      <4> QED BY <4>1, <4>2, <4>3
    <3> QED BY <2>4, <3>1
  <2>9. \A q \in P : M[q] \in Seq(T)
    BY <2>4, <2>6
  <2>10. \A q \in P : \A n \in 1 .. Len(M[q]) : M[q][n] \in A \ {t}
    <3>1. \A q \in P : \A n \in 1 .. Len(L[q]) : L[q][n] \in A
      BY DEF Once
    <3> HIDE DEF Old
    <3> QED BY <2>3, <2>7, <3>1
  <2>11. \A x \in A \ {t} : \E q \in P : \E n \in 1 .. Len(M[q]) : M[q][n] = x
    <3> TAKE x \in A \ {t}
    <3>1. PICK q \in P : \E n \in 1 .. Len(L[q]) : L[q][n] = x
      BY DEF Once
    <3>2. PICK k \in 1 .. Len(L[q]) : L[q][k] = x
      BY <3>1
    <3>3. ~ (q = p /\ k = i)
      BY <2>2, <3>2
    <3> QED BY <2>8, <3>2, <3>3
  <2>12. ASSUME NEW q \in P, NEW r \in P, NEW n \in 1 .. Len(M[q]), NEW k \in 1 .. Len(M[r]),
                M[q][n] = M[r][k]
         PROVE  q = r /\ n = k
    <3>1. q = r /\ Old(q, n) = Old(r, k)
      <4>1. Old(q, n) \in 1 .. Len(L[q]) /\ M[q][n] = L[q][Old(q, n)]
        BY <2>7
      <4>2. Old(r, k) \in 1 .. Len(L[r]) /\ M[r][k] = L[r][Old(r, k)]
        BY <2>7
      <4>3. PICK c \in 1 .. Len(L[q]) : c = Old(q, n)
        BY <4>1
      <4>4. PICK d \in 1 .. Len(L[r]) : d = Old(r, k)
        BY <4>2
      <4> HIDE DEF Old
      <4>5. L[q][c] = L[r][d]
        BY ONLY <2>12, <4>1, <4>2, <4>3, <4>4
      <4>6. q = r /\ c = d
        BY ONLY <1>0, <4>5, q \in P, r \in P, c \in 1 .. Len(L[q]), d \in 1 .. Len(L[r])
      <4> QED BY ONLY <4>3, <4>4, <4>6
    <3>2. n \in Int /\ k \in Int /\ i \in Int
      OBVIOUS
    <3> QED BY <3>1, <3>2
  <2> QED BY <2>9, <2>10, <2>11, <2>12 DEF Once
<1> QED BY <1>2, <1>3

-----------------------------------------------------------------------------
(* TimerWheel                                                              *)

-----------------------------------------------------------------------------
(* The wheels                                                              *)

\* The highest wheel.
Top == Len(Size)

\* There is a lowest wheel, and no wheel is empty.
LEMMA SizesOK == Top \in Nat \ {0} /\ Wheels = 1 .. Top /\ \A i \in Wheels : Size[i] \in Nat \ {0}
BY SizeAssumption DEF Wheels, Top

\* How many ticks the wheels up to i span.
LEMMA CapOK ==
  /\ Cap \in [0 .. Top -> Nat \ {0}]
  /\ Cap[0] = 1
  /\ \A i \in Wheels : Cap[i] = Cap[i - 1] * Size[i]
<1> DEFINE S == Nat \ {0}
           G == [x \in (1 .. Top) \X S |-> x[2] * Size[x[1]]]
<1>1. Top \in Nat /\ \A i \in 1 .. Top : Size[i] \in S
  BY SizesOK
<1>2. \A a, b \in S : a * b \in S
  OBVIOUS
<1>3. G \in [(1 .. Top) \X S -> S]
  BY <1>1, <1>2
<1>4. 1 \in S
  OBVIOUS
<1> HIDE DEF S, G
<1>5. PICK f : Runs(f, Top, S, 1, G)
  BY <1>1, <1>3, <1>4, Passes
<1>6. \A k \in 1 .. Top : k - 1 \in 0 .. Top /\ k \in 0 .. Top /\ k # 0
  BY <1>1
<1>7. \A k \in 1 .. Top : f[k] = f[k - 1] * Size[k]
  BY <1>5, <1>6 DEF G, Runs
<1>8. \A k \in 0 .. Top : k # 0 => k \in 1 .. Top
  BY <1>1
<1>9. f = [k \in 0 .. Len(Size) |-> IF k = 0 THEN 1 ELSE f[k - 1] * Size[k]]
  BY <1>5, <1>7, <1>8 DEF Top, Runs
<1> DEFINE h == CHOOSE g : g = [k \in 0 .. Len(Size) |-> IF k = 0 THEN 1 ELSE g[k - 1] * Size[k]]
<1>10. h = [k \in 0 .. Len(Size) |-> IF k = 0 THEN 1 ELSE h[k - 1] * Size[k]]
  BY <1>9
<1>10a. Cap = h
  BY DEF Cap
<1>10b. Cap = [k \in 0 .. Top |-> IF k = 0 THEN 1 ELSE Cap[k - 1] * Size[k]]
  BY <1>10, <1>10a DEF Top
<1>11. Cap[0] = 1 /\ \A k \in 1 .. Top : Cap[k] = Cap[k - 1] * Size[k]
  BY <1>1, <1>6, <1>10b
<1>12. \A k \in 1 .. Top : Cap[k - 1] \in S => Cap[k] \in S
  BY <1>1, <1>2, <1>11
<1>13. \A k \in 0 .. Top : Cap[k] \in S
  BY <1>1, <1>4, <1>11, <1>12, Kept
<1>14. Cap \in [0 .. Top -> S]
  BY <1>10b, <1>13
<1> QED BY <1>11, <1>14, SizesOK DEF S

\* The slots of a wheel.
Rows == UNION {[0 .. Size[i] - 1 -> Seq(Timers)] : i \in Wheels}

\* The values of w.
WheelStates ==
  {v \in [idx : [Wheels -> Nat], slot : [Wheels -> Rows], ready : Seq(Timers)] :
     \A i \in Wheels : /\ v.idx[i] \in 0 .. Size[i] - 1
                       /\ v.slot[i] \in [0 .. Size[i] - 1 -> Seq(Timers)]}

\* One slot is changed, or one wheel turned, and nothing else.
SlotNow(u, v, i, k, s) ==
  \A j \in Wheels : \A l \in 0 .. Size[j] - 1 :
    u.slot[j][l] = IF j = i /\ l = k THEN s ELSE v.slot[j][l]
IdxNow(u, v, i, x) == \A j \in Wheels : u.idx[j] = IF j = i THEN x ELSE v.idx[j]

\* One slot is written.
LEMMA SlotSet ==
  ASSUME NEW v \in WheelStates, NEW i \in Wheels, NEW k \in 0 .. Size[i] - 1, NEW s \in Seq(Timers),
         NEW u,
         u = [idx |-> v.idx, slot |-> [v.slot EXCEPT ![i] = [v.slot[i] EXCEPT ![k] = s]],
              ready |-> v.ready]
  PROVE  /\ u \in WheelStates /\ u.idx = v.idx /\ u.ready = v.ready
         /\ SlotNow(u, v, i, k, s)
<1> DEFINE row == [v.slot[i] EXCEPT ![k] = s]
<1>1. v.slot[i] \in [0 .. Size[i] - 1 -> Seq(Timers)]
  BY DEF WheelStates
<1>2. row \in [0 .. Size[i] - 1 -> Seq(Timers)] /\ \A l \in 0 .. Size[i] - 1 : row[l] = IF l = k THEN s ELSE v.slot[i][l]
  BY <1>1
<1>3. row \in Rows
  BY <1>2 DEF Rows
<1> DEFINE sl == [v.slot EXCEPT ![i] = row]
<1>4. v.slot \in [Wheels -> Rows]
  BY DEF WheelStates
<1> HIDE DEF row
<1>5. sl \in [Wheels -> Rows] /\ \A j \in Wheels : sl[j] = IF j = i THEN row ELSE v.slot[j]
  BY <1>3, <1>4
<1>6. u = [idx |-> v.idx, slot |-> sl, ready |-> v.ready]
  BY DEF WheelStates, row
<1> HIDE DEF sl
<1>7. u.idx = v.idx /\ u.slot = sl /\ u.ready = v.ready
  BY <1>6
<1>7a. v.idx \in [Wheels -> Nat] /\ v.ready \in Seq(Timers)
  BY DEF WheelStates
<1>8. u \in [idx : [Wheels -> Nat], slot : [Wheels -> Rows], ready : Seq(Timers)]
  BY ONLY <1>5, <1>6, <1>7a
<1>9. u \in WheelStates
  BY <1>2, <1>5, <1>7, <1>8 DEF WheelStates
<1>10. ASSUME NEW j \in Wheels, NEW l \in 0 .. Size[j] - 1
       PROVE  u.slot[j][l] = IF j = i /\ l = k THEN s ELSE v.slot[j][l]
  <2>1. CASE j = i
    BY ONLY <1>2, <1>5, <1>7, <2>1, <1>10
  <2>2. CASE j # i
    BY ONLY <1>5, <1>7, <2>2, <1>10
  <2> QED BY <2>1, <2>2
<1> QED BY <1>7, <1>9, <1>10 DEF SlotNow

\* The ready list is written.
LEMMA ReadySet ==
  ASSUME NEW v \in WheelStates, NEW s \in Seq(Timers), NEW u,
         u = [idx |-> v.idx, slot |-> v.slot, ready |-> s]
  PROVE  u \in WheelStates /\ u.idx = v.idx /\ u.slot = v.slot /\ u.ready = s
<1>1. u = [idx |-> v.idx, slot |-> v.slot, ready |-> s]
  BY DEF WheelStates
<1>2. u.idx = v.idx /\ u.slot = v.slot /\ u.ready = s
  BY <1>1
<1>3. u \in [idx : [Wheels -> Nat], slot : [Wheels -> Rows], ready : Seq(Timers)]
  <2>1. v.idx \in [Wheels -> Nat] /\ v.slot \in [Wheels -> Rows]
    BY DEF WheelStates
  <2> QED BY ONLY <1>1, <2>1, s \in Seq(Timers)
<1> QED BY <1>2, <1>3 DEF WheelStates

\* One wheel is turned to x.
LEMMA IdxSet ==
  ASSUME NEW v \in WheelStates, NEW i \in Wheels, NEW x \in 0 .. Size[i] - 1,
         NEW u, u = [idx |-> [v.idx EXCEPT ![i] = x], slot |-> v.slot, ready |-> v.ready]
  PROVE  /\ u \in WheelStates /\ u.slot = v.slot /\ u.ready = v.ready
         /\ IdxNow(u, v, i, x)
<1> DEFINE id == [v.idx EXCEPT ![i] = x]
<1>1. v.idx \in [Wheels -> Nat] /\ x \in Nat
  BY SizesOK DEF WheelStates
<1>2. id \in [Wheels -> Nat] /\ \A j \in Wheels : id[j] = IF j = i THEN x ELSE v.idx[j]
  BY <1>1
<1>3. u = [idx |-> id, slot |-> v.slot, ready |-> v.ready]
  BY DEF WheelStates
<1> HIDE DEF id
<1>4. u.idx = id /\ u.slot = v.slot /\ u.ready = v.ready
  BY <1>3
<1>5. u \in [idx : [Wheels -> Nat], slot : [Wheels -> Rows], ready : Seq(Timers)]
  <2>1. v.slot \in [Wheels -> Rows] /\ v.ready \in Seq(Timers)
    BY DEF WheelStates
  <2> QED BY ONLY <1>2, <1>3, <2>1
<1> QED BY <1>2, <1>4, <1>5 DEF WheelStates, IdxNow

\* A turn of wheel i: the slot it was at is empty, and it is at the next one.
LEMMA TurnOK ==
  ASSUME NEW v \in WheelStates, NEW i \in Wheels, NEW u, u = Turn(v, i)
  PROVE  /\ u \in WheelStates /\ u.ready = v.ready
         /\ IdxNow(u, v, i, (v.idx[i] + 1) % Size[i])
         /\ SlotNow(u, v, i, v.idx[i], <<>>)
<1> DEFINE k == v.idx[i]
           e == <<>>
           y == (k + 1) % Size[i]
<1>1. k \in 0 .. Size[i] - 1 /\ Size[i] \in Nat \ {0}
  BY SizesOK DEF WheelStates
<1>2. e \in Seq(Timers)
  OBVIOUS
<1>3. y \in 0 .. Size[i] - 1
  BY <1>1
<1>4. PICK x : x = [idx |-> v.idx, slot |-> [v.slot EXCEPT ![i] = [v.slot[i] EXCEPT ![k] = e]],
                    ready |-> v.ready]
  OBVIOUS
<1>5. u = [idx |-> [x.idx EXCEPT ![i] = y], slot |-> x.slot, ready |-> x.ready]
  BY <1>4 DEF Turn, WheelStates
<1> HIDE DEF k, e, y
<1>6. x \in WheelStates /\ x.idx = v.idx /\ x.ready = v.ready /\ SlotNow(x, v, i, k, e)
  BY ONLY <1>1, <1>2, <1>4, SlotSet, v \in WheelStates, i \in Wheels
<1>7. u \in WheelStates /\ u.slot = x.slot /\ u.ready = x.ready /\ IdxNow(u, x, i, y)
  BY ONLY <1>3, <1>5, <1>6, IdxSet, i \in Wheels
<1> QED BY <1>6, <1>7 DEF k, e, y, SlotNow, IdxNow

-----------------------------------------------------------------------------
(* Putting a timer into a slot                                             *)

\* The wheel a delay goes to spans it, and the wheel below does not.
LEMMA WheelForOK ==
  ASSUME NEW ms \in 0 .. Word - 1
  PROVE  /\ ms \div Tick \in Nat
         /\ WheelFor(ms \div Tick) \in Wheels
         /\ ms \div Tick < Cap[WheelFor(ms \div Tick)]
         /\ WheelFor(ms \div Tick) > 1 => Cap[WheelFor(ms \div Tick) - 1] <= ms \div Tick
<1> DEFINE n == ms \div Tick
           S == {i \in Wheels : n < Cap[i]}
           i == WheelFor(n)
<1>1. n \in Nat
  BY TickAssumption, DelayAssumption
<1>2. Top \in S
  BY ReachAssumption, SizesOK DEF Top
<1>3. S \in SUBSET Nat /\ S # {}
  BY <1>2, SizesOK
<1>4. i = CHOOSE x \in S : \A y \in S : x =< y
  BY DEF WheelFor, Min
<1> HIDE DEF S, i
<1>5. \E x \in S : \A y \in S : x <= y
  BY <1>3, Least
<1>6. i \in S /\ \A y \in S : i <= y
  BY <1>4, <1>5
<1> HIDE DEF n
<1>7. i > 1 => Cap[i - 1] <= n
  <2> HAVE i > 1
  <2>1. i \in 1 .. Top /\ Top \in Nat
    BY <1>6, SizesOK DEF S
  <2>2. i - 1 \in 1 .. Top /\ ~ (i <= i - 1)
    BY <2>1
  <2>3. i - 1 \notin S
    BY <1>6, <2>2
  <2>4. i - 1 \in Wheels
    BY <2>2, SizesOK
  <2>5. ~ (n < Cap[i - 1])
    BY <2>3, <2>4 DEF S
  <2>6. Cap[i - 1] \in Nat
    BY <2>2, CapOK
  <2> QED BY <1>1, <2>5, <2>6
<1>8. i \in Wheels /\ n < Cap[i]
  BY <1>6 DEF S
<1> QED BY <1>1, <1>7, <1>8 DEF n, i

\* The slot Put chooses: so many ahead of the one its wheel is at.
Ahead(i, n) == IF i = 1 THEN n ELSE n \div Cap[i - 1] - 1
SlotOf(v, i, n) == (v.idx[i] + Ahead(i, n)) % Size[i]

\* The slot of it is less than a turn ahead, and not before the wheel below comes round.
LEMMA AheadOK ==
  ASSUME NEW i \in Wheels, NEW n \in Nat, n < Cap[i], i > 1 => Cap[i - 1] <= n
  PROVE  /\ Ahead(i, n) \in 0 .. Size[i] - 1
         /\ i > 1 => (Ahead(i, n) + 1) * Cap[i - 1] <= n
<1>1. i \in Nat /\ i >= 1 /\ i - 1 \in 0 .. Top /\ Size[i] \in Nat \ {0}
  BY SizesOK
<1>2. CASE i = 1
  <2>1. Cap[1] = 1 * Size[1]
    BY <1>1, <1>2, CapOK
  <2> QED BY <1>1, <1>2, <2>1 DEF Ahead
<1>3. CASE i > 1
  <2> DEFINE c == Cap[i - 1]
             q == n \div c
             z == Size[i]
  <2>1. c \in Nat \ {0} /\ Cap[i] = c * z
    BY <1>1, CapOK
  <2>2. z \in Nat \ {0} /\ n < c * z /\ c <= n
    BY <1>1, <1>3, <2>1
  <2> HIDE DEF c, z
  <2>3. q \in Nat /\ c * q <= n /\ n < c * q + c
    BY <2>1
  <2> HIDE DEF q
  <2>4. q < z
    BY <2>1, <2>2, <2>3
  <2>5. q >= 1
    BY <2>1, <2>2, <2>3
  <2>6. (q - 1 + 1) * c <= n
    BY <2>1, <2>3
  <2>7. Ahead(i, n) = q - 1
    BY <1>3 DEF Ahead, q, c
  <2>8. Ahead(i, n) \in 0 .. z - 1
    BY <2>2, <2>3, <2>4, <2>5, <2>7
  <2> QED BY <2>6, <2>7, <2>8 DEF c, z
<1> QED BY <1>1, <1>2, <1>3

\* Put appends to one slot and changes nothing else.
LEMMA PutOK ==
  ASSUME NEW v \in WheelStates, NEW t \in Timers, NEW ms \in 0 .. Word - 1, NEW u, u = Put(v, t, ms),
         NEW n, n = ms \div Tick, NEW i, i = WheelFor(n), NEW k, k = SlotOf(v, i, n)
  PROVE  /\ i \in Wheels /\ k \in 0 .. Size[i] - 1
         /\ u \in WheelStates /\ u.idx = v.idx /\ u.ready = v.ready
         /\ SlotNow(u, v, i, k, Append(v.slot[i][k], t))
<1>1. n \in Nat /\ i \in Wheels /\ n < Cap[i] /\ (i > 1 => Cap[i - 1] <= n)
  BY WheelForOK
<1>2. Ahead(i, n) \in 0 .. Size[i] - 1
  BY <1>1, AheadOK
<1>3. Size[i] \in Nat \ {0} /\ v.idx[i] \in Nat
  BY <1>1, SizesOK DEF WheelStates
<1>4. k \in 0 .. Size[i] - 1
  BY <1>2, <1>3 DEF SlotOf
<1> DEFINE s == Append(v.slot[i][k], t)
<1>5. s \in Seq(Timers)
  <2>1. v.slot[i][k] \in Seq(Timers)
    BY <1>1, <1>4 DEF WheelStates
  <2> QED BY <2>1
<1>6. u = [v EXCEPT !.slot[i][k] = Append(@, t)]
  BY DEF Put, SlotOf, Ahead
<1>7. u = [idx |-> v.idx, slot |-> [v.slot EXCEPT ![i] = [v.slot[i] EXCEPT ![k] = s]],
           ready |-> v.ready]
  BY <1>1, <1>4, <1>6 DEF WheelStates
<1> HIDE DEF s
<1>8. u \in WheelStates /\ u.idx = v.idx /\ u.ready = v.ready /\ SlotNow(u, v, i, k, s)
  BY ONLY <1>1, <1>4, <1>5, <1>7, SlotSet, v \in WheelStates
<1> QED BY <1>1, <1>4, <1>8 DEF s

-----------------------------------------------------------------------------
(* The lists of the wheels                                                 *)

\* The lists by place.
Ready == <<0, 0>>
Spots == {Ready} \cup UNION {{<<i, k>> : k \in 0 .. Size[i] - 1} : i \in Wheels}
Lists(v) == [p \in Spots |-> IF p = Ready THEN v.ready ELSE v.slot[p[1]][p[2]]]

\* The timers of A are each in one list, at one place of it.
Holds(v, A) == v \in WheelStates /\ Once(Spots, Lists(v), A)

\* The places of the lists are the ready list and the slots.
LEMMA SpotOK ==
  /\ Ready \in Spots
  /\ \A i \in Wheels : \A k \in 0 .. Size[i] - 1 : <<i, k>> \in Spots /\ <<i, k>> # Ready
  /\ \A p \in Spots : p # Ready => \E i \in Wheels : \E k \in 0 .. Size[i] - 1 : p = <<i, k>>
<1>1. \A i \in Wheels : i # 0
  BY SizesOK
<1> QED BY <1>1 DEF Ready, Spots

\* The lists of v by place.
LEMMA ListsOK ==
  ASSUME NEW v \in WheelStates
  PROVE  /\ Lists(v) \in [Spots -> Seq(Timers)]
         /\ Lists(v)[Ready] = v.ready
         /\ \A i \in Wheels : \A k \in 0 .. Size[i] - 1 : Lists(v)[<<i, k>>] = v.slot[i][k]
<1>1. \A i \in Wheels : \A k \in 0 .. Size[i] - 1 : Lists(v)[<<i, k>>] = v.slot[i][k]
  BY SpotOK DEF Lists
<1>2. Lists(v)[Ready] = v.ready
  BY SpotOK DEF Lists
<1>3. ASSUME NEW p \in Spots PROVE Lists(v)[p] \in Seq(Timers)
  <2>1. CASE p = Ready
    BY <1>2, <2>1 DEF WheelStates
  <2>2. CASE p # Ready
    <3>1. PICK i \in Wheels : \E k \in 0 .. Size[i] - 1 : p = <<i, k>>
      BY <2>2, SpotOK
    <3>2. PICK k \in 0 .. Size[i] - 1 : p = <<i, k>>
      BY <3>1
    <3>3. v.slot[i][k] \in Seq(Timers)
      BY DEF WheelStates
    <3> QED BY <1>1, <3>2, <3>3
  <2> QED BY <2>1, <2>2
<1>4. Lists(v) = [p \in Spots |-> Lists(v)[p]]
  BY DEF Lists
<1> QED BY <1>1, <1>2, <1>3, <1>4

\* The lists when one slot is changed.
LEMMA ListChanged ==
  ASSUME NEW v \in WheelStates, NEW u \in WheelStates, u.ready = v.ready,
         NEW i \in Wheels, NEW k \in 0 .. Size[i] - 1, NEW s, SlotNow(u, v, i, k, s)
  PROVE  /\ Lists(u)[<<i, k>>] = s
         /\ \A q \in Spots : q # <<i, k>> => Lists(u)[q] = Lists(v)[q]
<1>1. Lists(u)[<<i, k>>] = s
  BY ListsOK DEF SlotNow
<1>2. ASSUME NEW q \in Spots, q # <<i, k>> PROVE Lists(u)[q] = Lists(v)[q]
  <2>1. CASE q = Ready
    BY <2>1, ListsOK
  <2>2. CASE q # Ready
    <3>1. PICK j \in Wheels : \E l \in 0 .. Size[j] - 1 : q = <<j, l>>
      BY <2>2, SpotOK
    <3>2. PICK l \in 0 .. Size[j] - 1 : q = <<j, l>>
      BY <3>1
    <3>3. ~ (j = i /\ l = k)
      BY <1>2, <3>2
    <3>4. u.slot[j][l] = v.slot[j][l]
      BY <3>3 DEF SlotNow
    <3>5. Lists(u)[<<j, l>>] = u.slot[j][l] /\ Lists(v)[<<j, l>>] = v.slot[j][l]
      BY ListsOK
    <3> QED BY <3>2, <3>4, <3>5
  <2> QED BY <2>1, <2>2
<1> QED BY <1>1, <1>2

\* A timer that is in no list is put into one.
LEMMA PutHolds ==
  ASSUME NEW A, NEW v, Holds(v, A), NEW t \in Timers, t \notin A, NEW ms \in 0 .. Word - 1
  PROVE  Holds(Put(v, t, ms), A \cup {t})
<1> DEFINE u == Put(v, t, ms)
           n == ms \div Tick
           i == WheelFor(n)
           k == SlotOf(v, i, n)
<1>1. v \in WheelStates /\ Once(Spots, Lists(v), A)
  BY DEF Holds
<1> HIDE DEF u, n, i, k
<1>2. /\ i \in Wheels /\ k \in 0 .. Size[i] - 1
      /\ u \in WheelStates /\ u.idx = v.idx /\ u.ready = v.ready
      /\ SlotNow(u, v, i, k, Append(v.slot[i][k], t))
  BY <1>1, PutOK DEF u, n, i, k
<1>3. /\ Lists(u)[<<i, k>>] = Append(v.slot[i][k], t)
      /\ \A q \in Spots : q # <<i, k>> => Lists(u)[q] = Lists(v)[q]
  BY <1>1, <1>2, ListChanged
<1>4. <<i, k>> \in Spots /\ Lists(v)[<<i, k>>] = v.slot[i][k]
  BY <1>1, <1>2, SpotOK, ListsOK
<1>5. Lists(u) \in [Spots -> Seq(Timers)] /\ Lists(v) \in [Spots -> Seq(Timers)]
  BY <1>1, <1>2, ListsOK
<1> DEFINE p == <<i, k>>
           L == Lists(v)
           M == Lists(u)
<1>6. p \in Spots /\ M[p] = Append(L[p], t) /\ \A q \in Spots : q # p => M[q] = L[q]
  BY <1>3, <1>4
<1> HIDE DEF p, L, M
<1>7. Once(Spots, M, A \cup {t})
  BY <1>1, <1>5, <1>6, OnceAppend DEF L, M
<1> QED BY <1>2, <1>7 DEF Holds, M, u

\* A timer that is in no list is made ready.
LEMMA ReadyAppendHolds ==
  ASSUME NEW A, NEW v, Holds(v, A), NEW t \in Timers, t \notin A
  PROVE  Holds([v EXCEPT !.ready = Append(@, t)], A \cup {t})
<1> DEFINE u == [v EXCEPT !.ready = Append(@, t)]
           s == Append(v.ready, t)
<1>1. v \in WheelStates /\ Once(Spots, Lists(v), A)
  BY DEF Holds
<1>2. u = [idx |-> v.idx, slot |-> v.slot, ready |-> s]
  <2>1. u = [v EXCEPT !.ready = s]
    OBVIOUS
  <2> HIDE DEF u, s
  <2> QED BY <1>1, <2>1 DEF WheelStates
<1>3. s \in Seq(Timers)
  BY <1>1 DEF WheelStates
<1> HIDE DEF u, s
<1>4. u \in WheelStates /\ u.idx = v.idx /\ u.slot = v.slot /\ u.ready = s
  BY <1>1, <1>2, <1>3, ReadySet
<1> DEFINE p == Ready
           L == Lists(v)
           M == Lists(u)
<1>5. L \in [Spots -> Seq(Timers)] /\ M \in [Spots -> Seq(Timers)]
  BY <1>1, <1>4, ListsOK
<1>6. p \in Spots /\ M[p] = Append(L[p], t) /\ \A q \in Spots : q # p => M[q] = L[q]
  BY <1>1, <1>4, SpotOK, ListsOK DEF s, Lists
<1> HIDE DEF p, L, M
<1>7. Once(Spots, M, A \cup {t})
  BY <1>1, <1>5, <1>6, OnceAppend DEF L
<1> QED BY <1>4, <1>7 DEF Holds, M, u

\* A turn takes the nodes of the slot out of the lists.
LEMMA TurnHolds ==
  ASSUME NEW A, NEW v, Holds(v, A), NEW i \in Wheels
  PROVE  Holds(Turn(v, i), A \ Elems(Current(v, i)))
<1> DEFINE u == Turn(v, i)
           k == v.idx[i]
           e == <<>>
<1>1. v \in WheelStates /\ Once(Spots, Lists(v), A)
  BY DEF Holds
<1>2. u \in WheelStates /\ u.ready = v.ready /\ SlotNow(u, v, i, k, e)
  BY <1>1, TurnOK
<1>3. k \in 0 .. Size[i] - 1
  BY <1>1 DEF WheelStates
<1>4. Current(v, i) = v.slot[i][k]
  BY DEF Current
<1> HIDE DEF u, k, e
<1>5. Lists(u)[<<i, k>>] = e /\ \A q \in Spots : q # <<i, k>> => Lists(u)[q] = Lists(v)[q]
  BY <1>1, <1>2, <1>3, ListChanged
<1> DEFINE p == <<i, k>>
           L == Lists(v)
           M == Lists(u)
<1>6. p \in Spots /\ M[p] = <<>> /\ (\A q \in Spots : q # p => M[q] = L[q]) /\ L[p] = Current(v, i)
  BY <1>1, <1>3, <1>4, <1>5, SpotOK, ListsOK DEF e
<1>7. L \in [Spots -> Seq(Timers)] /\ M \in [Spots -> Seq(Timers)]
  BY <1>1, <1>2, ListsOK
<1> HIDE DEF p, L, M
<1>8. Once(Spots, M, A \ Elems(L[p]))
  BY <1>1, <1>6, <1>7, OnceEmptied DEF L
<1> QED BY <1>2, <1>6, <1>8 DEF Holds, M, u

\* The nodes of a slot are different ones, of A.
LEMMA CurrentOnce ==
  ASSUME NEW A, NEW v, Holds(v, A), NEW i \in Wheels
  PROVE  /\ Current(v, i) \in Seq(Timers)
         /\ Elems(Current(v, i)) \subseteq A
         /\ \A n, m \in 1 .. Len(Current(v, i)) : Current(v, i)[n] = Current(v, i)[m] => n = m
<1> DEFINE k == v.idx[i]
<1>1. v \in WheelStates /\ Once(Spots, Lists(v), A)
  BY DEF Holds
<1>2. k \in 0 .. Size[i] - 1 /\ v.slot[i][k] \in Seq(Timers)
  BY <1>1 DEF WheelStates
<1>3. <<i, k>> \in Spots /\ Lists(v)[<<i, k>>] = Current(v, i)
  BY <1>1, <1>2, SpotOK, ListsOK DEF Current
<1> DEFINE p == <<i, k>>
           L == Lists(v)
<1>4. p \in Spots /\ L[p] = Current(v, i)
  BY <1>3
<1> HIDE DEF p, L, k
<1>5. Once(Spots, L, A)
  BY <1>1 DEF L
<1>6. \A n \in 1 .. Len(L[p]) : L[p][n] \in A
  BY <1>4, <1>5 DEF Once
<1>7. \A n, m \in 1 .. Len(L[p]) : L[p][n] = L[p][m] => n = m
  BY <1>4, <1>5 DEF Once
<1>8. Current(v, i) \in Seq(Timers)
  BY <1>2 DEF Current, k
<1> QED BY <1>4, <1>6, <1>7, <1>8 DEF Elems

\* The same of the timers that are ready.
LEMMA ReadyOnce ==
  ASSUME NEW A, NEW v, Holds(v, A)
  PROVE  /\ v.ready \in Seq(Timers)
         /\ Elems(v.ready) \subseteq A
         /\ \A n, m \in 1 .. Len(v.ready) : v.ready[n] = v.ready[m] => n = m
<1> DEFINE p == Ready
           L == Lists(v)
<1>1. v \in WheelStates /\ Once(Spots, L, A)
  BY DEF Holds
<1>2. p \in Spots /\ L[p] = v.ready /\ v.ready \in Seq(Timers)
  BY <1>1, SpotOK, ListsOK DEF WheelStates
<1> HIDE DEF p, L
<1> QED BY <1>1, <1>2 DEF Once, Elems

-----------------------------------------------------------------------------
(* The loops                                                               *)

WhenType == when \in [Timers -> Int]

\* Cascade's loop, pass by pass.
LEMMA SpreadPasses ==
  ASSUME WhenType, NEW v \in WheelStates, NEW nodes \in Seq(Timers), NEW time \in Int
  PROVE  \E u \in [0 .. Len(nodes) -> WheelStates] :
           /\ u[0] = v
           /\ \A k \in 1 .. Len(nodes) : u[k] = SpreadNode(u[k - 1], nodes[k], time)
           /\ Spread(v, nodes, time) = u[Len(nodes)]
<1> DEFINE N == Len(nodes)
           G == [x \in (1 .. N) \X WheelStates |-> SpreadNode(x[2], nodes[x[1]], time)]
<1>1. N \in Nat /\ \A k \in 1 .. N : nodes[k] \in Timers
  OBVIOUS
<1>2. ASSUME NEW x \in WheelStates, NEW t \in Timers PROVE SpreadNode(x, t, time) \in WheelStates
  <2>1. CASE when[t] <= time
    <3> DEFINE s == Append(x.ready, t)
    <3>1. s \in Seq(Timers)
      BY DEF WheelStates
    <3>2. SpreadNode(x, t, time) = [idx |-> x.idx, slot |-> x.slot, ready |-> s]
      BY <2>1 DEF SpreadNode, WheelStates
    <3> HIDE DEF s
    <3> QED BY <3>1, <3>2, ReadySet
  <2>2. CASE ~ (when[t] <= time)
    <3>1. (when[t] - time) % Word \in 0 .. Word - 1
      BY DelayAssumption DEF WhenType
    <3>2. SpreadNode(x, t, time) = Put(x, t, (when[t] - time) % Word)
      BY <2>2 DEF SpreadNode
    <3> QED BY <3>1, <3>2, PutOK
  <2> QED BY <2>1, <2>2
<1>3. G \in [(1 .. N) \X WheelStates -> WheelStates]
  BY <1>1, <1>2
<1> HIDE DEF G, N
<1>4. PICK f : Runs(f, N, WheelStates, v, G)
  BY <1>1, <1>3, Passes
<1>5. /\ f \in [0 .. N -> WheelStates] /\ f[0] = v
      /\ \A k \in 1 .. N : f[k] = SpreadNode(f[k - 1], nodes[k], time)
  <2>1. \A k \in 1 .. N : k - 1 \in 0 .. N
    BY <1>1
  <2> QED BY <1>4, <2>1 DEF Runs, G
<1>6. f = [k \in 0 .. N |-> IF k = 0 THEN v ELSE SpreadNode(f[k - 1], nodes[k], time)]
  BY <1>1, <1>4, <1>5
<1> DEFINE h == CHOOSE g : g = [k \in 0 .. N |-> IF k = 0 THEN v
                                                ELSE SpreadNode(g[k - 1], nodes[k], time)]
<1>7. h = [k \in 0 .. N |-> IF k = 0 THEN v ELSE SpreadNode(h[k - 1], nodes[k], time)]
  BY <1>6
<1>8. Spread(v, nodes, time) = h[N]
  BY DEF Spread, N
<1> HIDE DEF h
<1>9. h[0] = v /\ \A k \in 1 .. N : h[k] = SpreadNode(h[k - 1], nodes[k], time)
  BY <1>1, <1>7
<1>10. \A k \in 1 .. N : h[k - 1] \in WheelStates => h[k] \in WheelStates
  BY <1>1, <1>2, <1>9
<1>11. \A k \in 0 .. N : h[k] \in WheelStates
  BY <1>1, <1>9, <1>10, Kept
<1>12. h \in [0 .. N -> WheelStates]
  BY <1>7, <1>11
<1> QED BY <1>8, <1>9, <1>12 DEF N

\* The nodes of a slot, in no other list, are in one list each when they are spread.
LEMMA SpreadHolds ==
  ASSUME WhenType, NEW A, NEW v, Holds(v, A), NEW nodes \in Seq(Timers), NEW time \in Int,
         \A n, m \in 1 .. Len(nodes) : nodes[n] = nodes[m] => n = m,
         \A n \in 1 .. Len(nodes) : nodes[n] \notin A
  PROVE  Holds(Spread(v, nodes, time), A \cup Elems(nodes))
<1> DEFINE N == Len(nodes)
           Done(k) == A \cup {nodes[j] : j \in 1 .. k}
           S == [k \in 0 .. N |-> {x \in WheelStates : Holds(x, Done(k))}]
<1>1. N \in Nat /\ \A k \in 1 .. N : nodes[k] \in Timers /\ k \in 0 .. N /\ k - 1 \in 0 .. N
  OBVIOUS
<1>2. v \in WheelStates
  BY DEF Holds
<1>3. PICK u \in [0 .. N -> WheelStates] :
        /\ u[0] = v
        /\ \A k \in 1 .. N : u[k] = SpreadNode(u[k - 1], nodes[k], time)
        /\ Spread(v, nodes, time) = u[N]
  BY <1>2, SpreadPasses
<1>4. Done(0) = A
  OBVIOUS
<1>5. \A k \in 0 .. N : u[k] \in S[k] <=> Holds(u[k], Done(k))
  BY <1>3 DEF Holds
<1>6. ASSUME NEW k \in 1 .. N, Holds(u[k - 1], Done(k - 1)) PROVE Holds(u[k], Done(k))
  <2> DEFINE t == nodes[k]
             x == u[k - 1]
             ms == (when[t] - time) % Word
  <2>1. t \in Timers /\ x \in WheelStates
    BY <1>1, <1>3
  <2>2. t \notin Done(k - 1)
    BY <1>1
  <2>3. Done(k) = Done(k - 1) \cup {t}
    <3>1. \A j \in 1 .. k : j \in 1 .. k - 1 \/ j = k
      BY <1>1
    <3>2. \A j \in 1 .. k - 1 : j \in 1 .. k
      BY <1>1
    <3>3. k \in 1 .. k
      OBVIOUS
    <3> QED BY <3>1, <3>2, <3>3
  <2>4. u[k] = SpreadNode(x, t, time)
    BY <1>3
  <2>5. ms \in 0 .. Word - 1
    BY <2>1, DelayAssumption DEF WhenType
  <2> HIDE DEF Done, t, x, ms
  <2>6. Holds(x, Done(k - 1))
    BY <1>6 DEF x
  <2>7. Holds(u[k], Done(k - 1) \cup {t})
    <3>1. CASE when[t] <= time
      <4>1. u[k] = [x EXCEPT !.ready = Append(@, t)]
        BY <2>4, <3>1 DEF SpreadNode
      <4> QED BY <2>1, <2>2, <2>6, <4>1, ReadyAppendHolds
    <3>2. CASE ~ (when[t] <= time)
      <4>1. u[k] = Put(x, t, ms)
        BY <2>4, <3>2 DEF SpreadNode, ms
      <4> QED BY <2>1, <2>2, <2>5, <2>6, <4>1, PutHolds
    <3> QED BY <3>1, <3>2
  <2> QED BY <2>3, <2>7
<1> HIDE DEF S, Done
<1>7. u[0] \in S[0] /\ \A k \in 1 .. N : u[k - 1] \in S[k - 1] => u[k] \in S[k]
  BY <1>1, <1>3, <1>4, <1>5, <1>6
<1>7a. \A k \in 0 .. N : u[k] \in S[k]
  BY ONLY <1>1, <1>7, KeptAt
<1>8. u[N] \in S[N]
  BY <1>1, <1>7a
<1>9. Holds(u[N], Done(N))
  BY <1>1, <1>5, <1>8
<1>10. Done(N) = A \cup Elems(nodes)
  BY DEF Done, Elems
<1> QED BY <1>3, <1>9, <1>10

\* A turn of wheel i, its nodes spread again.
LEMMA TurnSpreadHolds ==
  ASSUME WhenType, NEW A, NEW v, Holds(v, A), NEW i \in Wheels, NEW time \in Int
  PROVE  Holds(Spread(Turn(v, i), Current(v, i), time), A)
<1> DEFINE c == Current(v, i)
           B == A \ Elems(c)
<1>1. /\ c \in Seq(Timers) /\ Elems(c) \subseteq A
      /\ \A n, m \in 1 .. Len(c) : c[n] = c[m] => n = m
  BY CurrentOnce
<1>2. Holds(Turn(v, i), B)
  BY TurnHolds
<1>3. \A n \in 1 .. Len(c) : c[n] \notin B
  BY DEF Elems
<1>4. B \cup Elems(c) = A
  BY <1>1
<1> HIDE DEF c, B
<1>5. Holds(Spread(Turn(v, i), c, time), B \cup Elems(c))
  BY <1>1, <1>2, <1>3, SpreadHolds
<1> QED BY <1>4, <1>5 DEF c

CascadeStates == [v : WheelStates, wraps : BOOLEAN]

\* Cascade, wheel by wheel.
LEMMA CascadePasses ==
  ASSUME WhenType, NEW v \in WheelStates, NEW time \in Int
  PROVE  \E a \in [0 .. Top - 1 -> CascadeStates] :
           /\ a[0] = [v |-> v, wraps |-> TRUE]
           /\ \A k \in 1 .. Top - 1 : a[k] = CascadeWheel(a[k - 1], k + 1, time)
           /\ Cascade(v, time) = a[Top - 1].v
<1> DEFINE N == Top - 1
           b == [v |-> v, wraps |-> TRUE]
           G == [x \in (1 .. N) \X CascadeStates |-> CascadeWheel(x[2], x[1] + 1, time)]
<1>1. N \in Nat /\ (\A k \in 1 .. N : k + 1 \in Wheels /\ k - 1 \in 0 .. N) /\ b \in CascadeStates
  BY SizesOK DEF CascadeStates
<1>2. ASSUME NEW x \in CascadeStates, NEW i \in Wheels PROVE CascadeWheel(x, i, time) \in CascadeStates
  <2>1. CASE x.wraps
    <3>1. x.v \in WheelStates
      BY DEF CascadeStates
    <3>2. Turn(x.v, i) \in WheelStates
      BY <3>1, TurnOK
    <3>3. Current(x.v, i) \in Seq(Timers)
      BY <3>1 DEF Current, WheelStates
    <3>4. Spread(Turn(x.v, i), Current(x.v, i), time) \in WheelStates
      <4> DEFINE c == Current(x.v, i)
                 y == Turn(x.v, i)
      <4> HIDE DEF c, y
      <4>1. c \in Seq(Timers) /\ y \in WheelStates /\ Len(c) \in 0 .. Len(c)
        BY <3>2, <3>3 DEF c, y
      <4>2. PICK u \in [0 .. Len(c) -> WheelStates] : Spread(y, c, time) = u[Len(c)]
        BY <4>1, SpreadPasses
      <4> QED BY <4>1, <4>2 DEF c, y
    <3>5. Wraps(x.v, i) \in BOOLEAN
      BY DEF Wraps
    <3> QED BY <2>1, <3>4, <3>5 DEF CascadeWheel, CascadeStates
  <2>2. CASE ~ x.wraps
    BY <2>2 DEF CascadeWheel
  <2> QED BY <2>1, <2>2
<1>3. G \in [(1 .. N) \X CascadeStates -> CascadeStates]
  BY <1>1, <1>2
<1> HIDE DEF G, N, b
<1>4. PICK f : Runs(f, N, CascadeStates, b, G)
  BY <1>1, <1>3, Passes
<1>5. /\ f \in [0 .. N -> CascadeStates] /\ f[0] = b
      /\ \A k \in 1 .. N : f[k] = CascadeWheel(f[k - 1], k + 1, time)
  BY <1>1, <1>4 DEF Runs, G
<1>6. f = [k \in 0 .. N |-> IF k = 0 THEN b ELSE CascadeWheel(f[k - 1], k + 1, time)]
  BY <1>1, <1>5
<1> DEFINE h == CHOOSE g : g = [k \in 0 .. N |-> IF k = 0 THEN b
                                                ELSE CascadeWheel(g[k - 1], k + 1, time)]
<1>7. h = [k \in 0 .. N |-> IF k = 0 THEN b ELSE CascadeWheel(h[k - 1], k + 1, time)]
  BY <1>6
<1>8. Cascade(v, time) = h[N].v
  BY DEF Cascade, N, b, Top
<1> HIDE DEF h
<1>9. h[0] = b /\ \A k \in 1 .. N : h[k] = CascadeWheel(h[k - 1], k + 1, time)
  BY <1>1, <1>7
<1>10. \A k \in 1 .. N : h[k - 1] \in CascadeStates => h[k] \in CascadeStates
  BY <1>1, <1>2, <1>9
<1>11. \A k \in 0 .. N : h[k] \in CascadeStates
  BY ONLY <1>1, <1>9, <1>10, Kept
<1>12. h \in [0 .. N -> CascadeStates]
  BY <1>7, <1>11
<1> QED BY <1>8, <1>9, <1>12 DEF N, b

\* A cascade spreads the slots of the wheels that wrap, and loses no timer.
LEMMA CascadeHolds ==
  ASSUME WhenType, NEW A, NEW v, Holds(v, A), NEW time \in Int
  PROVE  Holds(Cascade(v, time), A)
<1> DEFINE N == Top - 1
           S == {x \in CascadeStates : Holds(x.v, A)}
<1>1. N \in Nat /\ \A k \in 1 .. N : k + 1 \in Wheels /\ k - 1 \in 0 .. N /\ k \in 0 .. N
  BY SizesOK
<1>2. v \in WheelStates
  BY DEF Holds
<1>3. PICK a \in [0 .. N -> CascadeStates] :
        /\ a[0] = [v |-> v, wraps |-> TRUE]
        /\ \A k \in 1 .. N : a[k] = CascadeWheel(a[k - 1], k + 1, time)
        /\ Cascade(v, time) = a[N].v
  BY <1>2, CascadePasses
<1>4. ASSUME NEW k \in 1 .. N, a[k - 1] \in S PROVE a[k] \in S
  <2> DEFINE x == a[k - 1]
  <2>1. x \in CascadeStates /\ Holds(x.v, A) /\ k + 1 \in Wheels /\ a[k] = CascadeWheel(x, k + 1, time)
    BY <1>1, <1>3, <1>4
  <2> HIDE DEF x
  <2>2. CASE x.wraps
    <3>1. a[k].v = Spread(Turn(x.v, k + 1), Current(x.v, k + 1), time)
      BY <2>1, <2>2 DEF CascadeWheel
    <3> QED BY <1>1, <1>3, <2>1, <3>1, TurnSpreadHolds
  <2>3. CASE ~ x.wraps
    BY <1>1, <1>3, <2>1, <2>3 DEF CascadeWheel
  <2> QED BY <2>2, <2>3
<1>5. a[0] \in S
  <2>1. 0 \in 0 .. N /\ a[0] = [v |-> v, wraps |-> TRUE]
    BY <1>1, <1>3
  <2>2. a[0] \in CascadeStates
    BY <1>3, <2>1
  <2>3. a[0].v = v
    BY ONLY <2>1
  <2> QED BY <2>2, <2>3
<1> HIDE DEF S
<1>6. \A k \in 0 .. N : a[k] \in S
  BY ONLY <1>1, <1>4, <1>5, Kept
<1>7. a[N] \in S
  BY <1>1, <1>6
<1> QED BY <1>3, <1>7 DEF S

\* A tick: the nodes of the lowest wheel's slot are ready, and the wheels above are told.
LEMMA OneTickHolds ==
  ASSUME WhenType, NEW A, NEW v, Holds(v, A), NEW time \in Int
  PROVE  Holds(OneTick(v, time), A)
<1> DEFINE y == Turn(v, 1)
           c == Current(v, 1)
           s == y.ready \o c
           u == [y EXCEPT !.ready = s]
           k == v.idx[1]
           e == <<>>
<1>1. 1 \in Wheels
  BY SizesOK
<1>2. v \in WheelStates /\ Once(Spots, Lists(v), A)
  BY DEF Holds
<1>3. y \in WheelStates /\ y.ready = v.ready /\ SlotNow(y, v, 1, k, e)
  BY <1>1, <1>2, TurnOK
<1>4. k \in 0 .. Size[1] - 1 /\ c = v.slot[1][k] /\ c \in Seq(Timers)
  BY <1>1, <1>2 DEF WheelStates, Current
<1>5. s = v.ready \o c /\ s \in Seq(Timers)
  <2>1. v.ready \in Seq(Timers)
    BY <1>2 DEF WheelStates
  <2> HIDE DEF y, c
  <2> QED BY <1>3, <1>4, <2>1
<1> HIDE DEF y, c, s, k, e
<1>6. u = [idx |-> y.idx, slot |-> y.slot, ready |-> s]
  <2>1. y \in [idx : [Wheels -> Nat], slot : [Wheels -> Rows], ready : Seq(Timers)]
    BY <1>3 DEF WheelStates
  <2> QED BY ONLY <2>1
<1> HIDE DEF u
<1>7. u \in WheelStates /\ u.idx = y.idx /\ u.slot = y.slot /\ u.ready = s
  BY ONLY <1>3, <1>5, <1>6, ReadySet
<1>8. Lists(y)[<<1, k>>] = e /\ \A q \in Spots : q # <<1, k>> => Lists(y)[q] = Lists(v)[q]
  BY <1>1, <1>2, <1>3, <1>4, ListChanged
<1> DEFINE p == <<1, k>>
           L == Lists(v)
           M == Lists(u)
<1>9. p \in Spots /\ p # Ready /\ Ready \in Spots
  BY <1>1, <1>4, SpotOK
<1>10. L \in [Spots -> Seq(Timers)] /\ M \in [Spots -> Seq(Timers)]
  BY <1>2, <1>7, ListsOK
<1>11. \A q \in Spots : q # Ready => M[q] = Lists(y)[q]
  BY <1>7 DEF Lists
<1>12. L[Ready] = v.ready /\ L[p] = c /\ M[Ready] = s
  BY <1>1, <1>2, <1>4, <1>7, ListsOK
<1>13. /\ M[p] = <<>> /\ M[Ready] = L[Ready] \o L[p]
       /\ \A q \in Spots : q # p /\ q # Ready => M[q] = L[q]
  BY <1>5, <1>8, <1>9, <1>11, <1>12 DEF e
<1> HIDE DEF p, L, M
<1>14. Once(Spots, M, A)
  BY <1>2, <1>9, <1>10, <1>13, OnceMoved DEF L
<1>15. Holds(u, A)
  BY <1>7, <1>14 DEF Holds, M
<1>16. OneTick(v, time) = IF Wraps(v, 1) THEN Cascade(u, time) ELSE u
  BY DEF OneTick, u, s, y, c
<1> QED BY <1>15, <1>16, CascadeHolds

\* The states between the ticks of a Refresh.
LEMMA TicksPasses ==
  ASSUME WhenType, NEW v \in WheelStates, NEW time \in Int, NEW n \in Nat
  PROVE  \E u \in [0 .. n -> WheelStates] :
           /\ u[0] = v
           /\ \A k \in 1 .. n : u[k] = OneTick(u[k - 1], time)
           /\ Ticks(v, n, time) = u[n]
<1> DEFINE G == [x \in (1 .. n) \X WheelStates |-> OneTick(x[2], time)]
<1>1. \A k \in 1 .. n : k - 1 \in 0 .. n
  OBVIOUS
<1>2. ASSUME NEW x \in WheelStates PROVE OneTick(x, time) \in WheelStates
  <2> DEFINE y == Turn(x, 1)
             c == Current(x, 1)
             s == y.ready \o c
             u == [y EXCEPT !.ready = s]
  <2>1. 1 \in Wheels
    BY SizesOK
  <2>2. y \in WheelStates /\ y.ready = x.ready
    BY <2>1, TurnOK
  <2>3. c \in Seq(Timers) /\ y.ready \in Seq(Timers)
    BY <2>1, <2>2 DEF Current, WheelStates
  <2> HIDE DEF y, c
  <2>4. s \in Seq(Timers)
    BY <2>3
  <2> HIDE DEF s
  <2>5. u = [idx |-> y.idx, slot |-> y.slot, ready |-> s]
    <3>1. y \in [idx : [Wheels -> Nat], slot : [Wheels -> Rows], ready : Seq(Timers)]
      BY <2>2 DEF WheelStates
    <3> QED BY ONLY <3>1
  <2> HIDE DEF u
  <2>6. u \in WheelStates
    BY ONLY <2>2, <2>4, <2>5, ReadySet
  <2>7. Cascade(u, time) \in WheelStates
    <3> DEFINE N == Top - 1
    <3>1. N \in Nat /\ N \in 0 .. N
      BY SizesOK
    <3>2. PICK a \in [0 .. N -> CascadeStates] : Cascade(u, time) = a[N].v
      BY <2>6, CascadePasses
    <3>3. a[N] \in CascadeStates
      BY <3>1
    <3> QED BY <3>2, <3>3 DEF CascadeStates
  <2>8. OneTick(x, time) = IF Wraps(x, 1) THEN Cascade(u, time) ELSE u
    BY DEF OneTick, u, s, y, c
  <2> QED BY <2>6, <2>7, <2>8
<1>3. G \in [(1 .. n) \X WheelStates -> WheelStates]
  BY <1>1, <1>2
<1> HIDE DEF G
<1>4. PICK f : Runs(f, n, WheelStates, v, G)
  BY <1>1, <1>3, Passes
<1>5. /\ f \in [0 .. n -> WheelStates] /\ f[0] = v
      /\ \A k \in 1 .. n : f[k] = OneTick(f[k - 1], time)
  BY <1>1, <1>4 DEF Runs, G
<1>6. f = [k \in 0 .. n |-> IF k = 0 THEN v ELSE OneTick(f[k - 1], time)]
  BY <1>1, <1>5
<1> DEFINE h == CHOOSE g : g = [k \in 0 .. n |-> IF k = 0 THEN v ELSE OneTick(g[k - 1], time)]
<1>7. h = [k \in 0 .. n |-> IF k = 0 THEN v ELSE OneTick(h[k - 1], time)]
  BY <1>6
<1>8. Ticks(v, n, time) = h[n]
  BY DEF Ticks
<1> HIDE DEF h
<1>9. h[0] = v /\ \A k \in 1 .. n : h[k] = OneTick(h[k - 1], time)
  BY <1>1, <1>7
<1>10. \A k \in 1 .. n : h[k - 1] \in WheelStates => h[k] \in WheelStates
  BY <1>1, <1>2, <1>9
<1>11. \A k \in 0 .. n : h[k] \in WheelStates
  BY ONLY <1>9, <1>10, Kept, n \in Nat, v \in WheelStates
<1>12. h \in [0 .. n -> WheelStates]
  BY <1>7, <1>11
<1> QED BY <1>8, <1>9, <1>12

\* Ticks make timers ready and lose none.
LEMMA TicksHolds ==
  ASSUME WhenType, NEW A, NEW v, Holds(v, A), NEW time \in Int, NEW n \in Nat
  PROVE  Holds(Ticks(v, n, time), A)
<1> DEFINE S == {x \in WheelStates : Holds(x, A)}
<1>1. v \in WheelStates
  BY DEF Holds
<1>2. PICK u \in [0 .. n -> WheelStates] :
        /\ u[0] = v
        /\ \A k \in 1 .. n : u[k] = OneTick(u[k - 1], time)
        /\ Ticks(v, n, time) = u[n]
  BY <1>1, TicksPasses
<1>3. ASSUME NEW k \in 1 .. n, u[k - 1] \in S PROVE u[k] \in S
  <2>1. u[k] = OneTick(u[k - 1], time) /\ k \in 0 .. n /\ Holds(u[k - 1], A)
    BY <1>2, <1>3
  <2>2. Holds(u[k], A)
    BY <2>1, OneTickHolds
  <2> QED BY <1>2, <2>1, <2>2
<1>4. u[0] \in S
  BY <1>1, <1>2
<1> HIDE DEF S
<1>5. \A k \in 0 .. n : u[k] \in S
  BY ONLY <1>3, <1>4, Kept, n \in Nat
<1>6. u[n] \in S
  BY <1>5
<1> QED BY <1>2, <1>6 DEF S

-----------------------------------------------------------------------------
(* The callbacks                                                           *)

\* The states between the callbacks of a Refresh.
LEMMA CallBackPasses ==
  ASSUME NEW v \in WheelStates, NEW r \in Repeats
  PROVE  \E u \in [0 .. Len(v.ready) -> WheelStates] :
           /\ u[0] = [v EXCEPT !.ready = <<>>]
           /\ \A k \in 1 .. Len(v.ready) : u[k] = CallNode(u[k - 1], v.ready[k], r)
           /\ CallBack(v, r) = u[Len(v.ready)]
<1> DEFINE N == Len(v.ready)
           b == [v EXCEPT !.ready = <<>>]
           G == [x \in (1 .. N) \X WheelStates |-> CallNode(x[2], v.ready[x[1]], r)]
<1>1. N \in Nat /\ \A k \in 1 .. N : v.ready[k] \in Timers /\ k - 1 \in 0 .. N
  <2>1. v.ready \in Seq(Timers)
    BY DEF WheelStates
  <2> QED BY <2>1
<1>2. ASSUME NEW x \in WheelStates, NEW t \in Timers PROVE CallNode(x, t, r) \in WheelStates
  <2>1. r[t] \in 0 .. Word - 1
    BY DelayAssumption DEF Repeats
  <2>2. Put(x, t, r[t]) \in WheelStates
    BY <2>1, PutOK
  <2> QED BY <2>2 DEF CallNode
<1>3. b \in WheelStates
  <2> DEFINE e == <<>>
  <2>1. e \in Seq(Timers)
    OBVIOUS
  <2>2. b = [idx |-> v.idx, slot |-> v.slot, ready |-> e]
    BY DEF WheelStates
  <2> HIDE DEF e, b
  <2> QED BY ONLY <2>1, <2>2, ReadySet, v \in WheelStates
<1>4. G \in [(1 .. N) \X WheelStates -> WheelStates]
  BY <1>1, <1>2
<1> HIDE DEF G, N, b
<1>5. PICK f : Runs(f, N, WheelStates, b, G)
  BY <1>1, <1>3, <1>4, Passes
<1>6. /\ f \in [0 .. N -> WheelStates] /\ f[0] = b
      /\ \A k \in 1 .. N : f[k] = CallNode(f[k - 1], v.ready[k], r)
  BY <1>1, <1>5 DEF Runs, G
<1>7. f = [k \in 0 .. N |-> IF k = 0 THEN b ELSE CallNode(f[k - 1], v.ready[k], r)]
  BY <1>1, <1>6
<1> DEFINE h == CHOOSE g : g = [k \in 0 .. N |-> IF k = 0 THEN b
                                                ELSE CallNode(g[k - 1], v.ready[k], r)]
<1>8. h = [k \in 0 .. N |-> IF k = 0 THEN b ELSE CallNode(h[k - 1], v.ready[k], r)]
  BY <1>7
<1>9. CallBack(v, r) = h[N]
  BY DEF CallBack, N, b
<1> HIDE DEF h
<1>10. h[0] = b /\ \A k \in 1 .. N : h[k] = CallNode(h[k - 1], v.ready[k], r)
  BY <1>1, <1>8
<1>11. \A k \in 1 .. N : h[k - 1] \in WheelStates => h[k] \in WheelStates
  BY <1>1, <1>2, <1>10
<1>12. \A k \in 0 .. N : h[k] \in WheelStates
  BY ONLY <1>1, <1>3, <1>10, <1>11, Kept
<1>13. h \in [0 .. N -> WheelStates]
  BY <1>8, <1>12
<1> QED BY <1>9, <1>10, <1>13 DEF N, b

\* Every ready timer is called, and those that ask for it are put back.
LEMMA CallBackHolds ==
  ASSUME NEW A, NEW v, Holds(v, A), NEW r \in Repeats
  PROVE  /\ Holds(CallBack(v, r), A \ {t \in Elems(v.ready) : r[t] = 0})
         /\ CallBack(v, r).ready = <<>>
<1> DEFINE N == Len(v.ready)
           B == A \ Elems(v.ready)
           Done(k) == B \cup {t \in {v.ready[j] : j \in 1 .. k} : r[t] # 0}
           S == [k \in 0 .. N |-> {x \in WheelStates : Holds(x, Done(k)) /\ x.ready = <<>>}]
           b == [v EXCEPT !.ready = <<>>]
<1>1. /\ v \in WheelStates /\ v.ready \in Seq(Timers)
      /\ Elems(v.ready) \subseteq A
      /\ \A n, m \in 1 .. Len(v.ready) : v.ready[n] = v.ready[m] => n = m
  BY ReadyOnce DEF Holds
<1>2. N \in Nat /\ \A k \in 1 .. N : v.ready[k] \in Timers /\ k \in 0 .. N /\ k - 1 \in 0 .. N
  BY <1>1
<1>3. PICK u \in [0 .. N -> WheelStates] :
        /\ u[0] = b
        /\ \A k \in 1 .. N : u[k] = CallNode(u[k - 1], v.ready[k], r)
        /\ CallBack(v, r) = u[N]
  BY <1>1, CallBackPasses
<1>4. Holds(b, B) /\ b.ready = <<>>
  <2> DEFINE e == <<>>
  <2>1. e \in Seq(Timers)
    OBVIOUS
  <2>2. b = [idx |-> v.idx, slot |-> v.slot, ready |-> e]
    BY <1>1 DEF WheelStates
  <2> HIDE DEF e, b
  <2>3. b \in WheelStates /\ b.idx = v.idx /\ b.slot = v.slot /\ b.ready = e
    BY ONLY <1>1, <2>1, <2>2, ReadySet
  <2> DEFINE p == Ready
             L == Lists(v)
             M == Lists(b)
  <2>4. L \in [Spots -> Seq(Timers)] /\ M \in [Spots -> Seq(Timers)] /\ L[p] = v.ready
    BY <1>1, <2>3, ListsOK
  <2>5. p \in Spots /\ M[p] = <<>> /\ \A q \in Spots : q # p => M[q] = L[q]
    BY <1>1, <2>3, SpotOK, ListsOK DEF e, Lists
  <2>6. Once(Spots, L, A)
    BY DEF Holds
  <2> HIDE DEF p, L, M
  <2>7. Once(Spots, M, A \ Elems(L[p]))
    BY <2>4, <2>5, <2>6, OnceEmptied
  <2> QED BY <2>3, <2>4, <2>7 DEF Holds, M, e
<1>5. Done(0) = B
  OBVIOUS
<1>6. \A k \in 0 .. N : u[k] \in S[k] <=> Holds(u[k], Done(k)) /\ u[k].ready = <<>>
  BY <1>3 DEF Holds
<1>7. ASSUME NEW k \in 1 .. N, Holds(u[k - 1], Done(k - 1)), u[k - 1].ready = <<>>
      PROVE  Holds(u[k], Done(k)) /\ u[k].ready = <<>>
  <2> DEFINE t == v.ready[k]
             x == u[k - 1]
             ms == r[t]
  <2>1. t \in Timers /\ x \in WheelStates
    BY <1>2, <1>3
  <2>2. t \notin Done(k - 1)
    <3>1. t \in Elems(v.ready)
      BY DEF Elems
    <3>2. \A j \in 1 .. k - 1 : v.ready[j] # t
      BY <1>1, <1>2
    <3> QED BY <3>1, <3>2
  <2>3. Done(k) = IF ms # 0 THEN Done(k - 1) \cup {t} ELSE Done(k - 1)
    <3>1. \A j \in 1 .. k : j \in 1 .. k - 1 \/ j = k
      BY <1>2
    <3>2. \A j \in 1 .. k - 1 : j \in 1 .. k
      BY <1>2
    <3>3. k \in 1 .. k
      OBVIOUS
    <3> QED BY <3>1, <3>2, <3>3
  <2>4. u[k] = CallNode(x, t, r)
    BY <1>3
  <2>5. ms \in 0 .. Word - 1
    BY <2>1, DelayAssumption DEF Repeats
  <2>6. Holds(x, Done(k - 1)) /\ x.ready = <<>>
    BY <1>7
  <2> HIDE DEF Done, t, x, ms
  <2>7. CASE ms = 0
    <3>1. u[k] = x
      BY <2>4, <2>7 DEF CallNode, ms
    <3> QED BY <2>3, <2>6, <2>7, <3>1
  <2>8. CASE ms # 0
    <3>1. ms > 0
      BY <2>5, <2>8, DelayAssumption
    <3>2. u[k] = Put(x, t, ms)
      BY <2>4, <3>1 DEF CallNode, ms
    <3>3. u[k].ready = x.ready
      BY <2>1, <2>5, <3>2, PutOK
    <3>4. Holds(u[k], Done(k - 1) \cup {t})
      BY <2>1, <2>2, <2>5, <2>6, <3>2, PutHolds
    <3> QED BY <2>3, <2>6, <2>8, <3>3, <3>4
  <2> QED BY <2>7, <2>8
<1> HIDE DEF S, Done, b
<1>8. u[0] \in S[0] /\ \A k \in 1 .. N : u[k - 1] \in S[k - 1] => u[k] \in S[k]
  <2>1. 0 \in 0 .. N
    BY <1>2
  <2>2. u[0] \in S[0]
    BY ONLY <1>3, <1>4, <1>5, <1>6, <2>1
  <2>3. \A k \in 1 .. N : u[k - 1] \in S[k - 1] => u[k] \in S[k]
    BY ONLY <1>2, <1>6, <1>7
  <2> QED BY <2>2, <2>3
<1>9. \A k \in 0 .. N : u[k] \in S[k]
  BY ONLY <1>2, <1>8, KeptAt
<1>10. Holds(u[N], Done(N)) /\ u[N].ready = <<>>
  BY <1>2, <1>6, <1>9
<1>11. Done(N) = A \ {t \in Elems(v.ready) : r[t] = 0}
  BY <1>1 DEF Done, Elems
<1> QED BY <1>3, <1>10, <1>11

-----------------------------------------------------------------------------
(* The operations                                                          *)

TimerType ==
  /\ WhenType /\ armed \subseteq Timers
  /\ now \in Nat /\ left \in 0 .. Tick - 1

TimersInv == TimerType /\ Holds(w, armed) /\ w.ready = <<>>

\* The wheels begin empty.
LEMMA TimersInit == WheelInit => TimersInv
<1> SUFFICES ASSUME WheelInit PROVE TimersInv
  OBVIOUS
<1>1. TimerType
  BY TickAssumption DEF WheelInit, TimerType, WhenType
<1>2. w \in WheelStates
  <2> DEFINE a == [i \in Wheels |-> 0]
             b == [i \in Wheels |-> [k \in 0 .. Size[i] - 1 |-> <<>>]]
             c == <<>>
  <2>1. w = [idx |-> a, slot |-> b, ready |-> c]
    BY DEF WheelInit
  <2>2. a \in [Wheels -> Nat] /\ \A i \in Wheels : a[i] \in 0 .. Size[i] - 1
    BY SizesOK
  <2>3. \A i \in Wheels : b[i] \in [0 .. Size[i] - 1 -> Seq(Timers)]
    OBVIOUS
  <2>4. b \in [Wheels -> Rows]
    BY <2>3 DEF Rows
  <2>5. c \in Seq(Timers)
    OBVIOUS
  <2> HIDE DEF a, b, c
  <2>6. w \in [idx : [Wheels -> Nat], slot : [Wheels -> Rows], ready : Seq(Timers)]
    BY ONLY <2>1, <2>2, <2>4, <2>5
  <2>7. w.idx = a /\ w.slot = b
    BY ONLY <2>1
  <2> QED BY <2>2, <2>3, <2>6, <2>7 DEF WheelStates
<1>3. \A p \in Spots : Lists(w)[p] = <<>>
  <2> TAKE p \in Spots
  <2>1. CASE p = Ready
    BY <2>1, <1>2, ListsOK DEF WheelInit
  <2>2. CASE p # Ready
    <3>1. PICK i \in Wheels : \E k \in 0 .. Size[i] - 1 : p = <<i, k>>
      BY <2>2, SpotOK
    <3>2. PICK k \in 0 .. Size[i] - 1 : p = <<i, k>>
      BY <3>1
    <3>3. w.slot[i][k] = <<>>
      BY DEF WheelInit
    <3> QED BY <1>2, <3>2, <3>3, ListsOK
  <2> QED BY <2>1, <2>2
<1>4. \A p \in Spots : 1 .. Len(Lists(w)[p]) = {}
  BY <1>3
<1>5. Once(Spots, Lists(w), armed)
  BY <1>4 DEF Once, WheelInit
<1> QED BY <1>1, <1>2, <1>5 DEF TimersInv, Holds, WheelInit

\* AddTimer arms one timer.
LEMMA TimersAdd ==
  ASSUME TimersInv, NEW t \in Timers, NEW d \in Delays, NEW s \in Skews, AddTimer(t, d, s)
  PROVE  TimersInv'
<1>1. d \in 0 .. Word - 1 /\ d \in Nat /\ s \in Nat
  BY DelayAssumption
<1>2. Holds(w, armed) /\ t \notin armed /\ armed' = armed \cup {t} /\ w' = Put(w, t, d)
  BY DEF TimersInv, AddTimer
<1>3. Holds(w', armed')
  BY <1>1, <1>2, PutHolds
<1>4. w'.ready = <<>>
  BY <1>1, <1>2, PutOK DEF Holds, TimersInv
<1>5. TimerType'
  BY <1>1 DEF TimersInv, TimerType, WhenType, AddTimer
<1>6. Holds(w, armed)' 
  BY <1>3 DEF Holds, Once, Lists, Spots
<1> QED BY <1>4, <1>5, <1>6 DEF TimersInv

\* DelTimer takes one timer out of its list.
LEMMA TimersDel ==
  ASSUME TimersInv, NEW t \in Timers, DelTimer(t)
  PROVE  TimersInv'
<1> DEFINE v == w
           u == w'
           L == Lists(v)
           M == Lists(u)
<1>1. v \in WheelStates /\ Once(Spots, L, armed) /\ v.ready = <<>>
  BY DEF TimersInv, Holds
<1> DEFINE b == [i \in Wheels |-> [k \in 0 .. Size[i] - 1 |-> RemoveFirst(v.slot[i][k], t)]]
<1>2. u = [idx |-> v.idx, slot |-> b, ready |-> v.ready]
  BY <1>1 DEF DelTimer, WheelStates
<1>3. L \in [Spots -> Seq(Timers)]
  BY <1>1, ListsOK
<1>4. u.idx = v.idx /\ u.slot = b /\ u.ready = v.ready
  BY <1>2
<1>5. RemoveFirst(<<>>, t) = <<>>
  BY DEF RemoveFirst
<1>6. ASSUME NEW q \in Spots PROVE M[q] = RemoveFirst(L[q], t)
  <2>1. CASE q = Ready
    <3>1. M[q] = u.ready /\ L[q] = v.ready
      BY <2>1, SpotOK DEF Lists
    <3> QED BY <1>1, <1>4, <1>5, <3>1
  <2>2. CASE q # Ready
    <3>1. PICK i \in Wheels : \E k \in 0 .. Size[i] - 1 : q = <<i, k>>
      BY <2>2, SpotOK
    <3>2. PICK k \in 0 .. Size[i] - 1 : q = <<i, k>>
      BY <3>1
    <3>3. M[q] = u.slot[i][k] /\ L[q] = v.slot[i][k]
      BY <2>2, <3>2, SpotOK DEF Lists
    <3> QED BY <1>4, <3>3
  <2> QED BY <2>1, <2>2
<1>7. (\A q \in Spots : M[q] \in Seq(Timers)) /\ Once(Spots, M, armed \ {t})
  <2> HIDE DEF L, M
  <2> QED BY ONLY <1>1, <1>3, <1>6, OnceRemoved
<1>8. \A i \in Wheels : b[i] \in [0 .. Size[i] - 1 -> Seq(Timers)]
  <2> TAKE i \in Wheels
  <2>1. \A k \in 0 .. Size[i] - 1 : b[i][k] \in Seq(Timers)
    <3> TAKE k \in 0 .. Size[i] - 1
    <3>1. <<i, k>> \in Spots /\ <<i, k>> # Ready
      BY SpotOK
    <3>2. M[<<i, k>>] = u.slot[i][k]
      BY <3>1 DEF Lists
    <3> QED BY <1>4, <1>7, <3>1, <3>2
  <2> QED BY <2>1
<1>9. b \in [Wheels -> Rows]
  BY <1>8 DEF Rows
<1>10. u \in WheelStates
  <2>1. v.idx \in [Wheels -> Nat] /\ v.ready \in Seq(Timers) /\ \A i \in Wheels : v.idx[i] \in 0 .. Size[i] - 1
    BY <1>1 DEF WheelStates
  <2> HIDE DEF b
  <2>2. u \in [idx : [Wheels -> Nat], slot : [Wheels -> Rows], ready : Seq(Timers)]
    BY ONLY <1>2, <1>9, <2>1
  <2> QED BY <1>4, <1>8, <2>1, <2>2 DEF WheelStates
<1>11. armed' = armed \ {t}
  BY DEF DelTimer
<1>12. Holds(w, armed)'
  BY <1>7, <1>10, <1>11 DEF Holds, Once, Lists, Spots
<1>13. TimerType'
  BY DEF TimersInv, TimerType, WhenType, DelTimer
<1> QED BY <1>1, <1>4, <1>12, <1>13 DEF TimersInv

\* Refresh ticks, cascades, calls and puts back.
LEMMA TimersRefresh ==
  ASSUME TimersInv, NEW e \in Frames, NEW r \in Repeats, Refresh(e, r)
  PROVE  TimersInv'
<1> DEFINE n == (left + e) \div Tick
           v == Ticks(w, n, now')
           fired == Elems(v.ready)
<1>1. e \in Nat /\ now \in Nat /\ left \in 0 .. Tick - 1 /\ Tick \in Nat \ {0}
  BY DelayAssumption, TickAssumption DEF TimersInv, TimerType
<1>2. left + e \in Nat
  BY <1>1
<1>3. n \in Nat /\ (left + e) % Tick \in 0 .. Tick - 1
  BY <1>1, <1>2
<1>4. now' = now + e /\ now' \in Nat
  BY <1>1 DEF Refresh
<1>5. WhenType /\ Holds(w, armed) /\ armed \subseteq Timers
  BY DEF TimersInv, TimerType
<1> HIDE DEF n
<1>6. Holds(v, armed)
  BY <1>3, <1>4, <1>5, TicksHolds
<1>7. ToSet(v.ready) = fired
  <2>1. v.ready \in Seq(Timers)
    BY <1>6, ReadyOnce
  <2> HIDE DEF v
  <2> QED BY <2>1 DEF ToSet, Elems
<1>8. w' = CallBack(v, r)
  BY DEF Refresh, n
<1>9. armed' = armed \ {t \in fired : r[t] = 0}
  BY <1>7 DEF Refresh, n
<1>10. when' = [t \in Timers |-> IF t \in fired THEN when[t] + r[t] ELSE when[t]]
  BY <1>7 DEF Refresh, n
<1>11. left' \in 0 .. Tick - 1
  BY <1>3 DEF Refresh
<1> HIDE DEF v
<1>12. Holds(w', armed') /\ w'.ready = <<>>
  BY <1>6, <1>8, <1>9, CallBackHolds
<1>13. \A t \in Timers : r[t] \in Int
  BY DelayAssumption DEF Repeats
<1>14. TimerType'
  BY <1>4, <1>5, <1>9, <1>10, <1>11, <1>13 DEF TimerType, WhenType
<1>15. Holds(w, armed)'
  BY <1>12 DEF Holds, Once, Lists, Spots
<1> QED BY <1>12, <1>14, <1>15 DEF TimersInv

\* Between the operations every armed timer is in one slot, at one place of it, no
\* other timer is in any, and none is left ready: whatever adding, deleting, ticks,
\* cascades and callbacks came before.
THEOREM TimersInvariant == WheelSpec => []TimersInv
<1>1. WheelInit => TimersInv
  BY TimersInit
<1>2. TimersInv /\ [WheelNext]_wheelVars => TimersInv'
  <2> SUFFICES ASSUME TimersInv, [WheelNext]_wheelVars PROVE TimersInv'
    OBVIOUS
  <2>1. ASSUME NEW t \in Timers, NEW d \in Delays, NEW s \in Skews, AddTimer(t, d, s) PROVE TimersInv'
    BY <2>1, TimersAdd
  <2>2. ASSUME NEW t \in Timers, DelTimer(t) PROVE TimersInv'
    BY <2>2, TimersDel
  <2>3. ASSUME NEW e \in Frames, NEW r \in Repeats, Refresh(e, r) PROVE TimersInv'
    BY <2>3, TimersRefresh
  <2>4. CASE UNCHANGED wheelVars
    <3>1. w' = w /\ armed' = armed /\ when' = when /\ now' = now /\ left' = left
      BY <2>4 DEF wheelVars
    <3>2. Holds(w, armed)'
      <4>1. Holds(w, armed)
        BY DEF TimersInv
      <4>2. Holds(w', armed')
        BY ONLY <3>1, <4>1
      <4> QED BY <4>2 DEF Holds, Once, Lists, Spots
    <3>3. TimerType'
      BY <3>1 DEF TimersInv, TimerType, WhenType
    <3> QED BY <3>1, <3>2, <3>3 DEF TimersInv
  <2> QED BY <2>1, <2>2, <2>3, <2>4 DEF WheelNext
<1> QED BY <1>1, <1>2, PTL DEF WheelSpec

\* No timer is lost or linked into two slots.
THEOREM WheelTimersPlaced == WheelSpec => []TimersPlaced
<1>1. TimersInv => TimersPlaced
  <2> SUFFICES ASSUME TimersInv, NEW t \in Timers
               PROVE  Cardinality(Places(t)) = IF t \in armed THEN 1 ELSE 0
    BY DEF TimersInv, TimersPlaced
  <2> DEFINE L == Lists(w)
  <2>1. w \in WheelStates /\ Once(Spots, L, armed) /\ w.ready = <<>>
    BY DEF TimersInv, Holds
  <2>2. \A i \in Wheels : \A k \in 0 .. Size[i] - 1 :
          <<i, k>> \in Spots /\ L[<<i, k>>] = w.slot[i][k] /\ w.slot[i][k] \in Seq(Timers)
    BY <2>1, SpotOK, ListsOK DEF WheelStates
  <2>3. \A x : x \in Places(t) <=>
          \E i \in Wheels : \E k \in 0 .. Size[i] - 1 : \E n \in 1 .. Len(L[<<i, k>>]) :
            L[<<i, k>>][n] = t /\ x = <<i, k, n>>
    <3>1. \A i \in Wheels : \A k \in 0 .. Size[i] - 1 :
            DOMAIN w.slot[i][k] = 1 .. Len(L[<<i, k>>]) /\ w.slot[i][k] = L[<<i, k>>]
      <4> HIDE DEF L
      <4> TAKE i \in Wheels
      <4> TAKE k \in 0 .. Size[i] - 1
      <4>1. PICK s \in Seq(Timers) : s = w.slot[i][k]
        BY <2>2
      <4>2. DOMAIN s = 1 .. Len(s)
        OBVIOUS
      <4> QED BY ONLY <2>2, <4>1, <4>2, i \in Wheels, k \in 0 .. Size[i] - 1
    <3> HIDE DEF L
    <3> DEFINE At(i, k) == {<<i, k, n>> : n \in {m \in DOMAIN w.slot[i][k] : w.slot[i][k][m] = t}}
    <3>2. \A x : x \in Places(t) <=>
            \E i \in Wheels : \E k \in 0 .. Size[i] - 1 : x \in At(i, k)
      BY DEF Places
    <3>3. \A i \in Wheels : \A k \in 0 .. Size[i] - 1 : \A x : x \in At(i, k) <=>
            \E n \in 1 .. Len(L[<<i, k>>]) : L[<<i, k>>][n] = t /\ x = <<i, k, n>>
      <4> TAKE i \in Wheels
      <4> TAKE k \in 0 .. Size[i] - 1
      <4>1. DOMAIN w.slot[i][k] = 1 .. Len(L[<<i, k>>]) /\ w.slot[i][k] = L[<<i, k>>]
        BY <3>1
      <4> QED BY ONLY <4>1
    <3> HIDE DEF At
    <3> TAKE x
    <3>4. ASSUME x \in Places(t)
          PROVE  \E i \in Wheels : \E k \in 0 .. Size[i] - 1 : \E n \in 1 .. Len(L[<<i, k>>]) :
                   L[<<i, k>>][n] = t /\ x = <<i, k, n>>
      <4>1. PICK i \in Wheels : \E k \in 0 .. Size[i] - 1 : x \in At(i, k)
        BY ONLY <3>2, <3>4
      <4>2. PICK k \in 0 .. Size[i] - 1 : x \in At(i, k)
        BY ONLY <4>1
      <4>3. \E n \in 1 .. Len(L[<<i, k>>]) : L[<<i, k>>][n] = t /\ x = <<i, k, n>>
        BY ONLY <3>3, <4>2, i \in Wheels, k \in 0 .. Size[i] - 1
      <4> QED BY ONLY <4>3, i \in Wheels, k \in 0 .. Size[i] - 1
    <3>5. ASSUME NEW i \in Wheels, NEW k \in 0 .. Size[i] - 1,
                 \E n \in 1 .. Len(L[<<i, k>>]) : L[<<i, k>>][n] = t /\ x = <<i, k, n>>
          PROVE  x \in Places(t)
      <4>1. x \in At(i, k)
        BY ONLY <3>3, <3>5, i \in Wheels, k \in 0 .. Size[i] - 1
      <4> QED BY ONLY <3>2, <4>1, i \in Wheels, k \in 0 .. Size[i] - 1
    <3> QED BY ONLY <3>4, <3>5
  <2> HIDE DEF L
  <2>4. CASE t \notin armed
    <3>1. Places(t) = {}
      <4>1. \A p \in Spots : \A n \in 1 .. Len(L[p]) : L[p][n] # t
        BY <2>1, <2>4 DEF Once
      <4> QED BY ONLY <2>2, <2>3, <4>1
    <3> QED BY <2>4, <3>1, FS_EmptySet
  <2>5. CASE t \in armed
    <3>1. PICK p \in Spots : \E n \in 1 .. Len(L[p]) : L[p][n] = t
      BY <2>1, <2>5 DEF Once
    <3>2. PICK n \in 1 .. Len(L[p]) : L[p][n] = t
      BY <3>1
    <3>3. p # Ready
      BY <2>1, <3>2, ListsOK DEF L
    <3>4. PICK i \in Wheels : \E k \in 0 .. Size[i] - 1 : p = <<i, k>>
      BY <3>3, SpotOK
    <3>5. PICK k \in 0 .. Size[i] - 1 : p = <<i, k>>
      BY <3>4
    <3>6. \A q \in Spots : \A m \in 1 .. Len(L[q]) : L[q][m] = t => q = p /\ m = n
      BY <2>1, <3>2 DEF Once
    <3>7. <<i, k, n>> \in Places(t)
      BY <2>3, <3>2, <3>5
    <3>8. \A x \in Places(t) : x = <<i, k, n>>
      <4> TAKE x \in Places(t)
      <4>1. PICK j \in Wheels : \E l \in 0 .. Size[j] - 1 : \E m \in 1 .. Len(L[<<j, l>>]) :
              L[<<j, l>>][m] = t /\ x = <<j, l, m>>
        BY <2>3
      <4>2. PICK l \in 0 .. Size[j] - 1 : \E m \in 1 .. Len(L[<<j, l>>]) :
              L[<<j, l>>][m] = t /\ x = <<j, l, m>>
        BY <4>1
      <4>3. PICK m \in 1 .. Len(L[<<j, l>>]) : L[<<j, l>>][m] = t /\ x = <<j, l, m>>
        BY <4>2
      <4>4. <<j, l>> = p /\ m = n
        BY <2>2, <3>6, <4>3
      <4>5. j = i /\ l = k
        BY <3>5, <4>4
      <4> QED BY <4>3, <4>4, <4>5
    <3>9. Places(t) = {<<i, k, n>>}
      BY <3>7, <3>8
    <3>10. Cardinality({<<i, k, n>>}) = 1
      BY FS_Singleton
    <3> QED BY <2>5, <3>9, <3>10
  <2> QED BY <2>4, <2>5
<1> QED BY <1>1, TimersInvariant, PTL

-----------------------------------------------------------------------------
(* When a slot is passed                                                   *)

\* Where the wheels can be.
Positions == {x \in [Wheels -> Nat] : \A i \in Wheels : x[i] \in 0 .. Size[i] - 1}

\* The ticks until the wheel above wheel i turns, with the wheels at x.
TurnsIn(x) ==
  LET d[i \in 0 .. Top] == IF i = 0 THEN 1 ELSE d[i - 1] + (Size[i] - 1 - x[i]) * Cap[i - 1]
  IN  d

\* The turn of the wheel above is a tick away or more, and at most what the wheels up to i span.
LEMMA DueOK ==
  ASSUME NEW x \in Positions
  PROVE  /\ TurnsIn(x) \in [0 .. Top -> Nat \ {0}]
         /\ TurnsIn(x)[0] = 1
         /\ \A i \in Wheels : TurnsIn(x)[i] = TurnsIn(x)[i - 1] + (Size[i] - 1 - x[i]) * Cap[i - 1]
         /\ \A i \in 0 .. Top : TurnsIn(x)[i] <= Cap[i]
<1> DEFINE S == Nat \ {0}
           Add(i) == (Size[i] - 1 - x[i]) * Cap[i - 1]
           G == [y \in (1 .. Top) \X S |-> y[2] + Add(y[1])]
<1>1. Top \in Nat /\ Wheels = 1 .. Top
  BY SizesOK
<1>2. ASSUME NEW i \in Wheels
      PROVE  /\ Size[i] \in Nat /\ x[i] \in Nat /\ Size[i] - 1 - x[i] \in Nat
             /\ Cap[i - 1] \in Nat \ {0} /\ Add(i) \in Nat
  <2>1. i - 1 \in 0 .. Top
    BY <1>1
  <2>2. Cap[i - 1] \in Nat \ {0}
    BY <2>1, CapOK
  <2>3. Size[i] \in Nat \ {0} /\ x[i] \in 0 .. Size[i] - 1
    BY SizesOK DEF Positions
  <2>4. \A a, c \in Nat : a * c \in Nat
    OBVIOUS
  <2>5. Size[i] - 1 - x[i] \in Nat
    BY <2>3
  <2> QED BY <2>2, <2>3, <2>4, <2>5
<1> HIDE DEF Add
<1>3. \A a \in S, c \in Nat : a + c \in S
  OBVIOUS
<1>4. G \in [(1 .. Top) \X S -> S]
  BY <1>1, <1>2, <1>3
<1>5. 1 \in S
  OBVIOUS
<1> HIDE DEF S, G
<1>6. PICK f : Runs(f, Top, S, 1, G)
  BY <1>1, <1>4, <1>5, Passes
<1>7. \A k \in 1 .. Top : k - 1 \in 0 .. Top /\ k \in 0 .. Top /\ k # 0
  BY <1>1
<1>8. \A k \in 0 .. Top : k # 0 => k \in 1 .. Top
  BY <1>1
<1>9. f \in [0 .. Top -> S] /\ f[0] = 1 /\ \A k \in 1 .. Top : f[k] = f[k - 1] + Add(k)
  BY <1>6, <1>7 DEF Runs, G
<1>10. f = [k \in 0 .. Top |-> IF k = 0 THEN 1 ELSE f[k - 1] + (Size[k] - 1 - x[k]) * Cap[k - 1]]
  BY <1>8, <1>9 DEF Add
<1> DEFINE h == CHOOSE g : g = [k \in 0 .. Top |-> IF k = 0 THEN 1
                               ELSE g[k - 1] + (Size[k] - 1 - x[k]) * Cap[k - 1]]
<1>11. h = [k \in 0 .. Top |-> IF k = 0 THEN 1 ELSE h[k - 1] + (Size[k] - 1 - x[k]) * Cap[k - 1]]
  BY <1>10
<1>12. TurnsIn(x) = h
  BY DEF TurnsIn
<1> HIDE DEF h
<1>13. h[0] = 1 /\ \A k \in 1 .. Top : h[k] = h[k - 1] + Add(k)
  BY <1>1, <1>7, <1>11 DEF Add
<1> DEFINE R == [k \in 0 .. Top |-> {y \in S : y <= Cap[k]}]
<1>14. h[0] \in R[0]
  BY <1>1, <1>5, <1>13, CapOK
<1>15. ASSUME NEW k \in 1 .. Top, h[k - 1] \in R[k - 1] PROVE h[k] \in R[k]
  <2> DEFINE a == h[k - 1]
             c == Cap[k - 1]
             z == Size[k]
             y == x[k]
  <2>1. a \in Nat \ {0} /\ a <= c /\ h[k] = a + Add(k)
    BY <1>7, <1>13, <1>15 DEF S
  <2>2. c \in Nat \ {0} /\ z \in Nat /\ y \in Nat /\ z - 1 - y \in Nat /\ Add(k) = (z - 1 - y) * c
    BY <1>1, <1>2 DEF Add
  <2>3. Cap[k] = c * z
    BY <1>1, CapOK
  <2>4. k \in 0 .. Top
    BY <1>7
  <2> HIDE DEF a, c, z, y
  <2>5. (z - 1 - y) * c <= (z - 1) * c /\ (z - 1) * c + c = c * z
    BY <2>2
  <2>6. a + (z - 1 - y) * c <= c * z
    BY <2>1, <2>2, <2>5
  <2>7. h[k] \in S
    BY <1>1, <1>2, <1>3, <2>1, <2>2 DEF S
  <2> QED BY <2>1, <2>2, <2>3, <2>4, <2>6, <2>7
<1> HIDE DEF R
<1>16. \A k \in 0 .. Top : h[k] \in R[k]
  BY ONLY <1>1, <1>14, <1>15, KeptAt
<1>17. \A k \in 0 .. Top : h[k] \in S /\ h[k] <= Cap[k]
  BY <1>16 DEF R
<1>18. h \in [0 .. Top -> S]
  BY <1>11, <1>17
<1> QED BY <1>1, <1>12, <1>13, <1>17, <1>18 DEF S, Add

\* When wheel j is moved, what is due above it moves by as many of its slots.
LEMMA DueMoved ==
  ASSUME NEW x \in Positions, NEW y \in Positions, NEW j \in Wheels,
         \A i \in Wheels : i # j => y[i] = x[i]
  PROVE  /\ \A i \in 0 .. j - 1 : TurnsIn(y)[i] = TurnsIn(x)[i]
         /\ \A i \in j .. Top : TurnsIn(y)[i] = TurnsIn(x)[i] + (x[j] - y[j]) * Cap[j - 1]
<1> DEFINE m == (x[j] - y[j]) * Cap[j - 1]
           a == TurnsIn(x)
           b == TurnsIn(y)
           R == [k \in 0 .. Top |-> {z \in Int : z = a[k] + (IF k < j THEN 0 ELSE m)}]
<1>1. Top \in Nat /\ Wheels = 1 .. Top /\ j \in 1 .. Top
  BY SizesOK
<1>2. \A i \in 0 .. Top : a[i] \in Int /\ b[i] \in Int
  <2>1. a \in [0 .. Top -> Nat \ {0}] /\ b \in [0 .. Top -> Nat \ {0}]
    BY DueOK
  <2> HIDE DEF a, b
  <2> QED BY <2>1
<1>3. x[j] \in Int /\ y[j] \in Int /\ Cap[j - 1] \in Int /\ m \in Int
  <2>1. j - 1 \in 0 .. Top
    BY <1>1
  <2>2. x[j] \in Int /\ y[j] \in Int /\ Cap[j - 1] \in Int
    BY <2>1, CapOK DEF Positions
  <2>3. \A p, q \in Int : p * q \in Int
    OBVIOUS
  <2> QED BY <2>2, <2>3
<1>4. b[0] \in R[0]
  BY <1>1, <1>2, DueOK
<1>5. ASSUME NEW k \in 1 .. Top, b[k - 1] \in R[k - 1] PROVE b[k] \in R[k]
  <2> DEFINE p == Size[k] - 1 - x[k]
             q == Size[k] - 1 - y[k]
             c == Cap[k - 1]
  <2>1. k - 1 \in 0 .. Top /\ k \in 0 .. Top
    BY <1>1
  <2>2. b[k - 1] = a[k - 1] + (IF k - 1 < j THEN 0 ELSE m)
    BY <1>5, <2>1
  <2>3. a[k] = a[k - 1] + p * c /\ b[k] = b[k - 1] + q * c
    BY <1>1, DueOK
  <2>4. Size[k] \in Int /\ x[k] \in Int /\ y[k] \in Int /\ c \in Int
    BY <1>1, <2>1, SizesOK, CapOK DEF Positions
  <2>5. q * c = p * c + (IF k = j THEN m ELSE 0)
    <3>1. CASE k = j
      <4>1. \A s, d, e, r \in Int : (s - 1 - e) * r = (s - 1 - d) * r + (d - e) * r
        OBVIOUS
      <4> QED BY <2>4, <3>1, <4>1
    <3>2. CASE k # j
      BY <1>1, <2>4, <3>2
    <3> QED BY <3>1, <3>2
  <2>6. p * c \in Int /\ q * c \in Int
    <3>1. \A r, s \in Int : r * s \in Int
      OBVIOUS
    <3> QED BY <2>4, <3>1
  <2> DEFINE pc == p * c
             qc == q * c
  <2> HIDE DEF m, a, b, p, q, c, pc, qc
  <2>7. b[k] = a[k] + (IF k < j THEN 0 ELSE m)
    <3>1. a[k - 1] \in Int /\ b[k - 1] \in Int /\ pc \in Int /\ qc \in Int /\ m \in Int /\ j \in Int /\ k \in Int
      BY <1>1, <1>2, <1>3, <2>1, <2>6 DEF pc, qc
    <3>2. a[k] = a[k - 1] + pc /\ b[k] = b[k - 1] + qc /\ qc = pc + (IF k = j THEN m ELSE 0)
      BY <2>3, <2>5 DEF pc, qc
    <3> QED BY <2>2, <3>1, <3>2
  <2> QED BY <1>2, <2>1, <2>7
<1> HIDE DEF R
<1>6. \A k \in 0 .. Top : b[k] \in R[k]
  BY ONLY <1>1, <1>4, <1>5, KeptAt
<1>7. \A k \in 0 .. Top : b[k] = a[k] + (IF k < j THEN 0 ELSE m)
  BY <1>6 DEF R
<1>8. \A i \in 0 .. j - 1 : i \in 0 .. Top /\ i < j
  BY <1>1
<1>9. \A i \in j .. Top : i \in 0 .. Top /\ ~ (i < j)
  BY <1>1
<1> HIDE DEF m, a, b
<1>10. \A i \in 0 .. j - 1 : b[i] = a[i]
  BY <1>2, <1>7, <1>8
<1>11. \A i \in j .. Top : b[i] = a[i] + m
  BY <1>7, <1>9
<1> QED BY <1>10, <1>11 DEF m, a, b

\* So many slots ahead of a slot, around the wheel.
LEMMA AroundOK ==
  ASSUME NEW z \in Nat \ {0}, NEW p \in 0 .. z - 1, NEW a \in 0 .. z - 1
  PROVE  (((p + a) % z) - p) % z = a
<1> DEFINE k == (p + a) % z
<1>1. p + a < z => k = p + a
  OBVIOUS
<1>2. p + a >= z => k = p + a - z
  <2> HAVE p + a >= z
  <2>1. p + a - z \in 0 .. z - 1
    OBVIOUS
  <2>2. (p + a - z) % z = p + a - z
    BY <2>1
  <2>3. (p + a - z) % z = (p + a) % z
    OBVIOUS
  <2> QED BY <2>2, <2>3
<1>3. k - p = a \/ k - p = a - z
  BY <1>1, <1>2
<1>4. a % z = a /\ (a - z) % z = a
  OBVIOUS
<1> QED BY <1>3, <1>4

\* The slots but the one a wheel is at are one nearer when it has turned.
LEMMA NearerOK ==
  ASSUME NEW z \in Nat \ {0}, NEW p \in 0 .. z - 1, NEW k \in 0 .. z - 1, k # p
  PROVE  (k - ((p + 1) % z)) % z = ((k - p) % z) - 1
<1>1. p + 1 < z => (p + 1) % z = p + 1
  OBVIOUS
<1>2. p + 1 = z => (p + 1) % z = 0
  OBVIOUS
<1>3. k > p => (k - p) % z = k - p
  OBVIOUS
<1>4. k < p => (k - p) % z = k - p + z
  <2> HAVE k < p
  <2>1. k - p + z \in 0 .. z - 1
    OBVIOUS
  <2>2. (k - p + z) % z = k - p + z
    BY <2>1
  <2>3. (k - p + z) % z = (k - p) % z
    OBVIOUS
  <2> QED BY <2>2, <2>3
<1>5. k > p => (k - (p + 1)) % z = k - p - 1
  OBVIOUS
<1>6. k < p /\ p + 1 < z => (k - (p + 1)) % z = k - p + z - 1
  <2> HAVE k < p /\ p + 1 < z
  <2>1. k - (p + 1) + z \in 0 .. z - 1
    OBVIOUS
  <2>2. (k - (p + 1) + z) % z = k - (p + 1) + z
    BY <2>1
  <2>3. (k - (p + 1) + z) % z = (k - (p + 1)) % z
    OBVIOUS
  <2> QED BY <2>2, <2>3
<1>7. (k - 0) % z = k
  OBVIOUS
<1>8. p + 1 < z \/ p + 1 = z
  OBVIOUS
<1>9. CASE p + 1 = z
  <2>1. k < p
    BY <1>9
  <2> QED BY <1>2, <1>4, <1>7, <1>9, <2>1
<1>10. CASE p + 1 < z
  <2>1. CASE k > p
    BY <1>1, <1>3, <1>5, <1>10, <2>1
  <2>2. CASE k < p
    BY <1>1, <1>4, <1>6, <1>10, <2>2
  <2> QED BY <2>1, <2>2
<1> QED BY <1>8, <1>9, <1>10

\* How many slots ahead slot k of wheel i is, and the ticks until it is passed.
Dist(x, i, k) == (k - x[i]) % Size[i]
Eta(x, i, k)  == TurnsIn(x)[i - 1] + Dist(x, i, k) * Cap[i - 1]

\* No slot is passed in no time.
LEMMA EtaOK ==
  ASSUME NEW x \in Positions, NEW i \in Wheels, NEW k \in 0 .. Size[i] - 1
  PROVE  /\ Dist(x, i, k) \in 0 .. Size[i] - 1
         /\ TurnsIn(x)[i - 1] \in Nat \ {0} /\ Cap[i - 1] \in Nat \ {0}
         /\ TurnsIn(x)[i - 1] <= Cap[i - 1]
         /\ Eta(x, i, k) \in Nat \ {0}
<1>1. x[i] \in Int /\ Size[i] \in Nat \ {0} /\ i - 1 \in 0 .. Top
  BY SizesOK DEF Positions
<1>2. Dist(x, i, k) \in 0 .. Size[i] - 1
  BY <1>1 DEF Dist
<1>3. TurnsIn(x) \in [0 .. Top -> Nat \ {0}] /\ TurnsIn(x)[i - 1] <= Cap[i - 1]
  BY <1>1, DueOK
<1>4. TurnsIn(x)[i - 1] \in Nat \ {0} /\ Cap[i - 1] \in Nat \ {0}
  <2> DEFINE d == TurnsIn(x)
  <2>1. d \in [0 .. Top -> Nat \ {0}]
    BY <1>3
  <2> HIDE DEF d
  <2>2. d[i - 1] \in Nat \ {0}
    BY <1>1, <2>1
  <2> QED BY <1>1, <2>2, CapOK DEF d
<1> DEFINE a == Dist(x, i, k)
           c == Cap[i - 1]
           d == TurnsIn(x)[i - 1]
<1>5. a \in Nat /\ c \in Nat /\ d \in Nat \ {0} /\ Eta(x, i, k) = d + a * c
  BY <1>1, <1>2, <1>4 DEF Eta
<1> HIDE DEF a, c, d
<1>6. d + a * c \in Nat \ {0}
  <2>1. a * c \in Nat
    BY <1>5
  <2> QED BY <1>5, <2>1
<1> QED BY <1>2, <1>3, <1>4, <1>5, <1>6

\* A timer is put where it is passed in time.
LEMMA PutInTime ==
  ASSUME NEW v \in WheelStates, NEW ms \in 0 .. Word - 1, NEW n, n = ms \div Tick,
         NEW i, i = WheelFor(n), NEW k, k = SlotOf(v, i, n)
  PROVE  Eta(v.idx, i, k) * Tick <= ms + Tick
<1> DEFINE x == v.idx
           a == Ahead(i, n)
           z == Size[i]
<1>1. n \in Nat /\ i \in Wheels /\ n < Cap[i] /\ (i > 1 => Cap[i - 1] <= n)
  BY WheelForOK
<1>2. a \in 0 .. z - 1 /\ (i > 1 => (a + 1) * Cap[i - 1] <= n)
  BY <1>1, AheadOK
<1>3. x \in Positions
  BY DEF WheelStates, Positions
<1>4. z \in Nat \ {0} /\ x[i] \in 0 .. z - 1 /\ k = (x[i] + a) % z
  BY <1>1, SizesOK DEF WheelStates, SlotOf
<1>5. k \in 0 .. z - 1
  <2> HIDE DEF x, a, z
  <2> QED BY <1>2, <1>4
<1>6. Dist(x, i, k) = (k - x[i]) % z
  BY DEF Dist
<1>7. Dist(x, i, k) = a
  <2> DEFINE p == x[i]
  <2>1. p \in 0 .. z - 1 /\ Dist(x, i, k) = (((p + a) % z) - p) % z
    BY <1>4, <1>6
  <2> HIDE DEF x, a, z, p
  <2>2. (((p + a) % z) - p) % z = a
    BY ONLY <1>2, <1>4, <2>1, AroundOK
  <2> QED BY <2>1, <2>2
<1>8. TurnsIn(x)[i - 1] \in Nat \ {0} /\ Cap[i - 1] \in Nat \ {0} /\ TurnsIn(x)[i - 1] <= Cap[i - 1]
  BY <1>1, <1>3, <1>5, EtaOK
<1>9. Eta(x, i, k) = TurnsIn(x)[i - 1] + a * Cap[i - 1]
  BY <1>7 DEF Eta
<1>10. n * Tick <= ms /\ Tick \in Nat \ {0} /\ ms \in Nat
  BY TickAssumption, DelayAssumption
<1>11. Eta(x, i, k) <= n + 1
  <2>1. CASE i = 1
    <3>1. TurnsIn(x)[0] = 1 /\ Cap[0] = 1
      BY <1>3, DueOK, CapOK
    <3>2. a = n
      BY <2>1 DEF Ahead
    <3> QED BY <1>1, <1>9, <2>1, <3>1, <3>2
  <2>2. CASE i > 1
    <3> DEFINE c == Cap[i - 1]
               d == TurnsIn(x)[i - 1]
    <3>1. c \in Nat /\ d \in Nat /\ d <= c /\ (a + 1) * c <= n /\ a \in Nat
      BY <1>2, <1>4, <1>8, <2>2
    <3>2. Eta(x, i, k) = d + a * c
      BY <1>9
    <3> HIDE DEF a, c, d
    <3>3. d + a * c <= (a + 1) * c
      BY <3>1
    <3>4. a * c \in Nat /\ (a + 1) * c \in Nat
      BY <3>1
    <3> QED BY <1>1, <3>1, <3>2, <3>3, <3>4
  <2> QED BY <1>1, <2>1, <2>2, SizesOK
<1>12. Eta(x, i, k) \in Nat
  BY <1>1, <1>3, <1>5, EtaOK
<1> DEFINE y == Eta(x, i, k)
<1>13. y \in Nat /\ y <= n + 1 /\ n \in Nat
  BY <1>1, <1>11, <1>12
<1> HIDE DEF y
<1>14. y * Tick <= (n + 1) * Tick /\ (n + 1) * Tick = n * Tick + Tick
  BY <1>10, <1>13
<1>15. y * Tick <= ms + Tick
  BY <1>10, <1>13, <1>14
<1> QED BY <1>15 DEF y

\* Wheel j has turned, and nothing else has.
Turned(y, x, j) == \A i \in Wheels : y[i] = IF i = j THEN (x[j] + 1) % Size[j] ELSE x[i]

\* While the wheels below j have wrapped and those from j on have not turned yet, the
\* slots of these are all counted one slot of wheel j - 1 too far.
Late(i, j, c) == IF i > j THEN c ELSE 0
Carry(x, j)   == IF x[j] = Size[j] - 1 THEN Cap[j] ELSE 0

\* A wheel that wraps has its whole turn before it.
LEMMA TurnMoved ==
  ASSUME NEW x \in Positions, NEW y \in Positions, NEW j \in Wheels, Turned(y, x, j),
         TurnsIn(x)[j - 1] = Cap[j - 1]
  PROVE  x[j] = Size[j] - 1 => TurnsIn(y)[j] = Cap[j]
<1> DEFINE c == Cap[j - 1]
           z == Size[j]
           d == TurnsIn(y)
<1>1. j \in 1 .. Top /\ j - 1 \in 0 .. Top /\ j - 1 \in 0 .. j - 1 /\ Top \in Nat
  BY SizesOK
<1>2. c \in Nat /\ z \in Nat \ {0} /\ Cap[j] = c * z
  BY <1>1, SizesOK, CapOK
<1>3. d[j - 1] = c
  BY <1>1, DueMoved DEF Turned
<1>4. d[j] = d[j - 1] + (z - 1 - y[j]) * c
  BY DueOK
<1>5. ASSUME x[j] = z - 1 PROVE y[j] = 0
  <2>1. y[j] = (z - 1 + 1) % z
    BY <1>5 DEF Turned
  <2> QED BY <1>2, <2>1
<1> HIDE DEF c, z, d
<1>6. c + (z - 1 - 0) * c = c * z
  BY <1>2
<1>7. ASSUME x[j] = z - 1 PROVE d[j] = Cap[j]
  BY <1>2, <1>3, <1>4, <1>5, <1>6, <1>7
<1> QED BY <1>7 DEF z, d

\* A turn of wheel j brings every slot but the one it passes nearer by as much as was carried to j.
LEMMA EtaTurned ==
  ASSUME NEW x \in Positions, NEW y \in Positions, NEW j \in Wheels, Turned(y, x, j),
         TurnsIn(x)[j - 1] = Cap[j - 1],
         NEW i \in Wheels, NEW k \in 0 .. Size[i] - 1, ~ (i = j /\ k = x[j])
  PROVE  Eta(y, i, k) - Late(i, j, Carry(x, j)) = Eta(x, i, k) - Late(i, j - 1, Cap[j - 1])
<1> DEFINE c == Cap[j - 1]
           z == Size[j]
           p == x[j]
<1>1. /\ j \in 1 .. Top /\ j - 1 \in 0 .. Top /\ j - 1 \in 0 .. j - 1 /\ Top \in Nat
      /\ i \in 1 .. Top /\ i - 1 \in 0 .. Top
  BY SizesOK
<1>2. c \in Nat /\ z \in Nat \ {0} /\ Cap[j] = c * z /\ p \in 0 .. z - 1 /\ y[j] = (p + 1) % z
  BY <1>1, SizesOK, CapOK DEF Positions, Turned
<1>3. /\ \A m \in 0 .. j - 1 : TurnsIn(y)[m] = TurnsIn(x)[m]
      /\ \A m \in j .. Top : TurnsIn(y)[m] = TurnsIn(x)[m] + (p - y[j]) * c
  BY DueMoved DEF Turned
<1>4. Eta(x, i, k) \in Int /\ Eta(y, i, k) \in Int
  BY EtaOK
<1>5. CASE i < j
  <2>1. i - 1 \in 0 .. j - 1 /\ ~ (i > j) /\ ~ (i > j - 1) /\ i # j
    BY <1>1, <1>5
  <2>2. TurnsIn(y)[i - 1] = TurnsIn(x)[i - 1] /\ y[i] = x[i]
    BY <1>3, <2>1 DEF Turned
  <2>3. Eta(y, i, k) = Eta(x, i, k)
    BY <2>2 DEF Eta, Dist
  <2> QED BY <2>1, <2>3 DEF Late
<1>6. CASE i = j
  <2>1. ~ (i > j) /\ i > j - 1
    BY <1>1, <1>6
  <2>2. TurnsIn(y)[j - 1] = c /\ TurnsIn(x)[j - 1] = c
    BY <1>1, <1>3
  <2>3. Dist(y, j, k) = (k - y[j]) % z /\ Dist(x, j, k) = (k - p) % z
    BY DEF Dist
  <2>4. k \in 0 .. z - 1 /\ k # p
    BY <1>6
  <2>5. Eta(y, j, k) = c + Dist(y, j, k) * c /\ Eta(x, j, k) = c + Dist(x, j, k) * c
    BY <2>2 DEF Eta
  <2>6. Dist(x, j, k) \in Int
    BY <1>6, EtaOK
  <2> DEFINE a == Dist(x, j, k)
             b == Dist(y, j, k)
  <2>7. b = a - 1
    <3> HIDE DEF c, z, p
    <3>1. (k - ((p + 1) % z)) % z = ((k - p) % z) - 1
      BY ONLY <1>2, <2>4, NearerOK
    <3> DEFINE q == (p + 1) % z
    <3>2. y[j] = q /\ (k - q) % z = ((k - p) % z) - 1
      BY <1>2, <3>1
    <3> HIDE DEF q
    <3>3. (k - y[j]) % z = ((k - p) % z) - 1
      BY ONLY <3>2
    <3> QED BY <2>3, <3>3
  <2>8. b * c = a * c - c /\ a * c \in Int /\ b * c \in Int
    <3>1. a \in Int /\ c \in Int
      BY <1>2, <2>6
    <3> HIDE DEF a, b, c
    <3>2. (a - 1) * c = a * c - c /\ a * c \in Int /\ (a - 1) * c \in Int
      BY <3>1
    <3> QED BY <2>7, <3>2
  <2> DEFINE ac == a * c
             bc == b * c
  <2>9. Eta(y, j, k) = Eta(x, j, k) - c
    <3>1. Eta(y, j, k) = c + bc /\ Eta(x, j, k) = c + ac /\ c \in Int
      BY <1>2, <2>5
    <3>2. bc = ac - c /\ ac \in Int /\ bc \in Int
      BY <2>8
    <3> HIDE DEF c, ac, bc
    <3> QED BY <3>1, <3>2
  <2> QED BY <1>2, <1>4, <1>6, <2>1, <2>9 DEF Late
<1>7. CASE i > j
  <2>1. i - 1 \in j .. Top /\ i > j - 1 /\ i # j
    BY <1>1, <1>7
  <2>2. TurnsIn(y)[i - 1] = TurnsIn(x)[i - 1] + (p - y[j]) * c /\ y[i] = x[i]
    BY <1>3, <2>1 DEF Turned
  <2> DEFINE d == TurnsIn(x)[i - 1]
             e == TurnsIn(y)[i - 1]
             f == Dist(x, i, k) * Cap[i - 1]
             g == (p - y[j]) * c
  <2>3. Eta(x, i, k) = d + f /\ Eta(y, i, k) = e + f
    BY <2>2 DEF Eta, Dist
  <2>4. d \in Int /\ e \in Int /\ f \in Int
    <3>1. Dist(x, i, k) \in Int /\ Cap[i - 1] \in Int /\ d \in Int /\ e \in Int
      BY EtaOK
    <3>2. \A r, s \in Int : r * s \in Int
      OBVIOUS
    <3> QED BY <3>1, <3>2
  <2>5. g = Carry(x, j) - c /\ Carry(x, j) \in Int
    <3>1. CASE p = z - 1
      <4>1. y[j] = 0
        <5>1. (z - 1 + 1) % z = 0
          BY <1>2
        <5> QED BY <1>2, <3>1, <5>1
      <4>2. Carry(x, j) = c * z
        BY <1>2, <3>1 DEF Carry
      <4>3. (z - 1 - 0) * c = c * z - c /\ c * z \in Int
        <5> HIDE DEF c, z
        <5> QED BY <1>2
      <4> QED BY <3>1, <4>1, <4>2, <4>3
    <3>2. CASE p # z - 1
      <4>1. (p + 1) % z = p + 1
        <5> HIDE DEF c, z, p
        <5> QED BY <1>2, <3>2
      <4>2. p - (p + 1) = -1
        BY <1>2
      <4>3. (-1) * c = 0 - c
        <5> HIDE DEF c
        <5> QED BY <1>2
      <4>4. Carry(x, j) = 0
        BY <3>2 DEF Carry
      <4>5. g = (-1) * c
        BY <1>2, <4>1, <4>2
      <4> QED BY <4>3, <4>4, <4>5
    <3> QED BY <3>1, <3>2
  <2>6. Late(i, j, Carry(x, j)) = Carry(x, j) /\ Late(i, j - 1, c) = c
    BY <1>7, <2>1 DEF Late
  <2>7. e = d + g
    BY <2>2
  <2> HIDE DEF d, e, f, g, c
  <2> QED BY <1>2, <2>3, <2>4, <2>5, <2>6, <2>7 DEF c
<1> QED BY <1>1, <1>5, <1>6, <1>7

-----------------------------------------------------------------------------
(* The timers that are called once, in time                                *)

\* Where the wheels below j have wrapped: every such timer's slot is passed no later
\* than b after the timer is due.
InTime(v, j, c, b) ==
  \A i \in Wheels : \A k \in 0 .. Size[i] - 1 : \A n \in 1 .. Len(v.slot[i][k]) :
    OneShot(v.slot[i][k][n]) =>
      (Eta(v.idx, i, k) - Late(i, j, c)) * Tick <= when[v.slot[i][k][n]] + b

\* Between the ticks.
OnTime(v, b) == InTime(v, 0, 0, b)

\* A cascade that ends has carried everything.
LEMMA Settled ==
  ASSUME NEW v \in WheelStates, NEW b \in Int
  PROVE  /\ \A j \in 0 .. Top : InTime(v, j, 0, b) => OnTime(v, b)
         /\ \A c \in Int : InTime(v, Top, c, b) => OnTime(v, b)
<1>1. \A j, i : Late(i, j, 0) = 0
  BY DEF Late
<1>2. ASSUME NEW i \in Wheels, NEW c \in Int PROVE Late(i, Top, c) = 0
  <2>1. ~ (i > Top)
    BY SizesOK
  <2> QED BY <2>1 DEF Late
<1>3. ASSUME NEW j \in 0 .. Top, InTime(v, j, 0, b) PROVE OnTime(v, b)
  BY <1>1, <1>3 DEF InTime, OnTime
<1>4. ASSUME NEW c \in Int, InTime(v, Top, c, b) PROVE OnTime(v, b)
  BY <1>1, <1>2, <1>4 DEF InTime, OnTime
<1> QED BY <1>3, <1>4

\* What is in time depends on the slots alone.
LEMMA SameInTime ==
  ASSUME NEW v, NEW u, u.idx = v.idx, u.slot = v.slot, NEW j, NEW c, NEW b, InTime(v, j, c, b)
  PROVE  InTime(u, j, c, b)
BY DEF InTime

\* A turn: what was owed to the wheels from j on is paid by wheel j, which owes the
\* next ones in turn when it wraps.
LEMMA TurnInTime ==
  ASSUME NEW v \in WheelStates, NEW j \in Wheels, NEW b \in Int, NEW u, u = Turn(v, j),
         InTime(v, j - 1, Cap[j - 1], b), TurnsIn(v.idx)[j - 1] = Cap[j - 1]
  PROVE  /\ InTime(u, j, Carry(v.idx, j), b)
         /\ Wraps(v, j) => TurnsIn(u.idx)[j] = Cap[j]
<1> DEFINE x == v.idx
           y == u.idx
           e == <<>>
<1>1. u \in WheelStates /\ IdxNow(u, v, j, (v.idx[j] + 1) % Size[j]) /\ SlotNow(u, v, j, v.idx[j], e)
  BY TurnOK
<1>2. x \in Positions /\ y \in Positions
  BY <1>1 DEF WheelStates, Positions
<1>3. Turned(y, x, j)
  BY <1>1 DEF Turned, IdxNow
<1>4. Wraps(v, j) => TurnsIn(u.idx)[j] = Cap[j]
  BY <1>2, <1>3, TurnMoved DEF Wraps
<1>5. ASSUME NEW i \in Wheels, NEW k \in 0 .. Size[i] - 1, NEW n \in 1 .. Len(u.slot[i][k]),
             OneShot(u.slot[i][k][n])
      PROVE  (Eta(y, i, k) - Late(i, j, Carry(x, j))) * Tick <= when[u.slot[i][k][n]] + b
  <2>1. ~ (i = j /\ k = x[j])
    <3> SUFFICES ASSUME i = j /\ k = x[j] PROVE FALSE
      OBVIOUS
    <3>1. u.slot[i][k] = e
      BY <1>1 DEF SlotNow
    <3>2. Len(u.slot[i][k]) = 0
      BY <3>1
    <3> QED BY <3>2
  <2>2. u.slot[i][k] = v.slot[i][k]
    BY <1>1, <2>1 DEF SlotNow
  <2>3. Eta(y, i, k) - Late(i, j, Carry(x, j)) = Eta(x, i, k) - Late(i, j - 1, Cap[j - 1])
    BY <1>2, <1>3, <2>1, EtaTurned
  <2>4. (Eta(x, i, k) - Late(i, j - 1, Cap[j - 1])) * Tick <= when[v.slot[i][k][n]] + b
    BY <1>5, <2>2 DEF InTime
  <2> QED BY <2>2, <2>3, <2>4
<1> HIDE DEF x, y, e
<1>6. InTime(u, j, Carry(x, j), b)
  BY <1>5 DEF InTime, y
<1> QED BY <1>4, <1>6 DEF x

\* A timer that is put into its slot is in time, and so are the others.
LEMMA PutKeepsTime ==
  ASSUME WhenType, NEW v \in WheelStates, NEW j \in 0 .. Top, NEW c \in Nat, NEW b \in Int, InTime(v, j, c, b),
         NEW t \in Timers, NEW ms \in 0 .. Word - 1, OneShot(t) => ms + Tick <= when[t] + b,
         NEW u, u = Put(v, t, ms)
  PROVE  InTime(u, j, c, b) /\ u.idx = v.idx /\ u \in WheelStates
<1> DEFINE n == ms \div Tick
           i == WheelFor(n)
           k == SlotOf(v, i, n)
           x == v.idx
<1>1. /\ i \in Wheels /\ k \in 0 .. Size[i] - 1
      /\ u \in WheelStates /\ u.idx = x
      /\ SlotNow(u, v, i, k, Append(v.slot[i][k], t))
  BY PutOK
<1>2. Eta(x, i, k) * Tick <= ms + Tick
  BY PutInTime
<1>3. v.slot[i][k] \in Seq(Timers) /\ x \in Positions
  BY <1>1 DEF WheelStates, Positions
<1>4. Eta(x, i, k) \in Nat /\ Late(i, j, c) \in Nat /\ Tick \in Nat /\ ms \in Int
  BY <1>1, <1>3, EtaOK, TickAssumption, DelayAssumption DEF Late
<1> HIDE DEF n, i, k, x
<1>5. ASSUME OneShot(t) PROVE (Eta(x, i, k) - Late(i, j, c)) * Tick <= when[t] + b
  <2> DEFINE p == Eta(x, i, k)
             q == Late(i, j, c)
             z == when[t]
  <2>1. p * Tick <= z + b /\ z \in Int
    <3>1. ms + Tick <= z + b /\ z \in Int
      BY <1>5 DEF WhenType
    <3> DEFINE pt == p * Tick
    <3>2. pt \in Int /\ pt <= ms + Tick
      BY <1>2, <1>4
    <3> HIDE DEF pt, z
    <3>3. pt <= z + b
      BY <1>4, <3>1, <3>2
    <3> QED BY <3>1, <3>3 DEF pt
  <2>2. (p - q) * Tick <= p * Tick /\ (p - q) * Tick \in Int /\ p * Tick \in Int
    <3>1. p \in Nat /\ q \in Nat /\ Tick \in Nat
      BY <1>4
    <3> HIDE DEF p, q
    <3>2. (p - q) * Tick = p * Tick - q * Tick /\ q * Tick \in Nat /\ p * Tick \in Nat
      BY <3>1
    <3> QED BY <3>1, <3>2
  <2> DEFINE pq == (p - q) * Tick
             pt == p * Tick
  <2>3. pq <= pt /\ pq \in Int /\ pt \in Int /\ pt <= z + b /\ z \in Int
    BY <2>1, <2>2
  <2> HIDE DEF pq, pt, z
  <2>4. pq <= z + b
    BY <2>3
  <2> QED BY <2>4 DEF pq, z
<1>6. ASSUME NEW g \in Wheels, NEW l \in 0 .. Size[g] - 1, NEW m \in 1 .. Len(u.slot[g][l]),
             OneShot(u.slot[g][l][m])
      PROVE  (Eta(x, g, l) - Late(g, j, c)) * Tick <= when[u.slot[g][l][m]] + b
  <2>1. CASE ~ (g = i /\ l = k)
    <3>1. u.slot[g][l] = v.slot[g][l]
      BY <1>1, <2>1 DEF SlotNow
    <3> QED BY <1>6, <3>1 DEF InTime, x
  <2>2. CASE g = i /\ l = k
    <3>1. u.slot[g][l] = Append(v.slot[i][k], t)
      BY <1>1, <2>2 DEF SlotNow
    <3> DEFINE s == v.slot[i][k]
    <3>2. s \in Seq(Timers) /\ u.slot[g][l] = Append(s, t)
      BY <1>3, <3>1
    <3> HIDE DEF s
    <3>3. m \in 1 .. Len(s) + 1
      BY <3>2
    <3>4. CASE m = Len(s) + 1
      <4>1. u.slot[g][l][m] = t
        BY <3>2, <3>4
      <4> QED BY <1>5, <1>6, <2>2, <4>1
    <3>5. CASE m # Len(s) + 1
      <4>1. m \in 1 .. Len(s)
        BY <3>2, <3>3, <3>5
      <4>2. u.slot[g][l][m] = s[m]
        BY <3>2, <4>1
      <4>3. \A p \in 1 .. Len(s) : OneShot(s[p]) => (Eta(x, i, k) - Late(i, j, c)) * Tick <= when[s[p]] + b
        BY <1>1 DEF InTime, x, s
      <4> QED BY <1>6, <2>2, <4>1, <4>2, <4>3
    <3> QED BY <3>4, <3>5
  <2> QED BY <2>1, <2>2
<1>7. InTime(u, j, c, b)
  BY <1>1, <1>6 DEF InTime
<1> QED BY <1>1, <1>7 DEF x

\* The nodes a cascade spreads: ready, or put where they are passed in time.
LEMMA SpreadInTime ==
  ASSUME WhenType, NEW v \in WheelStates, NEW j \in 0 .. Top, NEW c \in Nat, NEW b \in Int,
         InTime(v, j, c, b), NEW nodes \in Seq(Timers), NEW time \in Int, Tick - time <= b,
         NEW z, z = Spread(v, nodes, time)
  PROVE  z \in WheelStates /\ InTime(z, j, c, b) /\ z.idx = v.idx
<1> DEFINE N == Len(nodes)
           S == {x \in WheelStates : InTime(x, j, c, b) /\ x.idx = v.idx}
<1>1. N \in Nat /\ \A k \in 1 .. N : nodes[k] \in Timers /\ k \in 0 .. N /\ k - 1 \in 0 .. N
  OBVIOUS
<1>2. PICK u \in [0 .. N -> WheelStates] :
        /\ u[0] = v
        /\ \A k \in 1 .. N : u[k] = SpreadNode(u[k - 1], nodes[k], time)
        /\ Spread(v, nodes, time) = u[N]
  BY SpreadPasses
<1>3. ASSUME NEW k \in 1 .. N, u[k - 1] \in S PROVE u[k] \in S
  <2> DEFINE t == nodes[k]
             x == u[k - 1]
             y == u[k]
             ms == (when[t] - time) % Word
  <2>1. t \in Timers /\ x \in WheelStates /\ y \in WheelStates
    BY <1>1, <1>2
  <2>2. InTime(x, j, c, b) /\ x.idx = v.idx
    BY <1>3
  <2>3. y = SpreadNode(x, t, time)
    BY <1>2
  <2>4. when[t] \in Int /\ Word \in Nat \ {0} /\ Tick \in Nat
    BY <2>1, DelayAssumption, TickAssumption DEF WhenType
  <2>5. ms \in 0 .. Word - 1
    <3>1. \A h \in Int, d \in Nat \ {0} : h % d \in 0 .. d - 1
      OBVIOUS
    <3> DEFINE g == when[t] - time
    <3>2. g \in Int /\ Word \in Nat \ {0}
      BY <2>4
    <3>3. ms = g % Word
      OBVIOUS
    <3> HIDE DEF g, ms
    <3> QED BY ONLY <3>1, <3>2, <3>3
  <2>6. when[t] > time => ms <= when[t] - time
    <3> DEFINE g == when[t] - time
    <3>1. when[t] > time => g \in Nat
      BY <2>4
    <3>2. \A h \in Nat : h % Word <= h
      BY <2>4
    <3> QED BY <3>1, <3>2
  <2> HIDE DEF t, x, y, ms
  <2>7. CASE when[t] <= time
    <3> DEFINE s == Append(x.ready, t)
    <3>1. s \in Seq(Timers)
      BY <2>1 DEF WheelStates
    <3>2. y = [idx |-> x.idx, slot |-> x.slot, ready |-> s]
      BY <2>1, <2>3, <2>7 DEF SpreadNode, WheelStates
    <3> HIDE DEF s
    <3>3. y.idx = x.idx /\ y.slot = x.slot
      BY ONLY <3>2
    <3>4. InTime(y, j, c, b)
      BY <2>2, <3>3, SameInTime
    <3> QED BY <2>1, <2>2, <3>3, <3>4 DEF y
  <2>8. CASE ~ (when[t] <= time)
    <3>1. y = Put(x, t, ms)
      BY <2>3, <2>8 DEF SpreadNode, ms
    <3>2. ms + Tick <= when[t] + b
      BY <2>4, <2>5, <2>6, <2>8
    <3>3. InTime(y, j, c, b) /\ y.idx = x.idx
      BY <2>1, <2>2, <2>5, <3>1, <3>2, PutKeepsTime
    <3> QED BY <2>1, <2>2, <3>3 DEF y
  <2> QED BY <2>7, <2>8
<1>4. u[0] \in S
  BY <1>2
<1> HIDE DEF S
<1>5. \A k \in 0 .. N : u[k] \in S
  BY ONLY <1>1, <1>3, <1>4, Kept
<1>6. u[N] \in S
  BY <1>1, <1>5
<1> QED BY <1>2, <1>6 DEF S

\* What holds after wheel j has turned, a.wraps saying whether it wrapped.
Cascading(a, j, b) ==
  /\ InTime(a.v, j, IF a.wraps THEN Cap[j] ELSE 0, b)
  /\ a.wraps => TurnsIn(a.v.idx)[j] = Cap[j]

\* A pass of the cascade carries the turn of one wheel and spreads the slot it passes.
LEMMA CascadeWheelInTime ==
  ASSUME WhenType, NEW a \in CascadeStates, NEW j \in Wheels, NEW b \in Int, NEW time \in Int,
         Tick - time <= b, Cascading(a, j - 1, b), NEW z \in CascadeStates, z = CascadeWheel(a, j, time)
  PROVE  Cascading(z, j, b)
<1>1. a.v \in WheelStates /\ a.wraps \in BOOLEAN
  BY DEF CascadeStates
<1>2. j \in 1 .. Top /\ j - 1 \in 0 .. Top /\ j \in 0 .. Top
  BY SizesOK
<1>3. Cap[j - 1] \in Nat /\ Cap[j] \in Nat
  BY <1>2, CapOK
<1>4. CASE ~ a.wraps
  <2>1. z = a
    BY <1>4 DEF CascadeWheel
  <2>2. InTime(a.v, j - 1, 0, b)
    BY <1>4 DEF Cascading
  <2>3. InTime(a.v, 0, 0, b)
    BY <1>1, <1>2, <2>2, Settled DEF OnTime
  <2>4. \A i : Late(i, j, 0) = Late(i, 0, 0)
    BY DEF Late
  <2>5. InTime(a.v, j, 0, b)
    BY <2>3, <2>4 DEF InTime
  <2> QED BY <1>4, <2>1, <2>5 DEF Cascading
<1>5. CASE a.wraps
  <2> DEFINE y == Turn(a.v, j)
             nodes == Current(a.v, j)
             u == Spread(y, nodes, time)
             c == Carry(a.v.idx, j)
  <2>1. InTime(a.v, j - 1, Cap[j - 1], b) /\ TurnsIn(a.v.idx)[j - 1] = Cap[j - 1]
    BY <1>5 DEF Cascading
  <2>2. InTime(y, j, c, b) /\ (Wraps(a.v, j) => TurnsIn(y.idx)[j] = Cap[j])
    BY <1>1, <2>1, TurnInTime
  <2>3. y \in WheelStates
    BY <1>1, TurnOK
  <2>4. nodes \in Seq(Timers)
    BY <1>1 DEF Current, WheelStates
  <2>5. c \in Nat /\ c = IF Wraps(a.v, j) THEN Cap[j] ELSE 0
    BY <1>3 DEF Carry, Wraps
  <2>6. z = [v |-> u, wraps |-> Wraps(a.v, j)]
    BY <1>5 DEF CascadeWheel
  <2> HIDE DEF y, nodes, c
  <2>7. u \in WheelStates /\ InTime(u, j, c, b) /\ u.idx = y.idx
    BY <1>2, <2>2, <2>3, <2>4, <2>5, SpreadInTime
  <2> HIDE DEF u
  <2>8. z.v = u /\ z.wraps = Wraps(a.v, j)
    BY <2>6
  <2> QED BY <2>2, <2>5, <2>7, <2>8 DEF Cascading
<1> QED BY <1>1, <1>4, <1>5

\* A cascade begins where the lowest wheel has wrapped.
LEMMA CascadeInTime ==
  ASSUME WhenType, NEW v \in WheelStates, NEW b \in Int, NEW time \in Int, Tick - time <= b,
         InTime(v, 1, Cap[1], b), TurnsIn(v.idx)[1] = Cap[1], NEW z, z = Cascade(v, time)
  PROVE  z \in WheelStates /\ OnTime(z, b)
<1> DEFINE N == Top - 1
           S == [k \in 0 .. N |-> {x \in CascadeStates : Cascading(x, k + 1, b)}]
<1>1. /\ N \in Nat /\ Top \in Nat
      /\ \A k \in 1 .. N : k + 1 \in Wheels /\ k - 1 \in 0 .. N /\ k \in 0 .. N /\ k - 1 + 1 = k + 1 - 1
  BY SizesOK
<1>2. PICK a \in [0 .. N -> CascadeStates] :
        /\ a[0] = [v |-> v, wraps |-> TRUE]
        /\ \A k \in 1 .. N : a[k] = CascadeWheel(a[k - 1], k + 1, time)
        /\ Cascade(v, time) = a[N].v
  BY CascadePasses
<1>3. a[0] \in S[0]
  <2>1. 0 \in 0 .. N
    BY <1>1
  <2>2. a[0] \in CascadeStates /\ a[0] = [v |-> v, wraps |-> TRUE]
    BY <1>2, <2>1
  <2>3. a[0].v = v /\ a[0].wraps = TRUE
    BY ONLY <2>2
  <2>4. Cascading(a[0], 1, b)
    BY <2>3 DEF Cascading
  <2> QED BY <2>1, <2>2, <2>4
<1>4. ASSUME NEW k \in 1 .. N, a[k - 1] \in S[k - 1] PROVE a[k] \in S[k]
  <2>1. a[k - 1] \in CascadeStates /\ Cascading(a[k - 1], k + 1 - 1, b)
    BY <1>1, <1>4
  <2>2. a[k] \in CascadeStates /\ a[k] = CascadeWheel(a[k - 1], k + 1, time) /\ k + 1 \in Wheels
    BY <1>1, <1>2
  <2>3. Cascading(a[k], k + 1, b)
    BY <2>1, <2>2, CascadeWheelInTime
  <2> QED BY <1>1, <2>2, <2>3
<1> HIDE DEF S
<1>5. \A k \in 0 .. N : a[k] \in S[k]
  BY ONLY <1>1, <1>3, <1>4, KeptAt
<1>6. a[N] \in S[N] /\ N \in 0 .. N /\ N + 1 = Top
  BY <1>1, <1>5
<1>7. a[N] \in CascadeStates /\ Cascading(a[N], Top, b)
  BY <1>6 DEF S
<1>8. a[N].v \in WheelStates /\ a[N].wraps \in BOOLEAN
  BY <1>7 DEF CascadeStates
<1>9. (IF a[N].wraps THEN Cap[Top] ELSE 0) \in Int
  <2>1. Top \in 0 .. Top
    BY <1>1
  <2> QED BY <2>1, CapOK
<1>10. OnTime(a[N].v, b)
  BY <1>7, <1>8, <1>9, Settled DEF Cascading
<1> QED BY <1>2, <1>8, <1>10

\* A tick brings every slot one tick nearer.
LEMMA OneTickInTime ==
  ASSUME WhenType, NEW v \in WheelStates, NEW b \in Int, NEW time \in Int, 2 * Tick - time <= b,
         OnTime(v, b), NEW z, z = OneTick(v, time)
  PROVE  OnTime(z, b - Tick)
<1> DEFINE y == Turn(v, 1)
           c == Current(v, 1)
           s == y.ready \o c
           u == [y EXCEPT !.ready = s]
           d == b - Tick
           q == Carry(v.idx, 1)
<1>1. 1 \in Wheels /\ Tick \in Nat /\ d \in Int /\ Tick - time <= d
  BY SizesOK, TickAssumption
<1>2. Cap[0] = 1 /\ Cap[1] \in Nat
  BY CapOK, SizesOK
<1>3. v.idx \in Positions
  BY DEF WheelStates, Positions
<1>4. TurnsIn(v.idx)[0] = 1
  BY <1>3, DueOK
<1>5. InTime(v, 0, 1, d)
  <2> SUFFICES ASSUME NEW i \in Wheels, NEW k \in 0 .. Size[i] - 1, NEW n \in 1 .. Len(v.slot[i][k]),
                      OneShot(v.slot[i][k][n])
               PROVE  (Eta(v.idx, i, k) - Late(i, 0, 1)) * Tick <= when[v.slot[i][k][n]] + d
    BY DEF InTime
  <2> DEFINE p == Eta(v.idx, i, k)
             w0 == when[v.slot[i][k][n]]
  <2>1. Late(i, 0, 1) = 1 /\ Late(i, 0, 0) = 0
    <3>1. i > 0
      BY SizesOK
    <3> QED BY <3>1 DEF Late
  <2>2. (p - 0) * Tick <= w0 + b
    BY <2>1 DEF OnTime, InTime
  <2>3. p \in Int /\ w0 \in Int
    <3>1. v.slot[i][k] \in Seq(Timers)
      BY DEF WheelStates
    <3>2. v.slot[i][k][n] \in Timers
      BY <3>1
    <3>3. p \in Int
      BY <1>3, EtaOK
    <3> QED BY <3>2, <3>3 DEF WhenType
  <2> HIDE DEF p, w0
  <2>4. (p - 1) * Tick = (p - 0) * Tick - Tick /\ (p - 0) * Tick \in Int
    BY <1>1, <2>3
  <2> DEFINE pt == (p - 0) * Tick
  <2>5. (p - 1) * Tick = pt - Tick /\ pt \in Int /\ pt <= w0 + b
    BY <2>2, <2>4
  <2> HIDE DEF pt
  <2>6. pt - Tick <= w0 + d
    BY <1>1, <2>3, <2>5
  <2> QED BY <2>1, <2>5, <2>6 DEF p, w0
<1>6. y \in WheelStates /\ y.ready = v.ready
  BY <1>1, TurnOK
<1>7. InTime(y, 1, q, d) /\ (Wraps(v, 1) => TurnsIn(y.idx)[1] = Cap[1])
  BY <1>1, <1>2, <1>4, <1>5, TurnInTime
<1>8. c \in Seq(Timers) /\ y.ready \in Seq(Timers)
  BY <1>1, <1>6 DEF Current, WheelStates
<1>9. q \in Nat /\ q = IF Wraps(v, 1) THEN Cap[1] ELSE 0
  BY <1>2 DEF Carry, Wraps
<1> HIDE DEF y, c, q, d
<1>10. s \in Seq(Timers)
  BY <1>8
<1> HIDE DEF s
<1>11. u = [idx |-> y.idx, slot |-> y.slot, ready |-> s]
  <2>1. y \in [idx : [Wheels -> Nat], slot : [Wheels -> Rows], ready : Seq(Timers)]
    BY <1>6 DEF WheelStates
  <2> QED BY ONLY <2>1
<1> HIDE DEF u
<1>12. u \in WheelStates /\ u.idx = y.idx /\ u.slot = y.slot
  BY ONLY <1>6, <1>10, <1>11, ReadySet
<1>13. InTime(u, 1, q, d) /\ (Wraps(v, 1) => TurnsIn(u.idx)[1] = Cap[1])
  BY <1>7, <1>12, SameInTime
<1>14. OneTick(v, time) = IF Wraps(v, 1) THEN Cascade(u, time) ELSE u
  BY DEF OneTick, u, s, y, c
<1>15. OnTime(z, d)
  <2>1. CASE Wraps(v, 1)
    BY <1>1, <1>9, <1>12, <1>13, <1>14, <2>1, CascadeInTime
  <2>2. CASE ~ Wraps(v, 1)
    <3>1. 1 \in 0 .. Top
      BY SizesOK
    <3> QED BY <1>1, <1>9, <1>12, <1>13, <1>14, <2>2, <3>1, Settled
  <2> QED BY <2>1, <2>2
<1> QED BY <1>15 DEF d

\* n ticks bring every slot nearer by n ticks.
LEMMA TicksInTime ==
  ASSUME WhenType, NEW v \in WheelStates, NEW b \in Int, NEW time \in Int, Tick - time <= b,
         NEW n \in Nat, OnTime(v, b + n * Tick)
  PROVE  OnTime(Ticks(v, n, time), b)
<1> DEFINE S == [k \in 0 .. n |-> {x \in WheelStates : OnTime(x, b + (n - k) * Tick)}]
<1>1. Tick \in Nat
  BY TickAssumption
<1>2. PICK u \in [0 .. n -> WheelStates] :
        /\ u[0] = v
        /\ \A k \in 1 .. n : u[k] = OneTick(u[k - 1], time)
        /\ Ticks(v, n, time) = u[n]
  BY TicksPasses
<1>3. u[0] \in S[0]
  <2>1. 0 \in 0 .. n /\ n - 0 = n
    OBVIOUS
  <2>2. u[0] = v
    BY <1>2
  <2> QED BY <2>1, <2>2
<1>4. ASSUME NEW k \in 1 .. n, u[k - 1] \in S[k - 1] PROVE u[k] \in S[k]
  <2>1. k - 1 \in 0 .. n /\ k \in 0 .. n /\ n - k \in Nat /\ n - (k - 1) = n - k + 1
    OBVIOUS
  <2> DEFINE m == n - k
             d == b + (m + 1) * Tick
  <2>2. u[k - 1] \in WheelStates /\ OnTime(u[k - 1], d)
    BY <1>4, <2>1
  <2>3. u[k] \in WheelStates /\ u[k] = OneTick(u[k - 1], time)
    BY <1>2, <2>1
  <2>4. m \in Nat
    BY <2>1
  <2> HIDE DEF m
  <2>5. (m + 1) * Tick = m * Tick + Tick /\ m * Tick \in Nat
    BY <1>1, <2>4
  <2>6. d \in Int /\ 2 * Tick - time <= d /\ d - Tick = b + m * Tick
    <3> DEFINE mt == m * Tick
    <3>1. mt \in Nat /\ d = b + (mt + Tick)
      BY <2>5
    <3> HIDE DEF mt, d
    <3>2. d \in Int /\ 2 * Tick - time <= d /\ d - Tick = b + mt
      BY <1>1, <3>1
    <3> QED BY <3>2 DEF mt
  <2> HIDE DEF d
  <2>7. OnTime(u[k], d - Tick)
    BY <2>2, <2>3, <2>6, OneTickInTime
  <2>8. OnTime(u[k], b + m * Tick)
    BY <2>6, <2>7
  <2> QED BY <2>1, <2>3, <2>8 DEF m
<1> HIDE DEF S
<1>5. \A k \in 0 .. n : u[k] \in S[k]
  BY ONLY <1>3, <1>4, KeptAt, n \in Nat
<1>6. u[n] \in S[n] /\ n \in 0 .. n
  BY <1>5
<1>7. OnTime(u[n], b + (n - n) * Tick)
  BY <1>6 DEF S
<1>8. b + (n - n) * Tick = b
  BY <1>1
<1> QED BY <1>2, <1>7, <1>8

\* A callback puts no such timer back.
LEMMA CallBackInTime ==
  ASSUME WhenType, NEW v \in WheelStates, NEW b \in Int, NEW r \in Repeats, OnTime(v, b)
  PROVE  CallBack(v, r) \in WheelStates /\ OnTime(CallBack(v, r), b)
<1> DEFINE N == Len(v.ready)
           S == {x \in WheelStates : OnTime(x, b)}
           b0 == [v EXCEPT !.ready = <<>>]
<1>1. N \in Nat /\ \A k \in 1 .. N : v.ready[k] \in Timers /\ k \in 0 .. N /\ k - 1 \in 0 .. N
  <2>1. v.ready \in Seq(Timers)
    BY DEF WheelStates
  <2> QED BY <2>1
<1>2. PICK u \in [0 .. N -> WheelStates] :
        /\ u[0] = b0
        /\ \A k \in 1 .. N : u[k] = CallNode(u[k - 1], v.ready[k], r)
        /\ CallBack(v, r) = u[N]
  BY CallBackPasses
<1>3. u[0] \in S
  <2>1. b0.idx = v.idx /\ b0.slot = v.slot
    <3> DEFINE e == <<>>
    <3>1. b0 = [idx |-> v.idx, slot |-> v.slot, ready |-> e]
      BY DEF WheelStates
    <3> QED BY ONLY <3>1
  <2>2. u[0] = b0 /\ u[0] \in WheelStates
    BY <1>1, <1>2
  <2>3. OnTime(u[0], b)
    BY <2>1, <2>2, SameInTime DEF OnTime
  <2> QED BY <2>2, <2>3
<1>4. ASSUME NEW k \in 1 .. N, u[k - 1] \in S PROVE u[k] \in S
  <2> DEFINE t == v.ready[k]
             x == u[k - 1]
             y == u[k]
  <2>1. t \in Timers /\ x \in WheelStates /\ y \in WheelStates /\ OnTime(x, b) /\ y = CallNode(x, t, r)
    BY <1>1, <1>2, <1>4
  <2>2. r[t] \in 0 .. Word - 1 /\ r[t] \in Periods[t]
    BY <2>1, DelayAssumption DEF Repeats
  <2>3. OneShot(t) => r[t] = 0
    BY <2>2 DEF OneShot
  <2> HIDE DEF t, x, y
  <2>4. OnTime(y, b)
    <3>1. CASE r[t] > 0
      <4>1. y = Put(x, t, r[t]) /\ ~ OneShot(t)
        BY <2>1, <2>3, <3>1 DEF CallNode
      <4>2. 0 \in 0 .. Top /\ 0 \in Nat
        BY SizesOK
      <4> QED BY <2>1, <2>2, <4>1, <4>2, PutKeepsTime DEF OnTime
    <3>2. CASE ~ (r[t] > 0)
      <4>1. y = x
        BY <2>1, <3>2 DEF CallNode
      <4> QED BY <2>1, <4>1
    <3> QED BY <3>1, <3>2
  <2> QED BY <2>1, <2>4 DEF y
<1> HIDE DEF S
<1>5. \A k \in 0 .. N : u[k] \in S
  BY ONLY <1>1, <1>3, <1>4, Kept
<1>6. u[N] \in S
  BY <1>1, <1>5
<1> QED BY <1>2, <1>6 DEF S

\* What is in z is in s.
Within(z, s) == \A n \in 1 .. Len(z) : \E m \in 1 .. Len(s) : z[n] = s[m]

\* What is left of a list when one is taken out.
LEMMA LeftOver ==
  ASSUME NEW T, NEW s \in Seq(T), NEW t
  PROVE  Within(RemoveFirst(s, t), s)
<1> DEFINE I == {i \in 1 .. Len(s) : s[i] = t}
           i == Min(I)
           a == SubSeq(s, 1, i - 1)
           b == SubSeq(s, i + 1, Len(s))
<1>1. CASE I = {}
  <2>1. RemoveFirst(s, t) = s
    BY <1>1 DEF RemoveFirst
  <2> QED BY <2>1 DEF Within
<1>2. CASE I # {}
  <2>1. I \in SUBSET Nat
    OBVIOUS
  <2>2. i \in I
    <3>1. \E x \in I : \A y \in I : x <= y
      BY <1>2, <2>1, Least
    <3>2. i = CHOOSE x \in I : \A y \in I : x =< y
      BY DEF Min
    <3> HIDE DEF I, i
    <3> QED BY <3>1, <3>2
  <2>3. \E n \in 1 .. Len(s) : s[n] = t
    BY <1>2
  <2>4. SelectInSeq(s, LAMBDA v : v = t) = i
    BY <1>2 DEF SelectInSeq
  <2>5. RemoveFirst(s, t) = a \o b
    BY <2>3, <2>4 DEF RemoveFirst, RemoveAt
  <2>6. i \in 1 .. Len(s) /\ Len(s) \in Nat
    BY <2>2
  <2> HIDE DEF i
  <2>7. a \in Seq(T) /\ Len(a) = i - 1 /\ \A n \in 1 .. i - 1 : a[n] = s[n]
    BY <2>6
  <2>8. b \in Seq(T) /\ Len(b) = Len(s) - i /\ \A n \in 1 .. Len(s) - i : b[n] = s[n + i]
    BY <2>6
  <2> HIDE DEF a, b, I
  <2>9. Len(a \o b) = Len(s) - 1
    <3>1. Len(a \o b) = Len(a) + Len(b)
      BY <2>7, <2>8, ConcatProperties
    <3> QED BY <2>6, <2>7, <2>8, <3>1
  <2>10. ASSUME NEW n \in 1 .. Len(s) - 1 PROVE \E m \in 1 .. Len(s) : (a \o b)[n] = s[m]
    <3>1. CASE n < i
      <4>1. (a \o b)[n] = s[n] /\ n \in 1 .. Len(s)
        BY <2>6, <2>7, <2>8, <3>1
      <4> QED BY <4>1
    <3>2. CASE ~ (n < i)
      <4>1. n - (i - 1) \in 1 .. Len(s) - i /\ (n - (i - 1)) + i = n + 1 /\ ~ (n <= i - 1)
        BY <2>6, <3>2
      <4>2. (a \o b)[n] = b[n - (i - 1)]
        BY <2>6, <2>7, <2>8, <4>1
      <4>3. (a \o b)[n] = s[n + 1] /\ n + 1 \in 1 .. Len(s)
        BY <2>6, <2>8, <4>1, <4>2
      <4> QED BY <4>3
    <3> QED BY <3>1, <3>2
  <2>11. Len(RemoveFirst(s, t)) = Len(s) - 1
    BY <2>5, <2>9
  <2> QED BY <2>5, <2>10, <2>11 DEF Within
<1> QED BY <1>1, <1>2

-----------------------------------------------------------------------------
(* The operations keep it                                                  *)

\* The slot of a timer that is called once is passed before the timer is a tick late.
Timely == OnTime(w, left + Tick - now)

\* No timer is armed at the beginning.
LEMMA TimelyInit == WheelInit => Timely
<1> SUFFICES ASSUME WheelInit,
                    NEW i \in Wheels, NEW k \in 0 .. Size[i] - 1, NEW n \in 1 .. Len(w.slot[i][k])
             PROVE  FALSE
  BY DEF Timely, OnTime, InTime
<1>1. w.slot[i][k] = <<>>
  BY DEF WheelInit
<1>2. Len(w.slot[i][k]) = 0
  BY <1>1
<1> QED BY <1>2

\* AddTimer rounds up.
LEMMA TimelyAdd ==
  ASSUME TimersInv, Timely, NEW t \in Timers, NEW d \in Delays, NEW s \in Skews, AddTimer(t, d, s)
  PROVE  Timely'
<1> DEFINE b == left + Tick - now
<1>1. d \in 0 .. Word - 1 /\ d \in Nat /\ s \in Nat /\ Tick \in Nat
  BY DelayAssumption, TickAssumption
<1>2. /\ w \in WheelStates /\ Holds(w, armed) /\ WhenType
      /\ now \in Nat /\ left \in Nat /\ t \notin armed
  BY TickAssumption DEF TimersInv, TimerType, Holds, AddTimer
<1>3. b \in Int /\ OnTime(w, b) /\ b' = b
  BY <1>1, <1>2 DEF Timely, AddTimer
<1>4. w' = Put(w, t, d) /\ when' = [when EXCEPT ![t] = now + s + d]
  BY DEF AddTimer
<1> DEFINE n == d \div Tick
           i == WheelFor(n)
           k == SlotOf(w, i, n)
           x == w.idx
<1>5. /\ i \in Wheels /\ k \in 0 .. Size[i] - 1
      /\ w'.idx = x
      /\ SlotNow(w', w, i, k, Append(w.slot[i][k], t))
  BY <1>1, <1>2, <1>4, PutOK
<1>6. Eta(x, i, k) * Tick <= d + Tick
  BY <1>1, <1>2, PutInTime
<1>7. /\ x \in Positions
      /\ \A g \in Wheels : \A l \in 0 .. Size[g] - 1 : w.slot[g][l] \in Seq(Timers)
  BY <1>2 DEF WheelStates, Positions
<1>8. Eta(x, i, k) * Tick \in Int
  <2>1. Eta(x, i, k) \in Int
    BY <1>5, <1>7, EtaOK
  <2> QED BY <1>1, <2>1
<1>9. \A g : Late(g, 0, 0) = 0
  BY DEF Late
\* The timer that is added was in no slot.
<1>10. ASSUME NEW g \in Wheels, NEW l \in 0 .. Size[g] - 1, NEW m \in 1 .. Len(w.slot[g][l])
       PROVE  w.slot[g][l][m] \in armed
  <2>1. <<g, l>> \in Spots /\ Lists(w)[<<g, l>>] = w.slot[g][l]
    BY <1>2, SpotOK, ListsOK
  <2> QED BY <1>2, <2>1 DEF Holds, Once
<1> HIDE DEF n, i, k, x
<1>11. ASSUME NEW g \in Wheels, NEW l \in 0 .. Size[g] - 1, NEW m \in 1 .. Len(w'.slot[g][l]),
              OneShot(w'.slot[g][l][m])
       PROVE  (Eta(x, g, l) - Late(g, 0, 0)) * Tick <= when'[w'.slot[g][l][m]] + b
  <2>1. Eta(x, g, l) - Late(g, 0, 0) = Eta(x, g, l)
    <3>1. Eta(x, g, l) \in Int
      BY <1>7, EtaOK
    <3> QED BY <1>9, <3>1
  <2>2. ASSUME NEW p \in 1 .. Len(w.slot[g][l]), w'.slot[g][l][m] = w.slot[g][l][p]
        PROVE  (Eta(x, g, l) - Late(g, 0, 0)) * Tick <= when'[w'.slot[g][l][m]] + b
    <3> DEFINE q == w.slot[g][l][p]
    <3>1. q \in Timers /\ q # t
      <4>1. w.slot[g][l] \in Seq(Timers)
        BY <1>7
      <4>2. q \in Timers
        BY <4>1
      <4> QED BY <1>2, <1>10, <4>2
    <3>2. when'[q] = when[q]
      BY <1>2, <1>4, <3>1 DEF WhenType
    <3>3. (Eta(x, g, l) - Late(g, 0, 0)) * Tick <= when[q] + b
      BY <1>3, <1>11, <2>2 DEF OnTime, InTime, x
    <3> QED BY <2>2, <3>2, <3>3
  <2>3. CASE ~ (g = i /\ l = k)
    <3>1. w'.slot[g][l] = w.slot[g][l]
      BY <1>5, <2>3 DEF SlotNow
    <3> QED BY <2>2, <3>1
  <2>4. CASE g = i /\ l = k
    <3> DEFINE sq == w.slot[i][k]
    <3>1. sq \in Seq(Timers) /\ w'.slot[g][l] = Append(sq, t) /\ w.slot[g][l] = sq
      BY <1>5, <1>7, <2>4 DEF SlotNow
    <3> HIDE DEF sq
    <3>2. m \in 1 .. Len(sq) + 1
      BY <3>1
    <3>3. CASE m = Len(sq) + 1
      <4>1. w'.slot[g][l][m] = t
        BY <3>1, <3>3
      <4>2. when'[t] = now + s + d
        BY <1>2, <1>4 DEF WhenType
      <4> DEFINE pt == Eta(x, i, k) * Tick
      <4>3. pt \in Int /\ pt <= d + Tick
        BY <1>6, <1>8
      <4> HIDE DEF pt
      <4>4. pt <= now + s + d + b
        BY <1>1, <1>2, <4>3
      <4> QED BY <2>1, <2>4, <4>1, <4>2, <4>4 DEF pt
    <3>4. CASE m # Len(sq) + 1
      <4>1. m \in 1 .. Len(sq)
        BY <3>1, <3>2, <3>4
      <4>2. w'.slot[g][l][m] = sq[m]
        BY <3>1, <4>1
      <4> QED BY <2>2, <3>1, <4>1, <4>2
    <3> QED BY <3>3, <3>4
  <2> QED BY <2>3, <2>4
<1>12. ASSUME NEW g \in Wheels, NEW l \in 0 .. Size[g] - 1, NEW m \in 1 .. Len(w'.slot[g][l]),
              OneShot(w'.slot[g][l][m])
       PROVE  (Eta(w'.idx, g, l) - Late(g, 0, 0)) * Tick <= when'[w'.slot[g][l][m]] + (left' + Tick - now')
  <2>1. b = left' + Tick - now' /\ x = w'.idx
    BY <1>5 DEF AddTimer
  <2> HIDE DEF b
  <2> QED BY <1>11, <1>12, <2>1
<1>13. OnTime(w, left + Tick - now)'
  BY <1>12 DEF OnTime, InTime, Late, Eta, Dist, TurnsIn
<1> QED BY <1>13 DEF Timely

\* Fewer timers are as much in time.
LEMMA TimelyDel ==
  ASSUME TimersInv, Timely, NEW t \in Timers, DelTimer(t)
  PROVE  Timely'
<1>1. w \in WheelStates
  BY DEF TimersInv, Holds
<1> DEFINE sl == [i \in Wheels |-> [k \in 0 .. Size[i] - 1 |-> RemoveFirst(w.slot[i][k], t)]]
<1>2. w' = [idx |-> w.idx, slot |-> sl, ready |-> w.ready]
  BY <1>1 DEF DelTimer, WheelStates
<1>3. w'.idx = w.idx /\ w'.slot = sl
  BY <1>2
<1>4. when' = when /\ now' = now /\ left' = left
  BY DEF DelTimer
<1>5. ASSUME NEW i \in Wheels, NEW k \in 0 .. Size[i] - 1, NEW n \in 1 .. Len(w'.slot[i][k]),
             OneShot(w'.slot[i][k][n])
      PROVE  (Eta(w.idx, i, k) - Late(i, 0, 0)) * Tick <= when[w'.slot[i][k][n]] + (left + Tick - now)
  <2>1. w'.slot[i][k] = RemoveFirst(w.slot[i][k], t)
    BY <1>3
  <2>2. w.slot[i][k] \in Seq(Timers)
    BY <1>1 DEF WheelStates
  <2> DEFINE s == w.slot[i][k]
             z == w'.slot[i][k]
  <2>3. \E m \in 1 .. Len(w.slot[i][k]) : w'.slot[i][k][n] = w.slot[i][k][m]
    <3>1. s \in Seq(Timers) /\ z = RemoveFirst(s, t) /\ n \in 1 .. Len(z)
      BY <2>1, <2>2
    <3> HIDE DEF s, z
    <3>2. Within(RemoveFirst(s, t), s)
      BY ONLY <3>1, LeftOver
    <3>3. \E m \in 1 .. Len(s) : z[n] = s[m]
      BY ONLY <3>1, <3>2 DEF Within
    <3> QED BY <3>3 DEF s, z
  <2> QED BY <1>5, <2>3 DEF Timely, OnTime, InTime
<1> HIDE DEF sl
<1>6. OnTime(w, left + Tick - now)'
  BY <1>3, <1>4, <1>5 DEF OnTime, InTime, Late, Eta, Dist, TurnsIn
<1> QED BY <1>6 DEF Timely

\* Refresh ticks as often as time has passed; what is put back is periodic.
LEMMA TimelyRefresh ==
  ASSUME TimersInv, Timely, NEW e \in Frames, NEW r \in Repeats, Refresh(e, r)
  PROVE  Timely'
<1> DEFINE n == (left + e) \div Tick
           v == Ticks(w, n, now')
           b == left' + Tick - now'
<1>1. /\ e \in Nat /\ now \in Nat /\ left \in 0 .. Tick - 1 /\ Tick \in Nat \ {0}
      /\ w \in WheelStates /\ Holds(w, armed) /\ WhenType
  BY DelayAssumption, TickAssumption DEF TimersInv, TimerType, Holds
<1>2. /\ n \in Nat /\ left' = (left + e) % Tick /\ left' \in Nat
      /\ left + e = n * Tick + left' /\ n * Tick \in Nat
  <2> DEFINE a == left + e
  <2>1. a \in Nat /\ left' = a % Tick
    BY <1>1 DEF Refresh
  <2> HIDE DEF a
  <2>2. a % Tick \in Nat /\ a \div Tick \in Nat /\ a = (a \div Tick) * Tick + (a % Tick)
    BY <1>1, <2>1
  <2> QED BY <1>1, <2>1, <2>2 DEF a
<1>3. now' = now + e /\ now' \in Nat
  BY <1>1 DEF Refresh
<1>4. b \in Int /\ Tick - now' <= b /\ b + n * Tick = left + Tick - now
  <2> DEFINE nt == n * Tick
  <2>1. nt \in Nat /\ left + e = nt + left'
    BY <1>2
  <2> HIDE DEF nt, n
  <2>2. b \in Int /\ Tick - now' <= b /\ b + nt = left + Tick - now
    BY <1>1, <1>2, <1>3, <2>1
  <2> QED BY <2>2 DEF nt
<1>5. OnTime(w, b + n * Tick)
  BY <1>4 DEF Timely
<1> HIDE DEF n, b
<1>6. OnTime(v, b)
  BY <1>1, <1>2, <1>3, <1>4, <1>5, TicksInTime
<1>7. Holds(v, armed)
  BY <1>1, <1>2, <1>3, TicksHolds
<1>8. w' = CallBack(v, r)
  BY DEF Refresh, n
<1> HIDE DEF v
<1>9. v \in WheelStates /\ v.ready \in Seq(Timers)
  BY <1>7, ReadyOnce DEF Holds
<1>10. w' \in WheelStates /\ OnTime(CallBack(v, r), b)
  BY <1>1, <1>4, <1>6, <1>8, <1>9, CallBackInTime
<1>11. \A t \in Timers : OneShot(t) => when'[t] = when[t]
  <2> TAKE t \in Timers
  <2> HAVE OneShot(t)
  <2>1. r[t] = 0
    BY DEF OneShot, Repeats
  <2>2. when'[t] = when[t] \/ when'[t] = when[t] + r[t]
    BY DEF Refresh
  <2>3. when[t] \in Int
    BY <1>1 DEF WhenType
  <2> QED BY <2>1, <2>2, <2>3
<1>12. ASSUME NEW i \in Wheels, NEW k \in 0 .. Size[i] - 1, NEW m \in 1 .. Len(w'.slot[i][k]),
              OneShot(w'.slot[i][k][m])
       PROVE  (Eta(w'.idx, i, k) - Late(i, 0, 0)) * Tick <= when'[w'.slot[i][k][m]] + b
  <2>1. w'.slot[i][k] \in Seq(Timers)
    BY <1>10 DEF WheelStates
  <2>2. w'.slot[i][k][m] \in Timers
    BY <2>1
  <2> QED BY <1>8, <1>10, <1>11, <1>12, <2>2 DEF OnTime, InTime
<1>13. OnTime(w, left + Tick - now)'
  BY <1>12 DEF OnTime, InTime, Late, Eta, Dist, TurnsIn, b
<1> QED BY <1>13 DEF Timely

\* Between the operations the slot of every timer that is called once is passed before the
\* timer is a tick late: adding rounds up, a cascade puts it no later, a turn brings it nearer.
THEOREM TimersTimely == WheelSpec => []Timely
<1>1. WheelInit => Timely
  BY TimelyInit
<1>2. TimersInv /\ Timely /\ [WheelNext]_wheelVars => Timely'
  <2> SUFFICES ASSUME TimersInv, Timely, [WheelNext]_wheelVars PROVE Timely'
    OBVIOUS
  <2>1. ASSUME NEW t \in Timers, NEW d \in Delays, NEW s \in Skews, AddTimer(t, d, s) PROVE Timely'
    BY <2>1, TimelyAdd
  <2>2. ASSUME NEW t \in Timers, DelTimer(t) PROVE Timely'
    BY <2>2, TimelyDel
  <2>3. ASSUME NEW e \in Frames, NEW r \in Repeats, Refresh(e, r) PROVE Timely'
    BY <2>3, TimelyRefresh
  <2>4. CASE UNCHANGED wheelVars
    <3>1. w' = w /\ when' = when /\ now' = now /\ left' = left
      BY <2>4 DEF wheelVars
    <3>2. ASSUME NEW i \in Wheels, NEW k \in 0 .. Size[i] - 1, NEW n \in 1 .. Len(w'.slot[i][k]),
                 OneShot(w'.slot[i][k][n])
          PROVE  (Eta(w'.idx, i, k) - Late(i, 0, 0)) * Tick <= when'[w'.slot[i][k][n]] + (left' + Tick - now')
      <4>1. n \in 1 .. Len(w.slot[i][k]) /\ OneShot(w.slot[i][k][n])
        BY <3>1, <3>2
      <4>2. (Eta(w.idx, i, k) - Late(i, 0, 0)) * Tick <= when[w.slot[i][k][n]] + (left + Tick - now)
        BY <4>1 DEF Timely, OnTime, InTime
      <4> QED BY <3>1, <4>2
    <3>3. OnTime(w, left + Tick - now)'
      BY <3>2 DEF OnTime, InTime, Late, Eta, Dist, TurnsIn
    <3> QED BY <3>3 DEF Timely
  <2> QED BY <2>1, <2>2, <2>3, <2>4 DEF WheelNext
<1> QED BY <1>1, <1>2, TimersInvariant, PTL DEF WheelSpec

\* A timer that is called once is never overdue by a tick after a Refresh.
THEOREM WheelNotOverdue == WheelSpec => []NotOverdue
<1>1. TimersInv /\ Timely => NotOverdue
  <2> SUFFICES ASSUME TimersInv, Timely, NEW t \in armed, OneShot(t) PROVE now < when[t] + Tick
    BY DEF NotOverdue
  <2> DEFINE L == Lists(w)
  <2>1. /\ w \in WheelStates /\ Once(Spots, L, armed) /\ w.ready = <<>>
        /\ now \in Nat /\ left \in 0 .. Tick - 1 /\ t \in Timers /\ WhenType
    BY DEF TimersInv, TimerType, Holds
  <2>2. PICK p \in Spots : \E n \in 1 .. Len(L[p]) : L[p][n] = t
    BY <2>1 DEF Once
  <2>3. PICK n \in 1 .. Len(L[p]) : L[p][n] = t
    BY <2>2
  <2>4. p # Ready
    BY <2>1, <2>3, ListsOK
  <2>5. PICK i \in Wheels : \E k \in 0 .. Size[i] - 1 : p = <<i, k>>
    BY <2>4, SpotOK
  <2>6. PICK k \in 0 .. Size[i] - 1 : p = <<i, k>>
    BY <2>5
  <2>7. L[p] = w.slot[i][k]
    BY <2>1, <2>6, ListsOK
  <2> HIDE DEF L
  <2>8. (Eta(w.idx, i, k) - Late(i, 0, 0)) * Tick <= when[t] + (left + Tick - now)
    BY <2>3, <2>7 DEF Timely, OnTime, InTime
  <2>9. Eta(w.idx, i, k) \in Nat \ {0} /\ Late(i, 0, 0) = 0
    <3>1. w.idx \in Positions
      BY <2>1 DEF WheelStates, Positions
    <3> QED BY <3>1, EtaOK DEF Late
  <2> DEFINE y == Eta(w.idx, i, k)
             z == when[t]
  <2>10. y \in Nat \ {0} /\ (y - 0) * Tick <= z + (left + Tick - now) /\ z \in Int /\ Tick \in Nat \ {0}
    BY <2>1, <2>8, <2>9, TickAssumption DEF WhenType
  <2> HIDE DEF y, z
  <2>11. Tick <= (y - 0) * Tick /\ (y - 0) * Tick \in Int
    BY <2>10
  <2> DEFINE yt == (y - 0) * Tick
  <2>12. yt \in Int /\ Tick <= yt /\ yt <= z + (left + Tick - now)
    BY <2>10, <2>11
  <2> HIDE DEF yt
  <2>13. now < z + Tick
    BY <2>1, <2>10, <2>12
  <2> QED BY <2>13 DEF z
<1> QED BY <1>1, TimersInvariant, TimersTimely, PTL

-----------------------------------------------------------------------------
(* Services                                                                *)

-----------------------------------------------------------------------------
(* The inductive invariant                                                 *)

\* What a list of a service may hold.
Stamped == [time : Int, obj : Objects]

SvTypes ==
  /\ kind \in {"patch", "list", "vec", "map"}
  /\ objs \in Seq(Stamped) /\ mapAdd \in Seq(Stamped)
  /\ runPos \in Nat /\ timeWait \in Int /\ runNum \in Int
  /\ bRun \in BOOLEAN /\ calling \in Objects \cup {NoObject}
  /\ setDel \subseteq Objects /\ registered \subseteq Objects /\ called \subseteq Objects
  /\ since \in [Objects -> SUBSET Objects]

\* An object has one entry.
OneEach(s) == \A i, j \in 1 .. Len(s) : s[i].obj = s[j].obj => i = j
Has(s, o) == \E i \in 1 .. Len(s) : s[i].obj = o

\* The function runs in rounds only.
InRound == calling # NoObject => bRun

(* Patch, list and vec: the objects in a ring                              *)

\* The cursor is on an entry, or behind the last one of a list.
CursorIn(s, p, k) ==
  /\ p <= Len(s)
  /\ k # "list" => p < Len(s) \/ p = 0

\* In turn i comes before j, when the cursor is before entry p + 1.
Sooner(p, i, j) == IF (i > p) = (j > p) THEN i < j ELSE i > p

\* Who was called since a registered object was has its next turn after it.
InTurn(s, p, S) ==
  \A i, j \in 1 .. Len(s) : s[j].obj \in S[s[i].obj] => Sooner(p, i, j)

RingOf(s, p, k, S, R) ==
  /\ OneEach(s)
  /\ \A o \in Objects : Has(s, o) <=> o \in R
  /\ CursorIn(s, p, k)
  /\ \A o \in Objects : S[o] \subseteq R
  /\ InTurn(s, p, S)

Ring == kind # "map" => RingOf(objs, runPos, kind, since, registered)

\* A patch has an object for the calls that are left.
Left == runNum > 0 => kind = "patch" /\ bRun /\ Len(objs) > 0

(* Map                                                                     *)

\* An object has one entry, in m_map or put aside; all entries are of objects that are
\* registered or to be dropped. Those in m_map have not been called in this round, but
\* for the first while the function runs.
Mapped ==
  kind = "map" =>
    /\ OneEach(objs) /\ OneEach(mapAdd)
    /\ \A o \in Objects :
         /\ Has(objs, o) => ~Has(mapAdd, o)
         /\ Has(objs, o) \/ Has(mapAdd, o) => o \in registered \cup setDel
         /\ o \in registered => o \notin setDel /\ (Has(objs, o) \/ Has(mapAdd, o))
    /\ ~bRun => mapAdd = <<>>
    /\ calling # NoObject => objs # <<>> /\ objs[1].obj = calling
    /\ bRun => \A i \in 1 .. Len(objs) :
                 objs[i].obj \in called => i = 1 /\ calling # NoObject

SvInv == SvTypes /\ InRound /\ Ring /\ Left /\ Mapped

-----------------------------------------------------------------------------
(* Lemmas about the operators                                              *)

\* The entries at K have the ranks 1 .. Cardinality(K), each one.
LEMMA RankOnce ==
  ASSUME NEW s \in Seq(Stamped), NEW K \in SUBSET (1 .. Len(s))
  PROVE  /\ IsFiniteSet(K) /\ Cardinality(K) \in Nat
         /\ \A j \in K : Rank(s, K, j) \in 1 .. Cardinality(K)
         /\ \A i, j \in K : Rank(s, K, i) = Rank(s, K, j) => i = j
         /\ \A k \in 1 .. Cardinality(K) : \E j \in K : Rank(s, K, j) = k
<1> DEFINE n == Cardinality(K)
           Upto(j) == {i \in K : NotAfter(s, i, j)}
           f == [j \in K |-> Rank(s, K, j)]
<1>1. IsFiniteSet(K) /\ n \in Nat
  <2>1. IsFiniteSet(1 .. Len(s))  BY FS_Interval
  <2>2. IsFiniteSet(K)  BY <2>1, FS_Subset
  <2> QED  BY <2>2, FS_CardinalityType
<1>2. \A j \in K : s[j].time \in Int /\ j \in Int
  <2>1. \A j \in K : s[j] \in Stamped  OBVIOUS
  <2>2. \A j \in K : j \in Int  OBVIOUS
  <2> QED  BY <2>1, <2>2 DEF Stamped
<1>3. \A j \in K : /\ IsFiniteSet(Upto(j)) /\ Cardinality(Upto(j)) \in Nat
                   /\ Cardinality(Upto(j)) <= n /\ j \in Upto(j)
  <2> SUFFICES ASSUME NEW j \in K
               PROVE  /\ IsFiniteSet(Upto(j)) /\ Cardinality(Upto(j)) \in Nat
                      /\ Cardinality(Upto(j)) <= n /\ j \in Upto(j)
    OBVIOUS
  <2>1. Upto(j) \in SUBSET K  OBVIOUS
  <2>2. IsFiniteSet(Upto(j)) /\ Cardinality(Upto(j)) <= n  BY <2>1, <1>1, FS_Subset
  <2>3. j \in Upto(j)  BY <1>2 DEF NotAfter
  <2> QED  BY <2>2, <2>3, FS_CardinalityType
<1>4. \A j \in K : Cardinality(Upto(j)) \in 1 .. n
  <2> SUFFICES ASSUME NEW j \in K  PROVE  Cardinality(Upto(j)) \in 1 .. n
    OBVIOUS
  <2>1. Upto(j) # {} /\ IsFiniteSet(Upto(j))  BY <1>3
  <2> HIDE DEF Upto
  <2>2. Cardinality(Upto(j)) # 0  BY <2>1, FS_EmptySet
  <2>3. Cardinality(Upto(j)) \in Nat /\ Cardinality(Upto(j)) <= n  BY <1>3
  <2> HIDE DEF n
  <2> QED  BY <1>1, <2>2, <2>3
<1>5. \A i, j \in K : Cardinality(Upto(i)) = Cardinality(Upto(j)) /\ NotAfter(s, i, j) => i = j
  <2> SUFFICES ASSUME NEW i \in K, NEW j \in K, NotAfter(s, i, j),
                      Cardinality(Upto(i)) = Cardinality(Upto(j))
               PROVE  i = j
    OBVIOUS
  <2>1. Upto(i) \in SUBSET Upto(j)
    <3> SUFFICES ASSUME NEW k \in K, NotAfter(s, k, i)  PROVE  NotAfter(s, k, j)
      OBVIOUS
    <3> QED  BY <1>2 DEF NotAfter
  <2>2. Upto(i) = Upto(j)  BY <2>1, <1>3, FS_Subset
  <2>3. NotAfter(s, j, i)  BY <2>2, <1>3
  <2> QED  BY <2>3, <1>2 DEF NotAfter
<1>6. \A i, j \in K : Cardinality(Upto(i)) = Cardinality(Upto(j)) => i = j
  <2>1. \A i, j \in K : NotAfter(s, i, j) \/ NotAfter(s, j, i)  BY <1>2 DEF NotAfter
  <2> QED  BY <2>1, <1>5
<1>7. \A j \in K : f[j] = Rank(s, K, j) /\ Rank(s, K, j) = Cardinality(Upto(j))  BY DEF Rank
<1>8. f \in Injection(K, 1 .. n)
  <2>1. \A j \in K : Rank(s, K, j) \in 1 .. n  BY <1>4, <1>7
  <2>2. f \in [K -> 1 .. n]  BY <2>1
  <2>3. \A i, j \in K : f[i] = f[j] => i = j  BY <1>6, <1>7
  <2> HIDE DEF f, n
  <2> QED  BY <2>2, <2>3 DEF Injection, IsInjective
<1>9. f \in Surjection(K, 1 .. n)
  <2>1. IsFiniteSet(1 .. n) /\ Cardinality(1 .. n) = n  BY <1>1, FS_Interval
  <2> HIDE DEF f
  <2> QED  BY <1>8, <2>1, FS_Injection
<1>10. \A k \in 1 .. n : \E j \in K : f[j] = k
  BY <1>9 DEF Surjection
<1>11. \A j \in K : Rank(s, K, j) \in 1 .. n  BY <1>4, <1>7
<1>12. \A i, j \in K : Rank(s, K, i) = Rank(s, K, j) => i = j  BY <1>6, <1>7
<1>13. \A k \in 1 .. n : \E j \in K : Rank(s, K, j) = k  BY <1>10, <1>7
<1> QED  BY <1>1, <1>11, <1>12, <1>13

\* ByTime has the entries at K and no others, each once.
LEMMA ByTimeHas ==
  ASSUME NEW s \in Seq(Stamped), NEW K \in SUBSET (1 .. Len(s)),
         \A i, j \in K : s[i].obj = s[j].obj => i = j
  PROVE  /\ ByTime(s, K) \in Seq(Stamped)
         /\ OneEach(ByTime(s, K))
         /\ \A o : Has(ByTime(s, K), o) <=> \E j \in K : s[j].obj = o
<1> DEFINE n == Cardinality(K)
           At(k) == CHOOSE j \in K : Rank(s, K, j) = k
           r == ByTime(s, K)
<1>1. n \in Nat  BY RankOnce
<1>2. \A k \in 1 .. n : At(k) \in K /\ Rank(s, K, At(k)) = k  BY RankOnce
<1>3. \A j \in K : Rank(s, K, j) \in 1 .. n /\ At(Rank(s, K, j)) = j
  <2> SUFFICES ASSUME NEW j \in K
               PROVE  Rank(s, K, j) \in 1 .. n /\ At(Rank(s, K, j)) = j
    OBVIOUS
  <2>1. Rank(s, K, j) \in 1 .. n  BY RankOnce
  <2>2. At(Rank(s, K, j)) \in K /\ Rank(s, K, At(Rank(s, K, j))) = Rank(s, K, j)
    BY <2>1, <1>2
  <2> QED  BY <2>1, <2>2, RankOnce
<1>4. r = [k \in 1 .. n |-> s[At(k)]]  BY DEF ByTime
<1> HIDE DEF At, r, n
<1>5. \A k \in 1 .. n : s[At(k)] \in Stamped
  <2>1. \A j \in K : s[j] \in Stamped  OBVIOUS
  <2> QED  BY <2>1, <1>2
<1>6. r \in Seq(Stamped) /\ Len(r) = n /\ \A k \in 1 .. n : r[k] = s[At(k)]
  BY <1>1, <1>4, <1>5
<1>7. OneEach(r)
  <2> SUFFICES ASSUME NEW k \in 1 .. n, NEW l \in 1 .. n, r[k].obj = r[l].obj
               PROVE  k = l
    BY <1>6 DEF OneEach
  <2>1. s[At(k)].obj = s[At(l)].obj  BY <1>6
  <2>2. At(k) \in K /\ At(l) \in K  BY <1>2
  <2>3. At(k) = At(l)  BY <2>1, <2>2
  <2> QED  BY <2>3, <1>2
<1>8. \A o : Has(r, o) <=> \E j \in K : s[j].obj = o
  <2> TAKE o
  <2>1. ASSUME Has(r, o)  PROVE  \E j \in K : s[j].obj = o
    <3>1. PICK k \in 1 .. n : r[k].obj = o  BY <2>1, <1>6 DEF Has
    <3> QED  BY <3>1, <1>2, <1>6
  <2>2. ASSUME NEW j \in K, s[j].obj = o  PROVE  Has(r, o)
    <3>1. Rank(s, K, j) \in 1 .. n /\ r[Rank(s, K, j)] = s[j]  BY <1>3, <1>6
    <3> QED  BY <2>2, <3>1, <1>6 DEF Has
  <2> QED  BY <2>1, <2>2
<1> QED  BY <1>6, <1>7, <1>8 DEF r

LEMMA MergedHas ==
  ASSUME NEW s \in Seq(Stamped), NEW t \in Seq(Stamped), OneEach(s), OneEach(t),
         \A o \in Objects : Has(s, o) => ~Has(t, o)
  PROVE  /\ Merged(s, t) \in Seq(Stamped)
         /\ OneEach(Merged(s, t))
         /\ \A o : Has(Merged(s, t), o) <=> Has(s, o) \/ Has(t, o)
<1> DEFINE c == s \o t
           K == 1 .. Len(s) + Len(t)
<1>1. c \in Seq(Stamped) /\ Len(c) = Len(s) + Len(t)  OBVIOUS
<1>2. \A i \in 1 .. Len(s) : c[i] = s[i] /\ i \in K  OBVIOUS
<1>3. \A i \in 1 .. Len(t) : c[Len(s) + i] = t[i] /\ Len(s) + i \in K  OBVIOUS
<1>4. \A i \in K : \/ i \in 1 .. Len(s)
                   \/ i - Len(s) \in 1 .. Len(t) /\ c[i] = t[i - Len(s)]
  OBVIOUS
<1>5. \A i \in 1 .. Len(s), j \in 1 .. Len(t) : s[i].obj # t[j].obj
  <2> SUFFICES ASSUME NEW i \in 1 .. Len(s), NEW j \in 1 .. Len(t), s[i].obj = t[j].obj
               PROVE  FALSE
    OBVIOUS
  <2>1. s[i] \in Stamped  OBVIOUS
  <2>2. s[i].obj \in Objects  BY <2>1 DEF Stamped
  <2> QED  BY <2>2 DEF Has
<1>6. K \in SUBSET (1 .. Len(c))  BY <1>1
<1>7. \A i \in K : i \in Int  OBVIOUS
<1>8. Merged(s, t) = ByTime(c, K)  BY DEF Merged
<1> HIDE DEF c, K
<1>9. \A i, j \in K : c[i].obj = c[j].obj => i = j
  <2> SUFFICES ASSUME NEW i \in K, NEW j \in K, c[i].obj = c[j].obj
               PROVE  i = j
    OBVIOUS
  <2>1. CASE i \in 1 .. Len(s) /\ j \in 1 .. Len(s)  BY <2>1, <1>2 DEF OneEach
  <2>2. CASE i \in 1 .. Len(s) /\ j \notin 1 .. Len(s)
    BY <2>2, <1>2, <1>4, <1>5
  <2>3. CASE i \notin 1 .. Len(s) /\ j \in 1 .. Len(s)
    BY <2>3, <1>2, <1>4, <1>5
  <2>4. CASE i \notin 1 .. Len(s) /\ j \notin 1 .. Len(s)
    <3>1. i - Len(s) = j - Len(s)  BY <2>4, <1>4 DEF OneEach
    <3> QED  BY <3>1, <1>7
  <2> QED  BY <2>1, <2>2, <2>3, <2>4
<1>10. \A o : (\E j \in K : c[j].obj = o) <=> Has(s, o) \/ Has(t, o)
  <2> TAKE o
  <2>1. ASSUME NEW j \in K, c[j].obj = o  PROVE  Has(s, o) \/ Has(t, o)
    <3>1. CASE j \in 1 .. Len(s)  BY <3>1, <2>1, <1>2 DEF Has
    <3>2. CASE j \notin 1 .. Len(s)  BY <3>2, <2>1, <1>4 DEF Has
    <3> QED  BY <3>1, <3>2
  <2>2. ASSUME Has(s, o)  PROVE  \E j \in K : c[j].obj = o
    BY <2>2, <1>2 DEF Has
  <2>3. ASSUME Has(t, o)  PROVE  \E j \in K : c[j].obj = o
    BY <2>3, <1>3 DEF Has
  <2> QED  BY <2>1, <2>2, <2>3
<1> QED  BY <1>1, <1>6, <1>8, <1>9, <1>10, ByTimeHas

LEMMA InsertHas ==
  ASSUME NEW s \in Seq(Stamped), NEW e \in Stamped, OneEach(s), ~Has(s, e.obj)
  PROVE  /\ Insert(s, e) \in Seq(Stamped)
         /\ OneEach(Insert(s, e))
         /\ \A o : Has(Insert(s, e), o) <=> Has(s, o) \/ o = e.obj
<1>1. <<e>> \in Seq(Stamped) /\ Len(<<e>>) = 1 /\ <<e>>[1] = e  OBVIOUS
<1>2. \A o : Has(<<e>>, o) <=> o = e.obj  BY <1>1 DEF Has
<1>3. OneEach(<<e>>)  BY <1>1 DEF OneEach
<1>4. \A o \in Objects : Has(s, o) => ~Has(<<e>>, o)  BY <1>2
<1> DEFINE r == Merged(s, <<e>>)
<1>5. /\ r \in Seq(Stamped) /\ OneEach(r)
      /\ \A o : Has(r, o) <=> Has(s, o) \/ Has(<<e>>, o)
  BY <1>1, <1>3, <1>4, MergedHas
<1>6. Insert(s, e) = r  BY DEF Insert
<1> HIDE DEF r
<1> QED  BY <1>2, <1>5, <1>6

LEMMA DroppedHas ==
  ASSUME NEW s \in Seq(Stamped), NEW D, OneEach(s)
  PROVE  /\ Dropped(s, D) \in Seq(Stamped)
         /\ OneEach(Dropped(s, D))
         /\ \A o : Has(Dropped(s, D), o) <=> Has(s, o) /\ o \notin D
<1> DEFINE K == {i \in 1 .. Len(s) :
                   s[i].obj \in D => \E j \in 1 .. i - 1 : s[j].obj = s[i].obj}
<1>1. K = {i \in 1 .. Len(s) : s[i].obj \notin D}
  <2>1. \A i \in 1 .. Len(s) : \A j \in 1 .. i - 1 : s[j].obj # s[i].obj  BY DEF OneEach
  <2> QED  BY <2>1
<1>2. Dropped(s, D) = ByTime(s, K)  BY DEF Dropped
<1> HIDE DEF K
<1>3. \A i, j \in K : s[i].obj = s[j].obj => i = j  BY <1>1 DEF OneEach
<1>4. K \in SUBSET (1 .. Len(s))  BY <1>1
<1>5. \A o : (\E j \in K : s[j].obj = o) <=> Has(s, o) /\ o \notin D  BY <1>1 DEF Has
<1> QED  BY <1>2, <1>3, <1>4, <1>5, ByTimeHas

\* Two lists of the same objects.
SameObjs(s, t) == Len(t) = Len(s) /\ \A i \in 1 .. Len(s) : t[i].obj = s[i].obj

LEMMA LaterSame ==
  ASSUME ServicesAssumption, NEW s \in Seq(Stamped), NEW e \in Int
  PROVE  Later(s, e) \in Seq(Stamped) /\ SameObjs(s, Later(s, e))
<1> DEFINE t(i) == IF s[i].time - e < -MaxLate THEN -MaxLate ELSE s[i].time - e
           r == [i \in 1 .. Len(s) |-> [s[i] EXCEPT !.time = t(i)]]
<1>1. \A i \in 1 .. Len(s) : s[i] \in Stamped  OBVIOUS
<1>2. Later(s, e) = r  BY DEF Later
<1>3. \A i \in 1 .. Len(s) :
        /\ [s[i] EXCEPT !.time = t(i)] \in Stamped
        /\ [s[i] EXCEPT !.time = t(i)].obj = s[i].obj
  <2>1. \A i \in 1 .. Len(s) : t(i) \in Int  BY <1>1 DEF Stamped, ServicesAssumption
  <2> HIDE DEF t
  <2> QED  BY <1>1, <2>1 DEF Stamped
<1>4. Len(s) \in Nat  OBVIOUS
<1> HIDE DEF t
<1> DEFINE u(i) == [s[i] EXCEPT !.time = t(i)]
<1>5. r = [i \in 1 .. Len(s) |-> u(i)]  OBVIOUS
<1>6. \A i \in 1 .. Len(s) : u(i) \in Stamped /\ u(i).obj = s[i].obj  BY <1>3
<1> HIDE DEF u, r
<1>7. r \in Seq(Stamped) /\ Len(r) = Len(s) /\ \A i \in 1 .. Len(s) : r[i] = u(i)
  BY <1>4, <1>5, <1>6
<1> QED  BY <1>2, <1>6, <1>7 DEF SameObjs

LEMMA SameHas ==
  ASSUME NEW s \in Seq(Stamped), NEW t \in Seq(Stamped), SameObjs(s, t)
  PROVE  /\ OneEach(s) => OneEach(t)
         /\ \A o : Has(t, o) <=> Has(s, o)
         /\ \A p \in Nat : \A S : InTurn(s, p, S) => InTurn(t, p, S)
         /\ \A p \in Nat : \A k : CursorIn(s, p, k) => CursorIn(t, p, k)
BY DEF SameObjs, OneEach, Has, InTurn, CursorIn

\* An object without its first entry.
LEMMA TailHas ==
  ASSUME NEW s \in Seq(Stamped), s # <<>>, OneEach(s)
  PROVE  /\ Tail(s) \in Seq(Stamped) /\ OneEach(Tail(s))
         /\ \A o : Has(Tail(s), o) <=> Has(s, o) /\ o # s[1].obj
         /\ Len(Tail(s)) = Len(s) - 1
         /\ \A i \in 1 .. Len(s) - 1 : Tail(s)[i] = s[i + 1]
<1>1. /\ Tail(s) \in Seq(Stamped) /\ Len(Tail(s)) = Len(s) - 1
      /\ \A i \in 1 .. Len(s) - 1 : Tail(s)[i] = s[i + 1]
      /\ Len(s) \in Nat \ {0}
  OBVIOUS
<1>2. OneEach(Tail(s))  BY <1>1 DEF OneEach
<1>3. \A o : Has(Tail(s), o) <=> Has(s, o) /\ o # s[1].obj
  <2> TAKE o
  <2>1. ASSUME Has(Tail(s), o)  PROVE Has(s, o) /\ o # s[1].obj
    <3>1. PICK i \in 1 .. Len(s) - 1 : Tail(s)[i].obj = o  BY <2>1, <1>1 DEF Has
    <3>2. s[i + 1].obj = o /\ i + 1 \in 1 .. Len(s) /\ i + 1 # 1  BY <3>1, <1>1
    <3> QED  BY <3>2, <1>1 DEF Has, OneEach
  <2>2. ASSUME Has(s, o), o # s[1].obj  PROVE Has(Tail(s), o)
    <3>1. PICK i \in 1 .. Len(s) : s[i].obj = o  BY <2>2 DEF Has
    <3>2. i - 1 \in 1 .. Len(s) - 1 /\ Tail(s)[i - 1] = s[i]  BY <3>1, <2>2, <1>1
    <3> QED  BY <3>1, <3>2, <1>1 DEF Has
  <2> QED  BY <2>1, <2>2
<1> QED  BY <1>1, <1>2, <1>3

LEMMA WithoutAt ==
  ASSUME NEW s \in Seq(Stamped), NEW p \in 1 .. Len(s)
  PROVE  /\ Without(s, p) \in Seq(Stamped) /\ Len(Without(s, p)) = Len(s) - 1
         /\ \A i \in 1 .. Len(s) - 1 : Without(s, p)[i] = IF i < p THEN s[i] ELSE s[i + 1]
<1>1. Without(s, p) = SubSeq(s, 1, p - 1) \o SubSeq(s, p + 1, Len(s))
  BY DEF Without, RemoveAt
<1>2. /\ SubSeq(s, 1, p - 1) \in Seq(Stamped) /\ Len(SubSeq(s, 1, p - 1)) = p - 1
      /\ \A i \in 1 .. p - 1 : SubSeq(s, 1, p - 1)[i] = s[i]
  OBVIOUS
<1>3. /\ SubSeq(s, p + 1, Len(s)) \in Seq(Stamped)
      /\ Len(SubSeq(s, p + 1, Len(s))) = Len(s) - p
      /\ \A i \in 1 .. Len(s) - p : SubSeq(s, p + 1, Len(s))[i] = s[p + i]
  OBVIOUS
<1> DEFINE u == SubSeq(s, 1, p - 1)
           v == SubSeq(s, p + 1, Len(s))
<1>4. Len(s) \in Nat /\ p \in 1 .. Len(s)  OBVIOUS
<1>5. /\ u \in Seq(Stamped) /\ Len(u) = p - 1
      /\ v \in Seq(Stamped) /\ Len(v) = Len(s) - p
  BY <1>2, <1>3
<1>6. /\ \A i \in 1 .. p - 1 : u[i] = s[i]
      /\ \A i \in 1 .. Len(s) - p : v[i] = s[p + i]
  BY <1>2, <1>3
<1>7. Without(s, p) = u \o v  BY <1>1
<1> HIDE DEF u, v
<1>8. /\ u \o v \in Seq(Stamped) /\ Len(u \o v) = Len(s) - 1
      /\ \A i \in 1 .. Len(s) - 1 : (u \o v)[i] = IF i < p THEN u[i] ELSE v[i - p + 1]
  BY <1>4, <1>5
<1>9. \A i \in 1 .. Len(s) - 1 : (u \o v)[i] = IF i < p THEN s[i] ELSE s[i + 1]
  <2> SUFFICES ASSUME NEW i \in 1 .. Len(s) - 1
               PROVE  (u \o v)[i] = IF i < p THEN s[i] ELSE s[i + 1]
    OBVIOUS
  <2>1. CASE i < p
    <3>1. i \in 1 .. p - 1  BY <2>1, <1>4
    <3> QED  BY <2>1, <3>1, <1>6, <1>8
  <2>2. CASE ~(i < p)
    <3>1. i - p + 1 \in 1 .. Len(s) - p /\ p + (i - p + 1) = i + 1  BY <2>2, <1>4
    <3> QED  BY <2>2, <3>1, <1>6, <1>8
  <2> QED  BY <2>1, <2>2
<1> QED  BY <1>7, <1>8, <1>9

-----------------------------------------------------------------------------
(* The ring                                                                *)

LEMMA RingSame ==
  ASSUME NEW s \in Seq(Stamped), NEW t \in Seq(Stamped), SameObjs(s, t),
         NEW p \in Nat, NEW k, NEW S, NEW R, RingOf(s, p, k, S, R)
  PROVE  RingOf(t, p, k, S, R)
BY SameHas DEF RingOf

LEMMA RingObjects ==
  ASSUME NEW s \in Seq(Stamped), NEW p, NEW k, NEW S, NEW R, RingOf(s, p, k, S, R)
  PROVE  \A i \in 1 .. Len(s) : s[i] \in Stamped /\ s[i].obj \in Objects /\ s[i].obj \in R
<1>1. \A i \in 1 .. Len(s) : s[i] \in Stamped  OBVIOUS
<1>2. \A i \in 1 .. Len(s) : s[i].obj \in Objects  BY <1>1 DEF Stamped
<1> QED  BY <1>1, <1>2 DEF RingOf, Has

LEMMA RingAppend ==
  ASSUME NEW s \in Seq(Stamped), NEW e \in Stamped, NEW p \in Nat, NEW k,
         NEW S \in [Objects -> SUBSET Objects], NEW R \in SUBSET Objects,
         RingOf(s, p, k, S, R), e.obj \notin R
  PROVE  RingOf(Append(s, e), IF k = "list" /\ p = Len(s) THEN 0 ELSE p, k,
                [S EXCEPT ![e.obj] = {}], R \cup {e.obj})
<1> DEFINE t == Append(s, e)
           n == Len(s)
           q == IF k = "list" /\ p = n THEN 0 ELSE p
           o == e.obj
           T == [S EXCEPT ![o] = {}]
<1>1. /\ t \in Seq(Stamped) /\ Len(t) = n + 1 /\ n \in Nat
      /\ t[n + 1] = e /\ \A i \in 1 .. n : t[i] = s[i]
  OBVIOUS
<1>2. o \in Objects  BY DEF Stamped
<1>3. \A i \in 1 .. n : s[i].obj \in R /\ s[i].obj \in Objects  BY RingObjects
<1>4. \A b \in Objects : T[b] = IF b = o THEN {} ELSE S[b]  BY <1>2
<1> HIDE DEF t, n, T
<1>5. OneEach(t)
  <2> SUFFICES ASSUME NEW i \in 1 .. n + 1, NEW j \in 1 .. n + 1, t[i].obj = t[j].obj
               PROVE  i = j
    BY <1>1 DEF OneEach
  <2>1. CASE i \in 1 .. n /\ j \in 1 .. n
    BY <2>1, <1>1 DEF OneEach, RingOf, n
  <2>2. CASE i \in 1 .. n /\ j = n + 1
    <3>1. t[i].obj \in R /\ t[j].obj = e.obj  BY <2>2, <1>1, <1>3
    <3> QED  BY <3>1
  <2>3. CASE i = n + 1 /\ j \in 1 .. n
    <3>1. t[j].obj \in R /\ t[i].obj = e.obj  BY <2>3, <1>1, <1>3
    <3> QED  BY <3>1
  <2> QED  BY <2>1, <2>2, <2>3, <1>1
<1>6. \A b \in Objects : Has(t, b) <=> b \in R \cup {o}
  <2> SUFFICES ASSUME NEW b \in Objects  PROVE  Has(t, b) <=> b \in R \cup {o}
    OBVIOUS
  <2>1. Has(s, b) <=> b \in R  BY DEF RingOf
  <2>2. ASSUME Has(t, b)  PROVE  b \in R \cup {o}
    <3>1. PICK i \in 1 .. n + 1 : t[i].obj = b  BY <2>2, <1>1 DEF Has
    <3>2. CASE i \in 1 .. n  BY <3>1, <3>2, <1>1, <1>3
    <3>3. CASE i = n + 1  BY <3>1, <3>3, <1>1
    <3> QED  BY <3>2, <3>3, <1>1
  <2>3. ASSUME b \in R  PROVE  Has(t, b)
    <3>1. PICK i \in 1 .. n : s[i].obj = b  BY <2>1, <2>3 DEF Has, n
    <3>2. i \in 1 .. Len(t) /\ t[i].obj = b  BY <3>1, <1>1
    <3> QED  BY <3>2 DEF Has
  <2>4. Has(t, o)
    <3>1. n + 1 \in 1 .. Len(t) /\ t[n + 1].obj = o  BY <1>1
    <3> QED  BY <3>1 DEF Has
  <2> QED  BY <2>2, <2>3, <2>4
<1>7. CursorIn(t, q, k)  BY <1>1 DEF RingOf, CursorIn, n
<1>8. \A b \in Objects : T[b] \subseteq R \cup {o}  BY <1>4 DEF RingOf
<1>9. InTurn(t, q, T)
  <2> SUFFICES ASSUME NEW i \in 1 .. n + 1, NEW j \in 1 .. n + 1, t[j].obj \in T[t[i].obj]
               PROVE  Sooner(q, i, j)
    BY <1>1 DEF InTurn
  <2>1. i # n + 1  BY <1>1, <1>2, <1>4
  <2>2. i \in 1 .. n  BY <2>1, <1>1
  <2>3. T[t[i].obj] = S[s[i].obj]  BY <2>2, <1>1, <1>3, <1>4
  <2>4. j # n + 1  BY <2>2, <2>3, <1>1, <1>3 DEF RingOf
  <2>5. j \in 1 .. n  BY <2>4, <1>1
  <2>6. Sooner(p, i, j)  BY <2>2, <2>3, <2>5, <1>1 DEF RingOf, InTurn, n
  <2> QED  BY <2>2, <2>5, <2>6, <1>1 DEF Sooner
<1> QED  BY <1>5, <1>6, <1>7, <1>8, <1>9 DEF RingOf, t, n, T

\* The cursor when entry x has been erased: Moved for any list.
MovedTo(s, p, k, x) ==
  IF x - 1 < p THEN p - 1
  ELSE IF k # "list" /\ p >= Len(s) - 1 THEN 0 ELSE p

LEMMA RingWithout ==
  ASSUME NEW s \in Seq(Stamped), NEW x \in 1 .. Len(s), NEW p \in Nat, NEW k,
         NEW S \in [Objects -> SUBSET Objects], NEW R \in SUBSET Objects,
         RingOf(s, p, k, S, R)
  PROVE  RingOf(Without(s, x), MovedTo(s, p, k, x), k,
                [b \in Objects |-> S[b] \ {s[x].obj}], R \ {s[x].obj})
<1> DEFINE t == Without(s, x)
           q == MovedTo(s, p, k, x)
           n == Len(s)
           o == s[x].obj
           T == [b \in Objects |-> S[b] \ {o}]
           up(i) == IF i < x THEN i ELSE i + 1
<1>1. /\ t \in Seq(Stamped) /\ Len(t) = n - 1
      /\ \A i \in 1 .. n - 1 : t[i] = IF i < x THEN s[i] ELSE s[i + 1]
  BY WithoutAt
<1>2. n \in Nat /\ x \in 1 .. n  OBVIOUS
<1>3. \A i \in 1 .. n - 1 : t[i] = s[up(i)]  BY <1>1
<1>4. \A i \in 1 .. n - 1 : up(i) \in 1 .. n /\ up(i) # x  BY <1>2
<1>5. \A i \in 1 .. n : s[i].obj \in R /\ s[i].obj \in Objects  BY RingObjects
<1>6. \A i, j \in 1 .. n : s[i].obj = s[j].obj => i = j  BY DEF RingOf, OneEach
<1>7. \A i, j \in 1 .. n - 1 : up(i) = up(j) => i = j  BY <1>2
<1>0. q = IF x - 1 < p THEN p - 1
          ELSE IF k # "list" /\ p >= Len(s) - 1 THEN 0 ELSE p
  BY DEF MovedTo
<1> HIDE DEF q
<1>8. q \in Nat /\ CursorIn(t, q, k)
  BY <1>0, <1>1, <1>2 DEF RingOf, CursorIn
<1> HIDE DEF t, o, T
<1>9. \A i, j \in 1 .. n - 1 : Sooner(p, up(i), up(j)) => Sooner(q, i, j)
  <2>1. p <= n /\ (k # "list" => p < n \/ p = 0)  BY DEF RingOf, CursorIn
  <2> HIDE DEF n
  <2> SUFFICES ASSUME NEW i \in 1 .. n - 1, NEW j \in 1 .. n - 1, Sooner(p, up(i), up(j))
               PROVE  Sooner(q, i, j)
    OBVIOUS
  <2>2. CASE x - 1 < p  BY <2>1, <2>2, <1>0, <1>2 DEF Sooner
  <2>3. CASE ~(x - 1 < p) /\ k # "list" /\ p >= n - 1
    BY <2>1, <2>3, <1>0, <1>2 DEF Sooner, n
  <2>4. CASE ~(x - 1 < p) /\ ~(k # "list" /\ p >= n - 1)
    BY <2>1, <2>4, <1>0, <1>2 DEF Sooner, n
  <2> QED  BY <2>2, <2>3, <2>4
<1> HIDE DEF n, up
<1>10. OneEach(t)
  <2> SUFFICES ASSUME NEW i \in 1 .. n - 1, NEW j \in 1 .. n - 1, t[i].obj = t[j].obj
               PROVE  i = j
    BY <1>1 DEF OneEach
  <2>1. s[up(i)].obj = s[up(j)].obj  BY <1>3
  <2>2. up(i) = up(j)  BY <2>1, <1>4, <1>6
  <2> QED  BY <2>2, <1>7
<1>11. \A b \in Objects : Has(t, b) <=> b \in R \ {o}
  <2> SUFFICES ASSUME NEW b \in Objects  PROVE  Has(t, b) <=> b \in R \ {o}
    OBVIOUS
  <2>1. Has(s, b) <=> b \in R  BY DEF RingOf
  <2>2. ASSUME Has(t, b)  PROVE  b \in R \ {o}
    <3>1. PICK i \in 1 .. n - 1 : t[i].obj = b  BY <2>2, <1>1 DEF Has
    <3>2. s[up(i)].obj = b /\ up(i) \in 1 .. n /\ up(i) # x  BY <3>1, <1>3, <1>4
    <3> QED  BY <3>2, <1>2, <1>5, <1>6 DEF o
  <2>3. ASSUME b \in R, b # o  PROVE  Has(t, b)
    <3>1. PICK i \in 1 .. n : s[i].obj = b  BY <2>1, <2>3 DEF Has, n
    <3>2. i # x  BY <3>1, <2>3 DEF o
    <3> DEFINE j == IF i < x THEN i ELSE i - 1
    <3>3. j \in 1 .. n - 1 /\ up(j) = i  BY <3>2, <1>2 DEF up
    <3>4. t[j].obj = b  BY <3>1, <3>3, <1>3
    <3> QED  BY <3>3, <3>4, <1>1 DEF Has
  <2> QED  BY <2>2, <2>3
<1>12. \A b \in Objects : T[b] \subseteq R \ {o}  BY DEF T, RingOf
<1>13. InTurn(t, q, T)
  <2> SUFFICES ASSUME NEW i \in 1 .. n - 1, NEW j \in 1 .. n - 1, t[j].obj \in T[t[i].obj]
               PROVE  Sooner(q, i, j)
    BY <1>1 DEF InTurn
  <2>1. s[up(j)].obj \in S[s[up(i)].obj]
    <3>1. t[i].obj \in Objects  BY <1>3, <1>4, <1>5
    <3>2. t[j].obj \in S[t[i].obj]  BY <3>1 DEF T
    <3> QED  BY <3>2, <1>3
  <2>2. Sooner(p, up(i), up(j))  BY <2>1, <1>4 DEF RingOf, InTurn, n
  <2> QED  BY <2>2, <1>9
<1> QED  BY <1>8, <1>10, <1>11, <1>12, <1>13 DEF RingOf, t, o, q, T

\* It is the turn of the object at the cursor, and of none that waits longer.
LEMMA RingCall ==
  ASSUME NEW s \in Seq(Stamped), NEW p \in Nat, NEW k,
         NEW S \in [Objects -> SUBSET Objects], NEW R \in SUBSET Objects,
         RingOf(s, p, k, S, R), p < Len(s)
  PROVE  /\ s[p + 1].obj \in R
         /\ \A b \in R \ {s[p + 1].obj} : s[p + 1].obj \notin S[b]
         /\ RingOf(s, (p + 1) % Len(s), k,
                   [b \in Objects |-> IF b = s[p + 1].obj THEN {} ELSE S[b] \cup {s[p + 1].obj}],
                   R)
<1> DEFINE n == Len(s)
           o == s[p + 1].obj
           q == (p + 1) % n
           T == [b \in Objects |-> IF b = o THEN {} ELSE S[b] \cup {o}]
<1>1. n \in Nat /\ p + 1 \in 1 .. n  OBVIOUS
<1>2. q = IF p + 1 = n THEN 0 ELSE p + 1
  <2>1. CASE p + 1 = n
    <3>1. n \in Nat \ {0} => n % n = 0  OBVIOUS
    <3> QED  BY <2>1, <3>1, <1>1
  <2>2. CASE p + 1 < n
    <3> HIDE DEF n
    <3>1. \A a, m \in Nat : a < m => a % m = a  OBVIOUS
    <3> QED  BY <2>2, <3>1, <1>1
  <2> QED  BY <2>1, <2>2, <1>1
<1>3. \A i \in 1 .. n : s[i].obj \in R /\ s[i].obj \in Objects  BY RingObjects
<1>4. \A i, j \in 1 .. n : s[i].obj = s[j].obj => i = j  BY DEF RingOf, OneEach
<1>5. \A i, j \in 1 .. n : s[j].obj \in S[s[i].obj] => Sooner(p, i, j)
  BY DEF RingOf, InTurn
<1>6. o \in R  BY <1>1, <1>3
<1>7. \A i \in 1 .. n : ~Sooner(p, i, p + 1)  BY <1>1 DEF Sooner
<1> HIDE DEF n, o, q, T
<1>8. ASSUME NEW b \in R, b # o  PROVE  o \notin S[b]
  <2>1. PICK i \in 1 .. n : s[i].obj = b  BY <1>8 DEF RingOf, Has, n
  <2> QED  BY <2>1, <1>1, <1>5, <1>7 DEF o
<1>9. CursorIn(s, q, k)  BY <1>1, <1>2 DEF CursorIn, n
<1>10. \A b \in Objects : T[b] \subseteq R  BY <1>6 DEF T, RingOf
<1>11. InTurn(s, q, T)
  <2> SUFFICES ASSUME NEW i \in 1 .. n, NEW j \in 1 .. n, s[j].obj \in T[s[i].obj]
               PROVE  Sooner(q, i, j)
    BY DEF InTurn, n
  <2>1. s[i].obj # o /\ s[j].obj \in S[s[i].obj] \cup {o}  BY <1>3 DEF T
  <2>2. i # p + 1  BY <2>1 DEF o
  <2>3. CASE s[j].obj = o
    <3>1. j = p + 1  BY <2>3, <1>1, <1>4 DEF o
    <3> QED  BY <3>1, <2>2, <1>1, <1>2 DEF Sooner
  <2>4. CASE s[j].obj \in S[s[i].obj]
    <3>1. Sooner(p, i, j)  BY <2>4, <1>5
    <3>2. j # p + 1  BY <3>1, <1>7
    <3> QED  BY <3>1, <3>2, <2>2, <1>1, <1>2 DEF Sooner
  <2> QED  BY <2>1, <2>3, <2>4
<1> QED  BY <1>6, <1>8, <1>9, <1>10, <1>11 DEF RingOf, n, o, q, T

-----------------------------------------------------------------------------
(* Each action keeps the invariant                                         *)

LEMMA EntryStamped ==
  ASSUME NEW t \in Int, NEW o \in Objects
  PROVE  Entry(t, o) \in Stamped /\ Entry(t, o).obj = o
BY DEF Entry, Stamped

LEMMA SvInit == ServiceInit => SvInv
<1> SUFFICES ASSUME ServiceInit  PROVE SvInv
  OBVIOUS
<1> USE DEF ServiceInit
<1>1. SvTypes
  <2>1. <<>> \in Seq(Stamped)  OBVIOUS
  <2>2. [o \in Objects |-> {}] \in [Objects -> SUBSET Objects]  OBVIOUS
  <2>3. objs \in Seq(Stamped) /\ mapAdd \in Seq(Stamped)  BY <2>1
  <2>4. since \in [Objects -> SUBSET Objects]  BY <2>2
  <2>5. bRun \in BOOLEAN /\ kind \in {"patch", "list", "vec", "map"}  OBVIOUS
  <2> QED  BY <2>3, <2>4, <2>5 DEF SvTypes
<1>2. InRound /\ Left  BY DEF InRound, Left
<1>3. OneEach(<<>>) /\ \A o : ~Has(<<>>, o)  BY DEF OneEach, Has
<1>4. Ring
  <2>1. CursorIn(<<>>, 0, kind)  BY DEF CursorIn
  <2>2. InTurn(<<>>, 0, since)  BY DEF InTurn
  <2> QED  BY <1>3, <2>1, <2>2 DEF Ring, RingOf
<1>5. Mapped  BY <1>3 DEF Mapped
<1> QED  BY <1>1, <1>2, <1>4, <1>5 DEF SvInv

LEMMA SvRegister ==
  ASSUME ServicesAssumption, ~Heedless, SvInv, NEW o \in Objects, Register(o)
  PROVE  SvInv'
<1> DEFINE e == Entry(TimeCD, o)
<1>1. e \in Stamped /\ e.obj = o  BY EntryStamped DEF ServicesAssumption
<1>2. SvTypes /\ InRound /\ Ring /\ Left /\ Mapped  BY DEF SvInv
<1>3. /\ o \notin registered /\ (kind = "map" => o \notin setDel)
      /\ registered' = registered \cup {o} /\ since' = [since EXCEPT ![o] = {}]
      /\ UNCHANGED <<kind, timeWait, runNum, setDel, bRun, calling, called>>
      /\ runPos' = IF kind = "list" /\ runPos = Len(objs) THEN 0 ELSE runPos
  <2>1. kind = "map" /\ ~Heedless => o \notin setDel  BY DEF Register
  <2>2. kind = "map" => o \notin setDel  BY <2>1
  <2> QED  BY <2>2 DEF Register
<1>4. CASE kind # "map"
  <2>1. objs' = Append(objs, e) /\ mapAdd' = mapAdd  BY <1>4 DEF Register
  <2> HIDE DEF e
  <2>2. SvTypes'  BY <1>1, <1>2, <1>3, <2>1 DEF SvTypes
  <2>3. RingOf(objs', runPos', kind', since', registered')
    <3>1. objs \in Seq(Stamped) /\ runPos \in Nat /\ since \in [Objects -> SUBSET Objects]
          /\ registered \in SUBSET Objects
      BY <1>2 DEF SvTypes
    <3>2. RingOf(objs, runPos, kind, since, registered)  BY <1>2, <1>4 DEF Ring
    <3> QED  BY <3>1, <3>2, <1>1, <1>3, <2>1, RingAppend
  <2>4. Ring'  BY <2>3 DEF Ring
  <2>5. Left'
    <3>1. Len(objs') = Len(objs) + 1 /\ Len(objs) \in Nat  BY <1>1, <1>2, <2>1 DEF SvTypes
    <3> QED  BY <3>1, <1>2, <1>3 DEF Left
  <2>6. InRound' /\ Mapped'  BY <1>2, <1>3, <1>4 DEF InRound, Mapped
  <2> QED  BY <2>2, <2>4, <2>5, <2>6 DEF SvInv
<1>5. CASE kind = "map"
  <2>1. objs \in Seq(Stamped) /\ mapAdd \in Seq(Stamped)  BY <1>2 DEF SvTypes
  <2>2. OneEach(objs) /\ OneEach(mapAdd)  BY <1>2, <1>5 DEF Mapped
  <2>3. ~Has(objs, o) /\ ~Has(mapAdd, o)  BY <1>2, <1>3, <1>5 DEF Mapped
  <2>4. InRound' /\ Left' /\ Ring'
    BY <1>2, <1>3, <1>5 DEF InRound, Left, Ring
  <2>5. CASE bRun
    <3>1. mapAdd' = Insert(mapAdd, e) /\ objs' = objs  BY <1>5, <2>5 DEF Register
    <3>2. /\ mapAdd' \in Seq(Stamped) /\ OneEach(mapAdd')
          /\ \A b : Has(mapAdd', b) <=> Has(mapAdd, b) \/ b = o
      <4> HIDE DEF e
      <4> QED  BY <1>1, <2>1, <2>2, <2>3, <3>1, InsertHas
    <3>3. SvTypes'  BY <1>2, <1>3, <3>1, <3>2 DEF SvTypes
    <3>4. Mapped'
      BY <1>2, <1>3, <1>5, <2>2, <2>3, <2>5, <3>1, <3>2 DEF Mapped
    <3> QED  BY <2>4, <3>3, <3>4 DEF SvInv
  <2>6. CASE ~bRun
    <3>1. objs' = Insert(objs, e) /\ mapAdd' = mapAdd  BY <1>5, <2>6 DEF Register
    <3>2. /\ objs' \in Seq(Stamped) /\ OneEach(objs')
          /\ \A b : Has(objs', b) <=> Has(objs, b) \/ b = o
      <4> HIDE DEF e
      <4> QED  BY <1>1, <2>1, <2>2, <2>3, <3>1, InsertHas
    <3>3. SvTypes'  BY <1>2, <1>3, <3>1, <3>2 DEF SvTypes
    <3>4. calling' = NoObject /\ bRun' = FALSE  BY <1>2, <1>3, <2>6 DEF InRound, SvTypes
    <3>5. Mapped'
      BY <1>2, <1>3, <1>5, <2>2, <2>3, <2>6, <3>1, <3>2, <3>4 DEF Mapped
    <3> QED  BY <2>4, <3>3, <3>5 DEF SvInv
  <2> QED  BY <2>5, <2>6
<1> QED  BY <1>4, <1>5

LEMMA FirstPlaceHas ==
  ASSUME NEW o, Has(objs, o), OneEach(objs)
  PROVE  FirstPlace(o) \in 1 .. Len(objs) /\ objs[FirstPlace(o)].obj = o
<1>1. PICK i \in 1 .. Len(objs) : objs[i].obj = o  BY DEF Has
<1>2. Entries(o) = {i}  BY <1>1 DEF Entries, OneEach
<1>3. i <= i  BY <1>1
<1>4. FirstPlace(o) = i  BY <1>2, <1>3 DEF FirstPlace
<1> QED  BY <1>1, <1>4

LEMMA SvUnRegister ==
  ASSUME ServicesAssumption, ~Heedless, SvInv, NEW o \in Objects, UnRegister(o)
  PROVE  SvInv'
<1>1. SvTypes /\ InRound /\ Ring /\ Left /\ Mapped  BY DEF SvInv
<1>2. /\ o \in registered
      /\ registered' = registered \ {o} /\ since' = [b \in Objects |-> since[b] \ {o}]
      /\ UNCHANGED <<kind, timeWait, runNum, mapAdd, bRun, calling, called>>
      /\ kind = "patch" => Len(objs) > 1 \/ runNum = 0
  <2>1. kind = "patch" /\ ~Heedless => Len(objs) > 1 \/ runNum = 0  BY DEF UnRegister
  <2>2. kind = "patch" => Len(objs) > 1 \/ runNum = 0  BY <2>1
  <2> QED  BY <2>2 DEF UnRegister
<1>3. CASE kind = "map"
  <2> DEFINE known == Entries(o) # {}
  <2>5. known
    <3>1. kind = "map" /\ ~Heedless => known  BY DEF UnRegister
    <3> HIDE DEF known
    <3> QED  BY <3>1, <1>3
  <2>6. IF kind = "map"
        THEN setDel' = (IF Entries(o) = {} THEN setDel ELSE setDel \cup {o})
             /\ UNCHANGED <<objs, runPos>>
        ELSE TRUE
    BY DEF UnRegister
  <2>1. setDel' = setDel \cup {o} /\ UNCHANGED <<objs, runPos>>  BY <1>3, <2>5, <2>6
  <2>2. SvTypes'  BY <1>1, <1>2, <2>1 DEF SvTypes
  <2>3. InRound' /\ Left' /\ Ring'
    BY <1>1, <1>2, <1>3, <2>1 DEF InRound, Left, Ring
  <2>4. Mapped'  BY <1>1, <1>2, <1>3, <2>1 DEF Mapped
  <2> QED  BY <2>2, <2>3, <2>4 DEF SvInv
<1>4. CASE kind # "map"
  <2> DEFINE x == FirstPlace(o)
  <2>1. objs' = Without(objs, x) /\ runPos' = Moved(x) /\ setDel' = setDel
    BY <1>4 DEF UnRegister
  <2>2. RingOf(objs, runPos, kind, since, registered)  BY <1>1, <1>4 DEF Ring
  <2>3. x \in 1 .. Len(objs) /\ objs[x].obj = o
    BY <1>1, <1>2, <2>2, FirstPlaceHas DEF RingOf
  <2>4. objs \in Seq(Stamped) /\ runPos \in Nat /\ since \in [Objects -> SUBSET Objects]
        /\ registered \in SUBSET Objects
    BY <1>1 DEF SvTypes
  <2> HIDE DEF x
  <2>5. runPos' = IF x - 1 < runPos THEN runPos - 1
                  ELSE IF kind # "list" /\ runPos >= Len(objs) - 1 THEN 0 ELSE runPos
    BY <2>1 DEF Moved
  <2>6. objs' \in Seq(Stamped) /\ Len(objs') = Len(objs) - 1
    BY <2>1, <2>3, <2>4, WithoutAt
  <2>7. SvTypes'
    <3>1. runPos' \in Nat  BY <2>3, <2>4, <2>5
    <3>2. since' \in [Objects -> SUBSET Objects]  BY <1>2, <2>4
    <3> QED  BY <1>1, <1>2, <2>1, <2>6, <3>1, <3>2 DEF SvTypes
  <2>8. RingOf(objs', runPos', kind', since', registered')
    <3>1. RingOf(Without(objs, x), MovedTo(objs, runPos, kind, x), kind,
                 [b \in Objects |-> since[b] \ {objs[x].obj}],
                 registered \ {objs[x].obj})
      BY <2>2, <2>3, <2>4, RingWithout
    <3>2. runPos' = MovedTo(objs, runPos, kind, x)  BY <2>5 DEF MovedTo
    <3> QED  BY <3>1, <3>2, <1>2, <2>1, <2>3
  <2>9. Ring'  BY <2>8 DEF Ring
  <2>10. Left'
    <3>1. Len(objs) \in Nat  BY <2>4
    <3> QED  BY <3>1, <1>1, <1>2, <2>6 DEF Left
  <2>11. InRound' /\ Mapped'  BY <1>1, <1>2, <1>4 DEF InRound, Mapped
  <2> QED  BY <2>7, <2>9, <2>10, <2>11 DEF SvInv
<1> QED  BY <1>3, <1>4

\* The calls a patch makes in a round.
LEMMA CallsInt ==
  ASSUME ServicesAssumption, NEW t \in Int, NEW n \in Nat
  PROVE  (t * n) \div TimeAll \in Int
<1>1. t * n \in Int /\ TimeAll \in Nat \ {0}  BY DEF ServicesAssumption
<1>2. \A a \in Int, d \in Nat \ {0} : a \div d \in Int  OBVIOUS
<1> QED  BY <1>1, <1>2

LEMMA WaitInt ==
  ASSUME ServicesAssumption, NEW t \in Int, NEW n \in Nat \ {0},
         TimeAll \div n # 0
  PROVE  t % (TimeAll \div n) \in Int
<1>1. TimeAll \in Nat  BY DEF ServicesAssumption
<1>2. \A a \in Nat, d \in Nat \ {0} : a \div d \in Nat  OBVIOUS
<1>3. TimeAll \div n \in Nat \ {0}  BY <1>1, <1>2
<1>4. \A a \in Int, d \in Nat \ {0} : a % d \in Int  OBVIOUS
<1> QED  BY <1>3, <1>4

LEMMA SvBegin ==
  ASSUME ServicesAssumption, SvInv, NEW e \in Elapses, Begin(e)
  PROVE  SvInv'
<1> DEFINE n == Len(objs)
           t == timeWait + e
           m == (t * n) \div TimeAll
           one == TimeAll \div n
<1>1. SvTypes /\ InRound /\ Ring /\ Left /\ Mapped  BY DEF SvInv
<1>2. /\ ~bRun /\ bRun' = TRUE /\ called' = {} /\ setDel' = {}
      /\ objs' = IF kind = "map" THEN Dropped(Later(objs, e), setDel)
                 ELSE IF kind = "patch" THEN objs ELSE Later(objs, e)
      /\ UNCHANGED <<kind, runPos, mapAdd, calling, registered, since>>
  BY DEF Begin
<1>3. IF kind = "patch" /\ n > 0
      THEN /\ runNum' = m
           /\ timeWait' = IF m = 0 THEN t ELSE IF one = 0 THEN 0 ELSE t % one
      ELSE UNCHANGED <<runNum, timeWait>>
  BY DEF Begin
<1>4. e \in Nat /\ objs \in Seq(Stamped) /\ n \in Nat /\ t \in Int
  BY <1>1 DEF SvTypes, ServicesAssumption
<1>5. m \in Int  BY <1>4, CallsInt
<1>6. n > 0 /\ one # 0 => t % one \in Int  BY <1>4, WaitInt
<1> HIDE DEF m, one, t
<1>7. runNum' \in Int /\ timeWait' \in Int
  BY <1>1, <1>3, <1>4, <1>5, <1>6 DEF SvTypes
<1>8. runNum' > 0 => kind = "patch" /\ n > 0  BY <1>1, <1>2, <1>3 DEF Left, SvTypes
<1>9. calling = NoObject  BY <1>1, <1>2 DEF InRound
<1>10. InRound'  BY <1>2 DEF InRound
<1>11. CASE kind = "map"
  <2> DEFINE l == Later(objs, e)
  <2>1. OneEach(objs)  BY <1>1, <1>11 DEF Mapped
  <2>2. l \in Seq(Stamped) /\ SameObjs(objs, l)  BY <1>4, LaterSame
  <2>3. OneEach(l) /\ \A o : Has(l, o) <=> Has(objs, o)  BY <1>4, <2>1, <2>2, SameHas
  <2>4. objs' = Dropped(l, setDel)  BY <1>2, <1>11
  <2> HIDE DEF l
  <2>5. /\ objs' \in Seq(Stamped) /\ OneEach(objs')
        /\ \A o : Has(objs', o) <=> Has(objs, o) /\ o \notin setDel
    BY <2>2, <2>3, <2>4, DroppedHas
  <2>6. SvTypes'  BY <1>1, <1>2, <1>7, <2>5 DEF SvTypes
  <2>7. Left' /\ Ring'  BY <1>2, <1>8, <1>11 DEF Left, Ring
  <2>8. mapAdd = <<>>  BY <1>1, <1>2, <1>11 DEF Mapped
  <2>9. Mapped'
    <3>1. mapAdd' = <<>> /\ \A o : ~Has(<<>>, o)  BY <1>2, <2>8 DEF Has
    <3>2. \A o \in Objects : o \in registered => Has(objs, o) /\ o \notin setDel
      BY <1>1, <1>11, <2>8, <3>1 DEF Mapped
    <3>3. \A o \in Objects : Has(objs, o) => o \in registered \cup setDel
      BY <1>1, <1>11 DEF Mapped
    <3>4. OneEach(<<>>)  BY DEF OneEach
    <3>5. \A o \in Objects : Has(objs', o) <=> o \in registered'
      BY <1>2, <2>5, <3>2, <3>3
    <3> QED  BY <1>2, <1>9, <2>5, <3>1, <3>4, <3>5 DEF Mapped
  <2> QED  BY <1>10, <2>6, <2>7, <2>9 DEF SvInv
<1>12. CASE kind # "map"
  <2>1. objs' \in Seq(Stamped) /\ SameObjs(objs, objs')
    <3>1. SameObjs(objs, objs)  BY DEF SameObjs
    <3>2. Later(objs, e) \in Seq(Stamped) /\ SameObjs(objs, Later(objs, e))
      BY <1>4, LaterSame
    <3> QED  BY <1>2, <1>4, <1>12, <3>1, <3>2
  <2>2. SvTypes'  BY <1>1, <1>2, <1>7, <2>1 DEF SvTypes
  <2>3. Ring'
    <3>1. RingOf(objs, runPos, kind, since, registered) /\ runPos \in Nat
      BY <1>1, <1>12 DEF Ring, SvTypes
    <3>2. RingOf(objs', runPos, kind, since, registered)  BY <3>1, <1>4, <2>1, RingSame
    <3> QED  BY <3>2, <1>2 DEF Ring
  <2>4. Left'  BY <1>2, <1>8, <2>1 DEF Left, SameObjs
  <2>5. Mapped'  BY <1>2, <1>12 DEF Mapped
  <2> QED  BY <1>10, <2>2, <2>3, <2>4, <2>5 DEF SvInv
<1> QED  BY <1>11, <1>12

\* The cursor is on an object when one is due.
LEMMA DueHas ==
  ASSUME SvInv, Due, kind # "map"
  PROVE  /\ RingOf(objs, runPos, kind, since, registered) /\ runPos < Len(objs)
         /\ runPos + 1 \in 1 .. Len(objs) /\ objs[runPos + 1] \in Stamped
         /\ objs \in Seq(Stamped) /\ runPos \in Nat
         /\ since \in [Objects -> SUBSET Objects] /\ registered \in SUBSET Objects
<1>1. /\ objs \in Seq(Stamped) /\ runPos \in Nat /\ Len(objs) \in Nat /\ runNum \in Int
      /\ since \in [Objects -> SUBSET Objects] /\ registered \in SUBSET Objects
      /\ kind \in {"patch", "list", "vec", "map"}
  BY DEF SvInv, SvTypes
<1>2. RingOf(objs, runPos, kind, since, registered)  BY DEF SvInv, Ring
<1>3. CursorIn(objs, runPos, kind)  BY <1>2 DEF RingOf
<1>4. runPos < Len(objs)
  <2>1. CASE kind = "patch"
    <3>1. runNum > 0  BY <2>1 DEF Due
    <3> QED  BY <3>1, <2>1, <1>1, <1>3 DEF SvInv, Left, CursorIn
  <2>2. CASE kind # "patch"  BY <2>2 DEF Due
  <2> QED  BY <2>1, <2>2
<1>5. runPos + 1 \in 1 .. Len(objs)  BY <1>1, <1>4
<1>6. objs[runPos + 1] \in Stamped  BY <1>1, <1>5
<1> QED  BY <1>1, <1>2, <1>4, <1>5, <1>6

LEMMA SvCallNext ==
  ASSUME ServicesAssumption, SvInv, CallNext
  PROVE  SvInv'
<1> DEFINE o == objs[runPos + 1].obj
           n == Len(objs)
<1>1. SvTypes /\ InRound /\ Ring /\ Left /\ Mapped  BY DEF SvInv
<1>0. bRun /\ calling = NoObject /\ Due /\ kind # "map"  BY DEF CallNext
<1>4. /\ RingOf(objs, runPos, kind, since, registered) /\ runPos < n
      /\ runPos + 1 \in 1 .. n /\ objs[runPos + 1] \in Stamped
      /\ objs \in Seq(Stamped) /\ runPos \in Nat
      /\ since \in [Objects -> SUBSET Objects] /\ registered \in SUBSET Objects
  BY <1>0, DueHas
<1>12. objs # <<>>  BY <1>4
<1>2. /\ bRun /\ calling = NoObject /\ Due /\ kind # "map"
      /\ runPos' = (runPos + 1) % n
      /\ objs' = IF kind = "patch" THEN objs
                 ELSE [objs EXCEPT ![runPos + 1].time = @ + TimeCD]
      /\ runNum' = IF kind = "patch" THEN runNum - 1 ELSE runNum
      /\ UNCHANGED <<kind, timeWait, mapAdd, setDel, bRun, registered>>
  BY <1>0, <1>12 DEF CallNext
<1>3. /\ calling' = o /\ called' = called \cup {o}
      /\ since' = [b \in Objects |-> IF b = o THEN {} ELSE since[b] \cup {o}]
  <2>1. AtCursor = {o}  BY <1>12 DEF AtCursor
  <2>2. \E b \in AtCursor : Called(b)  BY DEF CallNext
  <2>3. Called(o)  BY <2>1, <2>2
  <2> QED  BY <2>3 DEF Called
<1>5. o \in Objects  BY <1>4 DEF Stamped
<1>6. objs' \in Seq(Stamped) /\ SameObjs(objs, objs')
  <2>1. CASE kind = "patch"  BY <2>1, <1>2, <1>4 DEF SameObjs
  <2>2. CASE kind # "patch"
    <3> DEFINE p == runPos + 1
               v == [objs[p] EXCEPT !.time = @ + TimeCD]
    <3>1. v \in Stamped /\ v.obj = objs[p].obj  BY <1>4 DEF Stamped, ServicesAssumption
    <3>2. objs' = [objs EXCEPT ![p] = v]  BY <2>2, <1>2
    <3> HIDE DEF v, p
    <3>3. p \in 1 .. Len(objs)  BY <1>4 DEF p
    <3>4. /\ objs' \in Seq(Stamped) /\ Len(objs') = Len(objs)
          /\ \A i \in 1 .. Len(objs) : objs'[i] = IF i = p THEN v ELSE objs[i]
      BY <3>1, <3>2, <3>3, <1>4
    <3> QED  BY <3>1, <3>4 DEF SameObjs
  <2> QED  BY <2>1, <2>2
<1> HIDE DEF o
<1>7. runPos' \in Nat
  <2>1. n \in Nat \ {0}  BY <1>4
  <2>2. \A a \in Nat, d \in Nat \ {0} : a % d \in Nat  OBVIOUS
  <2> QED  BY <2>1, <2>2, <1>2, <1>4
<1>8. SvTypes'
  <2>1. since' \in [Objects -> SUBSET Objects]  BY <1>3, <1>4, <1>5
  <2>2. runNum' \in Int  BY <1>1, <1>2 DEF SvTypes
  <2> QED  BY <1>1, <1>2, <1>3, <1>5, <1>6, <1>7, <2>1, <2>2 DEF SvTypes
<1>9. Ring'
  <2>1. RingOf(objs, runPos', kind, since', registered)
    <3>1. RingOf(objs, (runPos + 1) % Len(objs), kind,
                 [b \in Objects |-> IF b = objs[runPos + 1].obj THEN {}
                                    ELSE since[b] \cup {objs[runPos + 1].obj}], registered)
      BY <1>4, RingCall
    <3> QED  BY <3>1, <1>2, <1>3 DEF o
  <2>2. RingOf(objs', runPos', kind, since', registered)
    BY <2>1, <1>4, <1>6, <1>7, RingSame
  <2> QED  BY <2>2, <1>2 DEF Ring
<1>10. Left'  BY <1>1, <1>2, <1>6 DEF Left, SameObjs, SvTypes
<1>11. InRound' /\ Mapped'  BY <1>2 DEF InRound, Mapped
<1> QED  BY <1>8, <1>9, <1>10, <1>11 DEF SvInv

LEMMA SvCallFirst ==
  ASSUME ServicesAssumption, SvInv, CallFirst
  PROVE  SvInv'
<1> DEFINE o == objs[1].obj
<1>1. SvTypes /\ InRound /\ Ring /\ Left /\ Mapped  BY DEF SvInv
<1>2. /\ bRun /\ calling = NoObject /\ Due /\ kind = "map"
      /\ IF o \in setDel
         THEN objs' = Tail(objs) /\ UNCHANGED <<calling, called, since>>
         ELSE Called(o) /\ UNCHANGED objs
      /\ UNCHANGED <<kind, runPos, timeWait, runNum, mapAdd, setDel, bRun, registered>>
  BY DEF CallFirst
<1>3. objs \in Seq(Stamped) /\ objs # <<>> /\ OneEach(objs)
  BY <1>1, <1>2 DEF Due, SvTypes, Mapped
<1>4. o \in Objects /\ Has(objs, o)
  <2>1. 1 \in 1 .. Len(objs) /\ objs[1] \in Stamped  BY <1>3
  <2>2. objs[1].obj \in Objects  BY <2>1 DEF Stamped
  <2> QED  BY <2>1, <2>2 DEF Has
<1> HIDE DEF o
<1>5. CASE o \in setDel
  <2>1. objs' = Tail(objs) /\ UNCHANGED <<calling, called, since>>  BY <1>2, <1>5
  <2>2. /\ objs' \in Seq(Stamped) /\ OneEach(objs') /\ Len(objs') = Len(objs) - 1
        /\ \A b : Has(objs', b) <=> Has(objs, b) /\ b # o
        /\ \A i \in 1 .. Len(objs) - 1 : objs'[i] = objs[i + 1]
    BY <1>3, <2>1, TailHas DEF o
  <2>3. SvTypes'  BY <1>1, <1>2, <2>1, <2>2 DEF SvTypes
  <2>4. InRound' /\ Left' /\ Ring'  BY <1>1, <1>2, <2>1 DEF InRound, Left, Ring
  <2>5. Mapped'
    <3>1. \A i \in 1 .. Len(objs') : objs'[i].obj \notin called'
      <4> SUFFICES ASSUME NEW i \in 1 .. Len(objs')  PROVE  objs'[i].obj \notin called
        BY <2>1
      <4>1. i + 1 \in 1 .. Len(objs) /\ objs'[i] = objs[i + 1]  BY <2>2, <1>3
      <4> QED  BY <4>1, <1>1, <1>2 DEF Mapped
    <3>2. \A b \in Objects : b \in registered => b # o
      BY <1>1, <1>2, <1>5 DEF Mapped
    <3> QED  BY <3>1, <3>2, <1>1, <1>2, <2>1, <2>2 DEF Mapped
  <2> QED  BY <2>3, <2>4, <2>5 DEF SvInv
<1>6. CASE o \notin setDel
  <2>1. /\ calling' = o /\ called' = called \cup {o} /\ objs' = objs
        /\ since' = [b \in Objects |-> IF b = o THEN {} ELSE since[b] \cup {o}]
    BY <1>2, <1>6 DEF Called
  <2>2. since' \in [Objects -> SUBSET Objects]  BY <1>1, <1>4, <2>1 DEF SvTypes
  <2>3. SvTypes'  BY <1>1, <1>2, <1>4, <2>1, <2>2 DEF SvTypes
  <2>4. InRound' /\ Left' /\ Ring'  BY <1>1, <1>2, <2>1 DEF InRound, Left, Ring
  <2>5. Mapped'
    <3>1. \A i \in 1 .. Len(objs) : objs[i].obj \in called' => i = 1
      <4> SUFFICES ASSUME NEW i \in 1 .. Len(objs), objs[i].obj \in called \cup {o}
                   PROVE  i = 1
        BY <2>1
      <4>1. objs[i].obj \notin called  BY <1>1, <1>2 DEF Mapped
      <4>2. objs[i].obj = objs[1].obj /\ 1 \in 1 .. Len(objs)  BY <4>1 DEF o
      <4> QED  BY <4>2, <1>3 DEF OneEach
    <3>2. calling' # NoObject  BY <1>4, <2>1 DEF ServicesAssumption
    <3>3. objs'[1].obj = calling' /\ objs' # <<>>  BY <1>3, <2>1 DEF o
    <3> QED  BY <3>1, <3>2, <3>3, <1>1, <1>2, <2>1 DEF Mapped
  <2> QED  BY <2>3, <2>4, <2>5 DEF SvInv
<1> QED  BY <1>5, <1>6

LEMMA SvReturn ==
  ASSUME ServicesAssumption, SvInv, Return
  PROVE  SvInv'
<1> DEFINE o == objs[1].obj
           e == Entry(objs[1].time + TimeCD, o)
<1>1. SvTypes /\ InRound /\ Ring /\ Left /\ Mapped  BY DEF SvInv
<1>2. /\ calling # NoObject /\ calling' = NoObject
      /\ IF kind = "map" THEN objs' = Tail(objs) /\ mapAdd' = Insert(mapAdd, e)
         ELSE UNCHANGED <<objs, mapAdd>>
      /\ UNCHANGED <<kind, runPos, timeWait, runNum, setDel, bRun, registered, since, called>>
  BY DEF Return
<1>3. CASE kind # "map"
  <2>1. UNCHANGED <<objs, mapAdd>>  BY <1>2, <1>3
  <2>2. SvTypes'  BY <1>1, <1>2, <2>1 DEF SvTypes
  <2> QED  BY <1>1, <1>2, <1>3, <2>1, <2>2 DEF SvInv, InRound, Ring, Left, Mapped
<1>4. CASE kind = "map"
  <2>1. /\ objs \in Seq(Stamped) /\ objs # <<>> /\ OneEach(objs)
        /\ mapAdd \in Seq(Stamped) /\ OneEach(mapAdd) /\ bRun
    BY <1>1, <1>2, <1>4 DEF SvTypes, Mapped, InRound
  <2>2. 1 \in 1 .. Len(objs) /\ objs[1] \in Stamped  BY <2>1
  <2>3. o \in Objects /\ objs[1].time + TimeCD \in Int
    BY <2>2 DEF Stamped, ServicesAssumption
  <2>4. e \in Stamped /\ e.obj = o  BY <2>3, EntryStamped
  <2>5. Has(objs, o)  BY <2>2 DEF Has
  <2>6. ~Has(mapAdd, o)  BY <1>1, <1>4, <2>3, <2>5 DEF Mapped
  <2>7. objs' = Tail(objs) /\ mapAdd' = Insert(mapAdd, e)  BY <1>2, <1>4
  <2> HIDE DEF e
  <2>8. /\ mapAdd' \in Seq(Stamped) /\ OneEach(mapAdd')
        /\ \A b : Has(mapAdd', b) <=> Has(mapAdd, b) \/ b = o
    BY <2>1, <2>4, <2>6, <2>7, InsertHas
  <2>9. /\ objs' \in Seq(Stamped) /\ OneEach(objs') /\ Len(objs') = Len(objs) - 1
        /\ \A b : Has(objs', b) <=> Has(objs, b) /\ b # o
        /\ \A i \in 1 .. Len(objs) - 1 : objs'[i] = objs[i + 1]
    BY <2>1, <2>7, TailHas
  <2> HIDE DEF o
  <2>10. SvTypes'  BY <1>1, <1>2, <2>8, <2>9 DEF SvTypes
  <2>11. InRound' /\ Left' /\ Ring'  BY <1>1, <1>2, <1>4 DEF InRound, Left, Ring
  <2>12. Mapped'
    <3>1. \A i \in 1 .. Len(objs') : objs'[i].obj \notin called'
      <4> SUFFICES ASSUME NEW i \in 1 .. Len(objs')  PROVE  objs'[i].obj \notin called
        BY <1>2
      <4>1. i + 1 \in 1 .. Len(objs) /\ i + 1 # 1 /\ objs'[i] = objs[i + 1]
        BY <2>1, <2>9
      <4> QED  BY <4>1, <1>1, <1>4, <2>1 DEF Mapped
    <3>2. \A b \in Objects : /\ Has(objs', b) => ~Has(mapAdd', b)
                             /\ (Has(objs', b) \/ Has(mapAdd', b)
                                   <=> Has(objs, b) \/ Has(mapAdd, b))
      BY <1>1, <1>4, <2>5, <2>8, <2>9 DEF Mapped
    <3> QED  BY <3>1, <3>2, <1>1, <1>2, <1>4, <2>1, <2>8, <2>9 DEF Mapped
  <2> QED  BY <2>10, <2>11, <2>12 DEF SvInv
<1> QED  BY <1>3, <1>4

LEMMA SvEnd ==
  ASSUME ServicesAssumption, SvInv, End
  PROVE  SvInv'
<1>1. SvTypes /\ InRound /\ Ring /\ Left /\ Mapped  BY DEF SvInv
<1>2. /\ calling = NoObject /\ ~Due /\ bRun' = FALSE /\ mapAdd' = <<>>
      /\ objs' = IF kind = "map" THEN Merged(objs, mapAdd) ELSE objs
      /\ UNCHANGED <<kind, runPos, timeWait, runNum, setDel, calling, registered, since, called>>
  BY DEF End
<1>3. <<>> \in Seq(Stamped) /\ OneEach(<<>>) /\ \A o : ~Has(<<>>, o)
  BY DEF OneEach, Has
<1>4. InRound'  BY <1>2 DEF InRound
<1>5. ~(runNum > 0)  BY <1>1, <1>2 DEF Left, Due
<1>6. Left'  BY <1>2, <1>5 DEF Left
<1>7. CASE kind # "map"
  <2>1. objs' = objs  BY <1>2, <1>7
  <2>2. SvTypes'  BY <1>1, <1>2, <1>3, <2>1 DEF SvTypes
  <2> QED  BY <1>1, <1>2, <1>4, <1>6, <1>7, <2>1, <2>2 DEF SvInv, Ring, Mapped
<1>8. CASE kind = "map"
  <2>1. /\ objs \in Seq(Stamped) /\ mapAdd \in Seq(Stamped)
        /\ OneEach(objs) /\ OneEach(mapAdd)
        /\ \A o \in Objects : Has(objs, o) => ~Has(mapAdd, o)
    BY <1>1, <1>8 DEF SvTypes, Mapped
  <2>2. /\ objs' \in Seq(Stamped) /\ OneEach(objs')
        /\ \A o : Has(objs', o) <=> Has(objs, o) \/ Has(mapAdd, o)
    BY <1>2, <1>8, <2>1, MergedHas
  <2>3. SvTypes'  BY <1>1, <1>2, <1>3, <2>2 DEF SvTypes
  <2>4. Ring'  BY <1>2, <1>8 DEF Ring
  <2>5. Mapped'
    <3>1. \A o : ~Has(mapAdd', o)  BY <1>2, <1>3
    <3>2. OneEach(mapAdd')  BY <1>2, <1>3
    <3> QED  BY <1>1, <1>2, <1>8, <2>2, <3>1, <3>2 DEF Mapped
  <2> QED  BY <1>4, <1>6, <2>3, <2>4, <2>5 DEF SvInv
<1> QED  BY <1>7, <1>8

LEMMA SvStep ==
  ASSUME ServicesAssumption, ~Heedless, SvInv, [ServiceNext]_serviceVars
  PROVE  SvInv'
<1>1. ASSUME NEW o \in Objects, Register(o)  PROVE SvInv'  BY <1>1, SvRegister
<1>2. ASSUME NEW o \in Objects, UnRegister(o)  PROVE SvInv'  BY <1>2, SvUnRegister
<1>3. ASSUME NEW e \in Elapses, Begin(e)  PROVE SvInv'  BY <1>3, SvBegin
<1>4. CASE CallNext  BY <1>4, SvCallNext
<1>5. CASE CallFirst  BY <1>5, SvCallFirst
<1>6. CASE Return  BY <1>6, SvReturn
<1>7. CASE End  BY <1>7, SvEnd
<1>8. CASE UNCHANGED serviceVars
  BY <1>8 DEF serviceVars, SvInv, SvTypes, InRound, Ring, Left, Mapped
<1> QED  BY <1>1, <1>2, <1>3, <1>4, <1>5, <1>6, <1>7, <1>8 DEF ServiceNext

-----------------------------------------------------------------------------
(* The theorems                                                            *)

\* When the function lets a service keep track of its objects (not Heedless), its lists,
\* its cursor and the histories agree in all behaviours: each object has one entry, and
\* who was called since it was waits behind it.
THEOREM ServiceInvariant ==
  ASSUME ~Heedless
  PROVE  ServiceSpec => []SvInv
<1> USE ServicesAssumption
<1> QED  BY SvInit, SvStep, PTL DEF ServiceSpec

\* CallNext calls the function for the object at the cursor.
LEMMA NextCalled ==
  ASSUME SvInv, CallNext
  PROVE  Due /\ kind # "map" /\ calling' = objs[runPos + 1].obj
<1>1. Due /\ kind # "map"  BY DEF CallNext
<1>2. objs # <<>>  BY <1>1, DueHas
<1>3. AtCursor = {objs[runPos + 1].obj}  BY <1>2 DEF AtCursor
<1>4. \E b \in AtCursor : Called(b)  BY DEF CallNext
<1>5. Called(objs[runPos + 1].obj)  BY <1>3, <1>4
<1> QED  BY <1>1, <1>5 DEF Called

\* A call is made for an object by CallNext or CallFirst.
LEMMA WhoCalls ==
  ASSUME SvInv, [ServiceNext]_serviceVars, calling' # calling, calling' # NoObject
  PROVE  CallNext \/ CallFirst
<1>1. ASSUME NEW o \in Objects, Register(o)  PROVE FALSE  BY <1>1 DEF Register
<1>2. ASSUME NEW o \in Objects, UnRegister(o)  PROVE FALSE  BY <1>2 DEF UnRegister
<1>3. ASSUME NEW e \in Elapses, Begin(e)  PROVE FALSE  BY <1>3 DEF Begin
<1>4. ~Return /\ ~End /\ ~UNCHANGED serviceVars  BY DEF Return, End, serviceVars
<1> QED  BY <1>1, <1>2, <1>3, <1>4 DEF ServiceNext

\* RunSevice calls its function only for objects that are registered (Service.h:86-107,
\* 141-151, 183-194, 238-247), and that of a map for each once a frame, when no patch is
\* emptied in its round and a map meets none of the cases that it mistakes (not Heedless).
THEOREM ServiceRightCalls ==
  ASSUME ~Heedless
  PROVE  ServiceSpec => RightCalls
<1> USE ServicesAssumption
<1>1. ASSUME SvInv, [ServiceNext]_serviceVars, calling' # calling, calling' # NoObject
      PROVE  calling' \in registered /\ (kind = "map" => calling' \notin called)
  <2>1. CASE CallNext
    <3>1. Due /\ kind # "map" /\ calling' = objs[runPos + 1].obj
      BY <2>1, <1>1, NextCalled
    <3>2. objs[runPos + 1].obj \in registered  BY <1>1, <3>1, DueHas, RingCall
    <3> QED  BY <3>1, <3>2
  <2>2. CASE CallFirst
    <3> DEFINE o == objs[1].obj
    <3>1. /\ bRun /\ calling = NoObject /\ Due /\ kind = "map"
          /\ o \notin setDel /\ calling' = o
      BY <2>2, <1>1 DEF CallFirst, Called
    <3>2. objs \in Seq(Stamped) /\ objs # <<>> /\ Mapped
      BY <1>1, <3>1 DEF Due, SvInv, SvTypes
    <3>3. 1 \in 1 .. Len(objs) /\ objs[1] \in Stamped  BY <3>2
    <3>4. o \in Objects /\ Has(objs, o)  BY <3>3 DEF Has, Stamped
    <3>5. o \notin called  BY <3>1, <3>2, <3>3 DEF Mapped
    <3>6. o \in registered  BY <3>1, <3>2, <3>4 DEF Mapped
    <3> QED  BY <3>1, <3>5, <3>6
  <2> QED  BY <1>1, <2>1, <2>2, WhoCalls
<1>2. SvInv /\ [ServiceNext]_serviceVars =>
        [Calls => calling' \in registered /\ (kind = "map" => calling' \notin called)]_serviceVars
  BY <1>1 DEF Calls
<1> QED  BY <1>2, ServiceInvariant, PTL DEF ServiceSpec, RightCalls

\* Patch, list and vec call no object twice while another waits for its turn, although
\* the cursor is moved by every UnRegister (Service.h:72-81, 130-140, 173-182).
THEOREM ServiceTakeTurns ==
  ASSUME ~Heedless
  PROVE  ServiceSpec => TakeTurns
<1> USE ServicesAssumption
<1>1. ASSUME SvInv, [ServiceNext]_serviceVars, calling' # calling, calling' # NoObject,
             kind # "map"
      PROVE  \A o \in registered \ {calling'} : calling' \notin since[o]
  <2>1. CallNext  BY <1>1, WhoCalls DEF CallFirst
  <2>2. Due /\ calling' = objs[runPos + 1].obj  BY <2>1, <1>1, NextCalled
  <2>3. \A o \in registered \ {objs[runPos + 1].obj} : objs[runPos + 1].obj \notin since[o]
    BY <1>1, <2>2, DueHas, RingCall
  <2> QED  BY <2>2, <2>3
<1>2. SvInv /\ [ServiceNext]_serviceVars =>
        [Calls /\ kind # "map" =>
           \A o \in registered \ {calling'} : calling' \notin since[o]]_serviceVars
  BY <1>1 DEF Calls
<1> QED  BY <1>2, ServiceInvariant, PTL DEF ServiceSpec, TakeTurns
=============================================================================
