---------------------------- MODULE Data_proofs ----------------------------
(***************************************************************************)
(* SharedPtr: an object dies once, after its last owner, and its block     *)
(* once, after its last weak pointer, for any number of objects and        *)
(* pointers, both headers, and destructors that run others to any depth.   *)
(* NetBuffer: the bytes come out as they went in, for any sizes.           *)
(* LuaBridge: the stack is left as found, references are those of the last *)
(* script, and a table is read as it is, for any names, keys and tables.   *)
(* RpcPack: an answer has what was written for its call, for any bodies.   *)
(* EventLink: messages are handled whole and in order, wherever the stream *)
(* is cut, for buffers of any size.                                        *)
(***************************************************************************)
EXTENDS SharedPtr, NetBuffer, LuaBridge, RpcPack, EventLink, Iteration,
        FiniteSetTheorems, SequenceTheorems

-----------------------------------------------------------------------------
(* SharedPtr                                                               *)

DeathSteps == {"body", "weak", "shared", "this", "block"}
Lives      == {"none", "live", "dead"} \cup DeathSteps
Targets    == Things \cup {NoThing}

Same(a, b) == IF a = b THEN 1 ELSE 0
Held(step) == IF step \in DeathSteps THEN 1 ELSE 0

\* g is f but for s, which has v.
Assigned(g, f, S, s, v) ==
  /\ f \in [S -> Targets] /\ g \in [S -> Targets] /\ s \in S /\ v \in Targets
  /\ g[s] = v /\ \A r \in S : r # s => g[r] = f[r]

\* The pointers of f that have o.
Having(f, o) == {s \in DOMAIN f : f[s] = o}

PtrType ==
  /\ copies \in BOOLEAN
  /\ life \in [Things -> Lives]
  /\ ptr \in [SharedSlots -> Targets] /\ wptr \in [WeakSlots -> Targets]
  /\ shared \in [Things -> Int] /\ weak \in [Things -> Int]
  /\ freed \subseteq Things
  /\ dying \in Seq(Things)

\* Counts of shared pointers p while the value v has left its slot and is not dropped yet:
\* a destructor keeps one for itself, until it is through.
Owned(p, v, counts, lives) ==
  /\ \A s \in SharedSlots, o \in Things : p[s] = o => lives[o] = "live"
  /\ \A o \in Things :
       counts[o] = Cardinality(Having(p, o)) + Held(lives[o]) + Same(o, v)
  /\ \A o \in Things : lives[o] = "live" => o = v \/ \E s \in SharedSlots : p[s] = o
  /\ v \in Things => lives[v] = "live"

\* The same of weak pointers w.
Watched(w, v, counts) ==
  \A o \in Things : counts[o] = Cardinality(Having(w, o)) + Same(o, v)

\* The stack has each object that is being destroyed, once.
Stacked(d, lives) ==
  /\ \A i, j \in 1 .. Len(d) : d[i] = d[j] => i = j
  /\ \A o \in Things : lives[o] \in DeathSteps <=> \E i \in 1 .. Len(d) : d[i] = o

\* Blocks go with the last weak pointer; nothing points to an object that was never made.
Blocks(lives, counts, f, w) ==
  /\ \A o \in Things : o \in f <=> lives[o] = "dead" /\ counts[o] = 0
  /\ \A o \in Things : lives[o] = "none" => counts[o] = 0 /\ w[<<o, "this">>] = NoThing

PtrInv ==
  /\ PtrType
  /\ Owned(ptr, NoThing, shared, life) /\ Watched(wptr, NoThing, weak)
  /\ Stacked(dying, life) /\ Blocks(life, weak, freed, wptr)

-----------------------------------------------------------------------------
(* Counting                                                                *)

LEMMA Members ==
  ASSUME NEW name
  PROVE  IsFiniteSet({<<o, name>> : o \in Things})
<1> DEFINE f == [o \in Things |-> <<o, name>>]
<1>1. f \in Surjection(Things, {<<o, name>> : o \in Things})
  BY DEF Surjection
<1> QED BY <1>1, SharedPtrAssumption, FS_Surjection

LEMMA SlotsFinite ==
  /\ IsFiniteSet(SharedSlots) /\ IsFiniteSet(WeakSlots)
  /\ \A o \in Things : /\ <<o, "shared">> \in SharedSlots /\ <<o, "shared">> \notin Holders
                       /\ <<o, "weak">> \in WeakSlots /\ <<o, "this">> \in WeakSlots
                       /\ <<o, "weak">> \notin Watchers /\ <<o, "this">> \notin Watchers
<1>1. IsFiniteSet({<<o, "shared">> : o \in Things})
  BY Members
<1>2. IsFiniteSet({<<o, "weak">> : o \in Things} \cup {<<o, "this">> : o \in Things})
  BY Members, FS_Union
<1>3. {<<o, s>> : o \in Things, s \in {"weak", "this"}}
        = {<<o, "weak">> : o \in Things} \cup {<<o, "this">> : o \in Things}
  OBVIOUS
<1> DEFINE A == {<<o, "shared">> : o \in Things}
           B == {<<o, "weak">> : o \in Things} \cup {<<o, "this">> : o \in Things}
<1>4. IsFiniteSet(SharedSlots) /\ IsFiniteSet(WeakSlots)
  <2>1. SharedSlots = Holders \cup A /\ WeakSlots = Watchers \cup B
    BY <1>3 DEF SharedSlots, WeakSlots
  <2>2. IsFiniteSet(A) /\ IsFiniteSet(B) /\ IsFiniteSet(Holders) /\ IsFiniteSet(Watchers)
    BY <1>1, <1>2, SharedPtrAssumption
  <2> HIDE DEF A, B
  <2> QED BY <2>1, <2>2, FS_Union
<1>5. \A o \in Things : /\ <<o, "shared">> \in SharedSlots /\ <<o, "shared">> \notin Holders
                        /\ <<o, "weak">> \in WeakSlots /\ <<o, "this">> \in WeakSlots
                        /\ <<o, "weak">> \notin Watchers /\ <<o, "this">> \notin Watchers
  BY SharedPtrAssumption DEF SharedSlots, WeakSlots
<1> QED BY <1>4, <1>5

\* One pointer is assigned.
LEMMA HavingExcept ==
  ASSUME NEW S, IsFiniteSet(S), NEW f, NEW s, NEW v, NEW o \in Things, NEW g,
         Assigned(g, f, S, s, v)
  PROVE  /\ Cardinality(Having(g, o)) = Cardinality(Having(f, o)) + Same(o, v) - Same(f[s], o)
         /\ Cardinality(Having(f, o)) \in Nat
<1> DEFINE A == Having(f, o) \ {s}
<1>1. Having(f, o) \subseteq S /\ IsFiniteSet(Having(f, o))
  BY FS_Subset DEF Having, Assigned
<1>2. /\ IsFiniteSet(A) /\ Cardinality(A) \in Nat /\ Cardinality(Having(f, o)) \in Nat
      /\ Cardinality(A) = IF s \in Having(f, o) THEN Cardinality(Having(f, o)) - 1
                                                ELSE Cardinality(Having(f, o))
  BY <1>1, FS_RemoveElement, FS_CardinalityType
<1>3. Cardinality(A \cup {s}) = Cardinality(A) + 1
  BY <1>2, FS_AddElement
<1>4. Having(g, o) = IF v = o THEN A \cup {s} ELSE A
  BY DEF Having, Assigned
<1>5. s \in Having(f, o) <=> f[s] = o
  BY DEF Having, Assigned
<1> HIDE DEF A
<1>6. Cardinality(Having(g, o)) = Cardinality(A) + Same(o, v)
  BY <1>2, <1>3, <1>4 DEF Same
<1>7. Cardinality(Having(f, o)) = Cardinality(A) + Same(f[s], o)
  BY <1>2, <1>5 DEF Same
<1>8. Same(f[s], o) \in {0, 1} /\ Same(o, v) \in {0, 1}
  BY DEF Same
<1> QED BY <1>2, <1>6, <1>7, <1>8

LEMMA SharedHaving ==
  ASSUME NEW f, NEW s, NEW v, NEW o \in Things, NEW g, Assigned(g, f, SharedSlots, s, v)
  PROVE  /\ Cardinality(Having(g, o)) = Cardinality(Having(f, o)) + Same(o, v) - Same(f[s], o)
         /\ Cardinality(Having(f, o)) \in Nat
<1>1. IsFiniteSet(SharedSlots)
  BY SlotsFinite
<1> QED BY <1>1, HavingExcept

LEMMA WeakHaving ==
  ASSUME NEW f, NEW s, NEW v, NEW o \in Things, NEW g, Assigned(g, f, WeakSlots, s, v)
  PROVE  /\ Cardinality(Having(g, o)) = Cardinality(Having(f, o)) + Same(o, v) - Same(f[s], o)
         /\ Cardinality(Having(f, o)) \in Nat
<1>1. IsFiniteSet(WeakSlots)
  BY SlotsFinite
<1> QED BY <1>1, HavingExcept

LEMMA CountedType ==
  ASSUME NEW c \in [Things -> Int], NEW v \in Targets
  PROVE  /\ Counted(c, v, 1) \in [Things -> Int]
         /\ \A o \in Things : Counted(c, v, 1)[o] = c[o] + Same(o, v)
         /\ v = NoThing => Counted(c, v, 1) = c
BY SharedPtrAssumption DEF Counted, Same, Held, Targets

\* A count is zero when there is neither an owner nor a destructor.
LEMMA SharedZero ==
  ASSUME NEW p \in [SharedSlots -> Targets], NEW c \in [Things -> Int],
         NEW l \in [Things -> Lives], Owned(p, NoThing, c, l), NEW o \in Things
  PROVE  /\ c[o] \in Nat
         /\ c[o] = 0 <=> l[o] \in {"none", "dead"}
<1>1. Cardinality(Having(p, o)) \in Nat /\ Held(l[o]) \in {0, 1}
  <2>1. IsFiniteSet(Having(p, o))
    BY SlotsFinite, FS_Subset DEF Having
  <2> QED BY <2>1, FS_CardinalityType DEF Same, Held
<1>2. c[o] = Cardinality(Having(p, o)) + Held(l[o])
  BY <1>1, SharedPtrAssumption DEF Owned, Same, Held
<1>3. Cardinality(Having(p, o)) = 0 <=> \A s \in SharedSlots : p[s] # o
  <2>1. IsFiniteSet(Having(p, o))
    BY SlotsFinite, FS_Subset DEF Having
  <2>2. Having(p, o) = {} <=> \A s \in SharedSlots : p[s] # o
    BY DEF Having
  <2> QED BY <2>1, <2>2, FS_EmptySet
<1>4. l[o] \in Lives /\ o # NoThing
  BY SharedPtrAssumption
<1>5. CASE l[o] = "live"
  BY <1>1, <1>2, <1>3, <1>4, <1>5 DEF Owned
<1>6. CASE l[o] \in DeathSteps
  BY <1>1, <1>2, <1>6 DEF Same, Held, DeathSteps
<1>7. CASE l[o] \in {"none", "dead"}
  <2>1. \A s \in SharedSlots : p[s] # o
    BY <1>7 DEF Owned
  <2>2. Held(l[o]) = 0
    BY <1>7 DEF Same, Held, DeathSteps
  <2> QED BY <1>2, <1>3, <1>7, <2>1, <2>2
<1> QED BY <1>4, <1>5, <1>6, <1>7 DEF Lives

-----------------------------------------------------------------------------
(* Shared pointers                                                         *)

\* A slot gets a value, of an object that lives or has just been made.
LEMMA AssignOwned ==
  ASSUME NEW p \in [SharedSlots -> Targets], NEW c \in [Things -> Int],
         NEW l \in [Things -> Lives], Owned(p, NoThing, c, l),
         NEW s \in SharedSlots, NEW x \in Targets, NEW m \in [Things -> Lives],
         \A o \in Things : o # x => m[o] = l[o],
         x \in Things => m[x] = "live" /\ l[x] \in {"none", "live"}
  PROVE  /\ [p EXCEPT ![s] = x] \in [SharedSlots -> Targets]
         /\ Owned([p EXCEPT ![s] = x], p[s], Counted(c, x, 1), m)
<1> DEFINE q == [p EXCEPT ![s] = x]
<1>1. q \in [SharedSlots -> Targets] /\ q[s] = x /\ \A r \in SharedSlots : r # s => q[r] = p[r]
  OBVIOUS
<1>0. Assigned(q, p, SharedSlots, s, x)
  BY <1>1 DEF Assigned
<1>2. ASSUME NEW o \in Things
      PROVE  Counted(c, x, 1)[o]
               = Cardinality(Having(q, o)) + Held(m[o]) + Same(o, p[s])
  <2>1. c[o] = Cardinality(Having(p, o)) + Held(l[o]) + Same(o, NoThing)
    BY DEF Owned
  <2>2. /\ Cardinality(Having(q, o)) = Cardinality(Having(p, o)) + Same(o, x) - Same(p[s], o)
        /\ Cardinality(Having(p, o)) \in Nat
    BY <1>0, SharedHaving
  <2>3. Counted(c, x, 1)[o] = c[o] + Same(o, x)
    BY CountedType
  <2>4. m[o] \in DeathSteps <=> l[o] \in DeathSteps
    BY DEF DeathSteps
  <2>5. /\ Held(m[o]) = Held(l[o]) /\ Same(o, NoThing) = 0
        /\ Same(p[s], o) = Same(o, p[s])
        /\ Held(l[o]) \in Int /\ Same(o, x) \in Int /\ Same(o, p[s]) \in Int
    BY <2>4, SharedPtrAssumption DEF Same, Held
  <2> HIDE DEF q
  <2> QED BY <2>1, <2>2, <2>3, <2>5
<1>3. ASSUME NEW r \in SharedSlots, NEW o \in Things, q[r] = o PROVE m[o] = "live"
  BY <1>1, <1>3 DEF Owned
<1>4. ASSUME NEW o \in Things, m[o] = "live"
      PROVE  o = p[s] \/ \E r \in SharedSlots : q[r] = o
  <2>1. CASE o = x
    BY <1>1, <2>1
  <2>2. CASE o # x
    <3>1. PICK r \in SharedSlots : p[r] = o
      BY <1>4, <2>2, SharedPtrAssumption DEF Owned
    <3> QED BY <1>1, <3>1
  <2> QED BY <2>1, <2>2
<1>5. p[s] \in Things => m[p[s]] = "live"
  BY DEF Owned
<1> HIDE DEF q
<1>6. Owned(q, p[s], Counted(c, x, 1), m)
  BY <1>2, <1>3, <1>4, <1>5 DEF Owned
<1> QED BY <1>1, <1>6 DEF q

LEMMA MoveOwned ==
  ASSUME NEW p \in [SharedSlots -> Targets], NEW c \in [Things -> Int],
         NEW l \in [Things -> Lives], Owned(p, NoThing, c, l),
         NEW from \in SharedSlots, NEW to \in SharedSlots, from # to
  PROVE  /\ [p EXCEPT ![to] = p[from], ![from] = NoThing] \in [SharedSlots -> Targets]
         /\ Owned([p EXCEPT ![to] = p[from], ![from] = NoThing], p[to], c, l)
<1> DEFINE q == [p EXCEPT ![to] = p[from]]
           r == [p EXCEPT ![to] = p[from], ![from] = NoThing]
<1>1. /\ r \in [SharedSlots -> Targets] /\ q \in [SharedSlots -> Targets]
      /\ NoThing \in Targets /\ p[from] \in Targets /\ q[from] = p[from]
      /\ r[to] = p[from] /\ r[from] = NoThing
      /\ \A s \in SharedSlots : s \notin {to, from} => r[s] = p[s]
  BY DEF Targets
<1>0. Assigned(q, p, SharedSlots, to, p[from]) /\ Assigned(r, q, SharedSlots, from, NoThing)
  BY <1>1 DEF Assigned
<1> HIDE DEF q, r
<1>2. ASSUME NEW o \in Things
      PROVE  c[o] = Cardinality(Having(r, o)) + Held(l[o]) + Same(o, p[to])
  <2>1. c[o] = Cardinality(Having(p, o)) + Held(l[o]) + Same(o, NoThing)
    BY DEF Owned
  <2>2. /\ Cardinality(Having(q, o))
             = Cardinality(Having(p, o)) + Same(o, p[from]) - Same(p[to], o)
        /\ Cardinality(Having(p, o)) \in Nat
    BY <1>0, SharedHaving
  <2>3. Cardinality(Having(r, o))
          = Cardinality(Having(q, o)) + Same(o, NoThing) - Same(q[from], o)
    BY <1>0, SharedHaving
  <2>4. /\ Same(o, NoThing) = 0 /\ Same(q[from], o) = Same(o, p[from])
        /\ Same(p[to], o) = Same(o, p[to])
        /\ Same(o, p[from]) \in Int /\ Same(o, p[to]) \in Int /\ Held(l[o]) \in Int
    BY <1>1, SharedPtrAssumption DEF Same, Held
  <2> QED BY <2>1, <2>2, <2>3, <2>4
<1>3. ASSUME NEW s \in SharedSlots, NEW o \in Things, r[s] = o PROVE l[o] = "live"
  BY <1>1, <1>3, SharedPtrAssumption DEF Owned
<1>4. ASSUME NEW o \in Things, l[o] = "live"
      PROVE  o = p[to] \/ \E s \in SharedSlots : r[s] = o
  <2>1. PICK s \in SharedSlots : p[s] = o
    BY <1>4, SharedPtrAssumption DEF Owned
  <2> QED BY <1>1, <2>1
<1>5. p[to] \in Things => l[p[to]] = "live"
  BY DEF Owned
<1>6. Owned(r, p[to], c, l)
  BY <1>2, <1>3, <1>4, <1>5 DEF Owned
<1> QED BY <1>1, <1>6 DEF r

LEMMA SwapOwned ==
  ASSUME NEW p \in [SharedSlots -> Targets], NEW c \in [Things -> Int],
         NEW l \in [Things -> Lives], Owned(p, NoThing, c, l),
         NEW a \in SharedSlots, NEW b \in SharedSlots, a # b
  PROVE  /\ [p EXCEPT ![a] = p[b], ![b] = p[a]] \in [SharedSlots -> Targets]
         /\ Owned([p EXCEPT ![a] = p[b], ![b] = p[a]], NoThing, c, l)
<1> DEFINE q == [p EXCEPT ![a] = p[b]]
           r == [p EXCEPT ![a] = p[b], ![b] = p[a]]
<1>1. /\ r \in [SharedSlots -> Targets] /\ q \in [SharedSlots -> Targets]
      /\ p[b] \in Targets /\ p[a] \in Targets /\ q[b] = p[b]
      /\ r[a] = p[b] /\ r[b] = p[a]
      /\ \A s \in SharedSlots : s \notin {a, b} => r[s] = p[s]
  OBVIOUS
<1>0. Assigned(q, p, SharedSlots, a, p[b]) /\ Assigned(r, q, SharedSlots, b, p[a])
  BY <1>1 DEF Assigned
<1> HIDE DEF q, r
<1>2. ASSUME NEW o \in Things
      PROVE  c[o] = Cardinality(Having(r, o)) + Held(l[o]) + Same(o, NoThing)
  <2>1. c[o] = Cardinality(Having(p, o)) + Held(l[o]) + Same(o, NoThing)
    BY DEF Owned
  <2>2. /\ Cardinality(Having(q, o))
             = Cardinality(Having(p, o)) + Same(o, p[b]) - Same(p[a], o)
        /\ Cardinality(Having(p, o)) \in Nat
    BY <1>0, SharedHaving
  <2>3. Cardinality(Having(r, o))
          = Cardinality(Having(q, o)) + Same(o, p[a]) - Same(q[b], o)
    BY <1>0, SharedHaving
  <2>4. /\ Same(q[b], o) = Same(o, p[b]) /\ Same(p[a], o) = Same(o, p[a])
        /\ Same(o, p[b]) \in Int /\ Same(o, p[a]) \in Int
    BY <1>1 DEF Same, Held
  <2> QED BY <2>1, <2>2, <2>3, <2>4
<1>3. ASSUME NEW s \in SharedSlots, NEW o \in Things, r[s] = o PROVE l[o] = "live"
  BY <1>1, <1>3 DEF Owned
<1>4. ASSUME NEW o \in Things, l[o] = "live" PROVE \E s \in SharedSlots : r[s] = o
  <2>1. PICK s \in SharedSlots : p[s] = o
    BY <1>4, SharedPtrAssumption DEF Owned
  <2> QED BY <1>1, <2>1
<1>6. Owned(r, NoThing, c, l)
  BY <1>2, <1>3, <1>4, SharedPtrAssumption DEF Owned
<1> QED BY <1>1, <1>6 DEF r

\* The value that left its slot is dropped: the last owner begins the destructor.
LEMMA DropSharedGoes ==
  ASSUME NEW p \in [SharedSlots -> Targets], NEW v \in Targets, NEW c \in [Things -> Int],
         NEW l \in [Things -> Lives], Owned(p, v, c, l), Stacked(dying, l),
         dying \in Seq(Things), DropShared(v, c, l)
  PROVE  /\ life' \in [Things -> Lives] /\ shared' \in [Things -> Int]
         /\ dying' \in Seq(Things)
         /\ Owned(p, NoThing, shared', life') /\ Stacked(dying', life')
         /\ \A o \in Things : life'[o] = l[o] \/ (l[o] = "live" /\ life'[o] = "body")
<1>1. CASE v = NoThing
  <2>1. life' = l /\ shared' = c /\ dying' = dying
    BY <1>1 DEF DropShared
  <2> QED BY <1>1, <2>1
<1>2. CASE v \in Things /\ c[v] = 1
  <2>1. life' = [l EXCEPT ![v] = "body"] /\ dying' = Append(dying, v) /\ shared' = c
    BY <1>2, SharedPtrAssumption DEF DropShared
  <2>2. l[v] = "live"
    BY <1>2 DEF Owned
  <2>3. \A s \in SharedSlots : p[s] # v
    <3>1. Held(l[v]) = 0 /\ Same(v, v) = 1
      BY <2>2 DEF Same, Held, DeathSteps
    <3>2. IsFiniteSet(Having(p, v)) /\ Cardinality(Having(p, v)) \in Nat
      BY SlotsFinite, FS_Subset, FS_CardinalityType DEF Having
    <3>3. Cardinality(Having(p, v)) = 0
      BY <1>2, <3>1, <3>2 DEF Owned
    <3>4. Having(p, v) = {}
      BY <3>2, <3>3, FS_EmptySet
    <3> QED BY <3>4 DEF Having
  <2>4. life' \in [Things -> Lives] /\ \A o \in Things : o # v => life'[o] = l[o]
    BY <2>1 DEF Lives, DeathSteps
  <2>5. life'[v] = "body"
    BY <1>2, <2>1
  <2>6. Owned(p, NoThing, shared', life')
    <3>1. ASSUME NEW o \in Things
          PROVE  shared'[o] = Cardinality(Having(p, o)) + Held(life'[o])
                                + Same(o, NoThing)
      <4>1. c[o] = Cardinality(Having(p, o)) + Held(l[o]) + Same(o, v)
        BY DEF Owned
      <4>2. /\ Cardinality(Having(p, o)) \in Nat /\ Same(o, NoThing) = 0
        <5>1. IsFiniteSet(Having(p, o))
          BY SlotsFinite, FS_Subset DEF Having
        <5> QED BY <5>1, FS_CardinalityType, SharedPtrAssumption DEF Same, Held
      <4>3. Held(life'[o]) = Held(l[o]) + Same(o, v)
        BY <2>2, <2>4, <2>5 DEF Same, Held, DeathSteps
      <4>4. Held(life'[o]) \in Int /\ Held(l[o]) \in Int
            /\ Same(o, v) \in Int
        BY DEF Same, Held
      <4> QED BY <2>1, <4>1, <4>2, <4>3, <4>4
    <3>2. \A s \in SharedSlots, o \in Things : p[s] = o => life'[o] = "live"
      BY <2>3, <2>4 DEF Owned
    <3>3. \A o \in Things : life'[o] = "live" => \E s \in SharedSlots : p[s] = o
      BY <2>4, <2>5 DEF Owned
    <3> QED BY <3>1, <3>2, <3>3, SharedPtrAssumption DEF Owned
  <2>7. /\ dying' \in Seq(Things) /\ Len(dying') = Len(dying) + 1 /\ Len(dying) \in Nat
        /\ \A i \in 1 .. Len(dying) : dying'[i] = dying[i]
        /\ dying'[Len(dying) + 1] = v
        /\ \A i \in 1 .. Len(dying') : i \in 1 .. Len(dying) \/ i = Len(dying) + 1
    BY <1>2, <2>1, AppendProperties, LenProperties
  <2>8. \A i \in 1 .. Len(dying) : dying[i] # v
    BY <1>2, <2>2 DEF Stacked, DeathSteps
  <2>9. Stacked(dying', life')
    <3>1. ASSUME NEW i \in 1 .. Len(dying'), NEW j \in 1 .. Len(dying'), dying'[i] = dying'[j]
          PROVE  i = j
      <4>1. CASE i \in 1 .. Len(dying) /\ j \in 1 .. Len(dying)
        BY <2>7, <3>1, <4>1 DEF Stacked
      <4>2. CASE i = Len(dying) + 1 \/ j = Len(dying) + 1
        BY <2>7, <2>8, <3>1, <4>2
      <4> QED BY <2>7, <4>1, <4>2
    <3>2. ASSUME NEW o \in Things
          PROVE  life'[o] \in DeathSteps <=> \E i \in 1 .. Len(dying') : dying'[i] = o
      <4>1. CASE o = v
        <5>1. Len(dying) + 1 \in 1 .. Len(dying')
          BY <2>7
        <5> QED BY <2>5, <2>7, <4>1, <5>1 DEF DeathSteps
      <4>2. CASE o # v
        <5>1. (\E i \in 1 .. Len(dying') : dying'[i] = o)
                <=> \E i \in 1 .. Len(dying) : dying[i] = o
          <6>1. \A i \in 1 .. Len(dying) : i \in 1 .. Len(dying')
            BY <2>7
          <6> QED BY <2>7, <4>2, <6>1
        <5> QED BY <2>4, <4>2, <5>1 DEF Stacked
      <4> QED BY <4>1, <4>2
    <3> QED BY <3>1, <3>2 DEF Stacked
  <2> QED BY <2>1, <2>2, <2>4, <2>5, <2>6, <2>7, <2>9
<1>3. CASE v \in Things /\ c[v] # 1
  <2>1. life' = l /\ dying' = dying /\ shared' = [c EXCEPT ![v] = @ - 1]
    BY <1>3, SharedPtrAssumption DEF DropShared
  <2>2. l[v] = "live" /\ shared' \in [Things -> Int]
    BY <1>3, <2>1 DEF Owned
  <2>3. \E s \in SharedSlots : p[s] = v
    <3>1. Held(l[v]) = 0 /\ Same(v, v) = 1
      BY <2>2 DEF Same, Held, DeathSteps
    <3>2. IsFiniteSet(Having(p, v)) /\ Cardinality(Having(p, v)) \in Nat
      BY SlotsFinite, FS_Subset, FS_CardinalityType DEF Having
    <3>3. Cardinality(Having(p, v)) # 0
      BY <1>3, <3>1, <3>2 DEF Owned
    <3>4. Having(p, v) # {}
      BY <3>2, <3>3, FS_EmptySet
    <3> QED BY <3>4 DEF Having
  <2>4. ASSUME NEW o \in Things
        PROVE  shared'[o] = Cardinality(Having(p, o)) + Held(life'[o])
                              + Same(o, NoThing)
    <3>1. c[o] = Cardinality(Having(p, o)) + Held(l[o]) + Same(o, v)
      BY DEF Owned
    <3>2. Cardinality(Having(p, o)) \in Nat /\ Same(o, NoThing) = 0
      <4>1. IsFiniteSet(Having(p, o))
        BY SlotsFinite, FS_Subset DEF Having
      <4> QED BY <4>1, FS_CardinalityType, SharedPtrAssumption DEF Same, Held
    <3>3. shared'[o] = c[o] - Same(o, v) /\ Same(o, v) \in Int /\ Held(l[o]) \in Int
      BY <1>3, <2>1 DEF Same, Held
    <3> QED BY <2>1, <3>1, <3>2, <3>3
  <2>5. Owned(p, NoThing, shared', life')
    BY <2>1, <2>3, <2>4, SharedPtrAssumption DEF Owned
  <2> QED BY <2>1, <2>2, <2>5
<1> QED BY <1>1, <1>2, <1>3 DEF Targets

-----------------------------------------------------------------------------
(* Weak pointers                                                           *)

LEMMA WatchedHas ==
  ASSUME NEW w \in [WeakSlots -> Targets], NEW c, Watched(w, NoThing, c),
         NEW s \in WeakSlots, w[s] \in Things
  PROVE  c[w[s]] \in Nat \ {0}
<1> DEFINE o == w[s]
<1>1. IsFiniteSet(Having(w, o)) /\ s \in Having(w, o)
  BY SlotsFinite, FS_Subset DEF Having
<1>2. Cardinality(Having(w, o)) \in Nat \ {0}
  BY <1>1, FS_EmptySet, FS_CardinalityType
<1>3. c[o] = Cardinality(Having(w, o)) + Same(o, NoThing) /\ Same(o, NoThing) = 0
  BY SharedPtrAssumption DEF Watched, Same
<1> HIDE DEF o
<1>4. c[o] \in Nat \ {0}
  BY <1>2, <1>3
<1> QED BY <1>4 DEF o

LEMMA AssignWatched ==
  ASSUME NEW w, NEW c \in [Things -> Int], Watched(w, NoThing, c),
         NEW s, NEW v, NEW u, Assigned(u, w, WeakSlots, s, v)
  PROVE  Watched(u, w[s], Counted(c, v, 1))
<1> SUFFICES ASSUME NEW o \in Things
             PROVE  Counted(c, v, 1)[o] = Cardinality(Having(u, o)) + Same(o, w[s])
  BY DEF Watched
<1>1. c[o] = Cardinality(Having(w, o)) + Same(o, NoThing)
  BY DEF Watched
<1>2. /\ Cardinality(Having(u, o)) = Cardinality(Having(w, o)) + Same(o, v) - Same(w[s], o)
      /\ Cardinality(Having(w, o)) \in Nat
  BY WeakHaving
<1>3. v \in Targets
  BY DEF Assigned
<1>4. Counted(c, v, 1)[o] = c[o] + Same(o, v)
  BY <1>3, CountedType
<1>5. /\ Same(o, NoThing) = 0 /\ Same(w[s], o) = Same(o, w[s])
      /\ Same(o, v) \in Int /\ Same(o, w[s]) \in Int
  BY SharedPtrAssumption DEF Same
<1> QED BY <1>1, <1>2, <1>4, <1>5

\* The last weak pointer takes the block with it, if the object is gone.
LEMMA DropWeakGoes ==
  ASSUME NEW w \in [WeakSlots -> Targets], NEW v \in Targets, NEW c \in [Things -> Int],
         NEW l \in [Things -> Lives], freed \subseteq Things,
         Watched(w, v, c), Blocks(l, c, freed, w),
         v \in Things => (shared[v] = 0 <=> l[v] \in {"none", "dead"}),
         DropWeak(v, c)
  PROVE  /\ weak' \in [Things -> Int] /\ freed' \subseteq Things
         /\ Watched(w, NoThing, weak') /\ Blocks(l, weak', freed', w)
<1>1. CASE v = NoThing
  <2>1. weak' = c /\ freed' = freed
    BY <1>1 DEF DropWeak
  <2> QED BY <1>1, <2>1
<1>2. CASE v \in Things
  <2>1. /\ weak' = [c EXCEPT ![v] = @ - 1]
        /\ freed' = IF c[v] = 1 /\ shared[v] = 0 THEN freed \cup {v} ELSE freed
    BY <1>2, SharedPtrAssumption DEF DropWeak
  <2>2. /\ weak' \in [Things -> Int] /\ weak'[v] = c[v] - 1
        /\ \A o \in Things : o # v => weak'[o] = c[o]
    BY <1>2, <2>1
  <2>3. ASSUME NEW o \in Things
        PROVE  weak'[o] = Cardinality(Having(w, o)) + Same(o, NoThing)
    <3>1. c[o] = Cardinality(Having(w, o)) + Same(o, v)
      BY DEF Watched
    <3>2. IsFiniteSet(Having(w, o)) /\ Cardinality(Having(w, o)) \in Nat
      BY SlotsFinite, FS_Subset, FS_CardinalityType DEF Having
    <3>3. weak'[o] = c[o] - Same(o, v) /\ Same(o, NoThing) = 0 /\ Same(o, v) \in Int
      BY <2>2, SharedPtrAssumption DEF Same
    <3> QED BY <3>1, <3>2, <3>3
  <2>4. Watched(w, NoThing, weak')
    BY <2>3 DEF Watched
  <2>5. c[v] \in Nat \ {0}
    <3>1. c[v] = Cardinality(Having(w, v)) + Same(v, v) /\ Same(v, v) = 1
      BY <1>2 DEF Watched, Same
    <3>2. IsFiniteSet(Having(w, v)) /\ Cardinality(Having(w, v)) \in Nat
      BY SlotsFinite, FS_Subset, FS_CardinalityType DEF Having
    <3> QED BY <3>1, <3>2
  <2>6. l[v] # "none" /\ v \notin freed
    BY <1>2, <2>5 DEF Blocks
  <2>7. \A o \in Things : o \in freed' <=> l[o] = "dead" /\ weak'[o] = 0
    <3>1. ASSUME NEW o \in Things, o # v PROVE o \in freed' <=> l[o] = "dead" /\ weak'[o] = 0
      BY <2>1, <2>2, <3>1 DEF Blocks
    <3>2. v \in freed' <=> c[v] = 1 /\ shared[v] = 0
      BY <2>1, <2>6
    <3>3. shared[v] = 0 <=> l[v] = "dead"
      BY <1>2, <2>6
    <3>4. c[v] = 1 <=> weak'[v] = 0
      BY <2>2, <2>5
    <3> QED BY <3>1, <3>2, <3>3, <3>4
  <2>8. Blocks(l, weak', freed', w)
    BY <2>2, <2>6, <2>7 DEF Blocks
  <2> QED BY <1>2, <2>1, <2>2, <2>4, <2>8
<1> QED BY <1>1, <1>2 DEF Targets

\* Blocks ask only whether an object was made and whether it is dead.
LEMMA BlocksKept ==
  ASSUME NEW l, NEW m, NEW c, NEW f, NEW w, Blocks(l, c, f, w),
         \A o \in Things : (m[o] = "dead" <=> l[o] = "dead") /\ (m[o] = "none" => l[o] = "none")
  PROVE  Blocks(m, c, f, w)
BY DEF Blocks

-----------------------------------------------------------------------------
(* The steps                                                               *)

\* What all assignments to shared pointers have in common.
LEMMA SharedStep ==
  ASSUME PtrInv, NEW p \in [SharedSlots -> Targets], NEW v \in Targets,
         NEW c \in [Things -> Int], NEW l \in [Things -> Lives],
         Owned(p, v, c, l), Stacked(dying, l), DropShared(v, c, l), ptr' = p,
         \A o \in Things : (l[o] = "dead" <=> life[o] = "dead")
                             /\ (l[o] = "none" => life[o] = "none"),
         UNCHANGED <<copies, wptr, weak, freed>>
  PROVE  PtrInv'
<1>0. dying \in Seq(Things)
  BY DEF PtrInv, PtrType
<1>1. /\ life' \in [Things -> Lives] /\ shared' \in [Things -> Int] /\ dying' \in Seq(Things)
      /\ Owned(p, NoThing, shared', life') /\ Stacked(dying', life')
      /\ \A o \in Things : life'[o] = l[o] \/ (l[o] = "live" /\ life'[o] = "body")
  BY <1>0, DropSharedGoes
<1>2. \A o \in Things : (life'[o] = "dead" <=> life[o] = "dead")
                          /\ (life'[o] = "none" => life[o] = "none")
  BY <1>1
<1>3. Blocks(life, weak, freed, wptr)
  BY DEF PtrInv
<1>4. Blocks(life', weak, freed, wptr)
  BY <1>2, <1>3, BlocksKept
<1>5. PtrType'
  BY <1>1 DEF PtrInv, PtrType
<1>6. Watched(wptr, NoThing, weak)
  BY DEF PtrInv
<1> QED BY <1>1, <1>4, <1>5, <1>6 DEF PtrInv

LEMMA MakeSharedInv ==
  ASSUME PtrInv, NEW s \in SharedSlots, NEW o \in Things, NEW esft \in BOOLEAN,
         MakeShared(s, o, esft)
  PROVE  PtrInv'
<1> DEFINE m == [life EXCEPT ![o] = "live"]
           p == [ptr EXCEPT ![s] = o]
           c == Counted(shared, o, 1)
           w == [wptr EXCEPT ![<<o, "this">>] = IF esft THEN o ELSE NoThing]
           n == IF esft THEN 1 ELSE 0
<1>0. PtrType /\ o \in Targets
  BY DEF PtrInv, Targets
<1>1. /\ life[o] = "none" /\ ptr' = p /\ DropShared(ptr[s], c, m) /\ wptr' = w
      /\ weak' = Counted(weak, o, n) /\ copies' = copies /\ freed' = freed
  BY DEF MakeShared
<1>2. m \in [Things -> Lives] /\ m[o] = "live" /\ \A q \in Things : q # o => m[q] = life[q]
  BY <1>0 DEF PtrType, Lives, DeathSteps
<1>3. p \in [SharedSlots -> Targets] /\ Owned(p, ptr[s], c, m)
  BY <1>0, <1>1, <1>2, AssignOwned DEF PtrInv, PtrType
<1>4. c \in [Things -> Int] /\ ptr[s] \in Targets /\ dying \in Seq(Things)
  BY <1>0, CountedType DEF PtrType
<1>5. Stacked(dying, m)
  BY <1>1, <1>2 DEF PtrInv, Stacked, DeathSteps
<1> HIDE DEF m, p, c
<1>6. /\ life' \in [Things -> Lives] /\ shared' \in [Things -> Int] /\ dying' \in Seq(Things)
      /\ Owned(p, NoThing, shared', life') /\ Stacked(dying', life')
      /\ \A q \in Things : life'[q] = m[q] \/ (m[q] = "live" /\ life'[q] = "body")
  BY <1>1, <1>2, <1>3, <1>4, <1>5, DropSharedGoes
<1>7. /\ wptr[<<o, "this">>] = NoThing /\ weak[o] = 0 /\ <<o, "this">> \in WeakSlots
      /\ o \notin freed
  BY <1>1, SlotsFinite DEF PtrInv, Blocks
<1>8. /\ w \in [WeakSlots -> Targets] /\ w[<<o, "this">>] = IF esft THEN o ELSE NoThing
      /\ \A r \in WeakSlots : r # <<o, "this">> => w[r] = wptr[r]
  BY <1>0, <1>7 DEF PtrType, Targets
<1>9. Assigned(w, wptr, WeakSlots, <<o, "this">>, IF esft THEN o ELSE NoThing)
  BY <1>0, <1>7, <1>8 DEF Assigned, PtrType, Targets
<1>10. weak' \in [Things -> Int] /\ \A q \in Things : weak'[q] = weak[q] + IF q = o THEN n ELSE 0
  BY <1>0, <1>1 DEF Counted, PtrType
<1> HIDE DEF w
<1>11. Watched(w, NoThing, weak')
  <2> SUFFICES ASSUME NEW q \in Things
               PROVE  weak'[q] = Cardinality(Having(w, q)) + Same(q, NoThing)
    BY DEF Watched
  <2>1. weak[q] = Cardinality(Having(wptr, q)) + Same(q, NoThing)
    BY DEF PtrInv, Watched
  <2>2. /\ Cardinality(Having(w, q)) = Cardinality(Having(wptr, q))
             + Same(q, IF esft THEN o ELSE NoThing) - Same(wptr[<<o, "this">>], q)
        /\ Cardinality(Having(wptr, q)) \in Nat
    BY <1>9, WeakHaving
  <2>3. /\ Same(wptr[<<o, "this">>], q) = 0 /\ Same(q, NoThing) = 0
        /\ Same(q, IF esft THEN o ELSE NoThing) = IF q = o THEN n ELSE 0
    BY <1>7, SharedPtrAssumption DEF Same
  <2>4. (IF q = o THEN n ELSE 0) \in Int
    OBVIOUS
  <2> QED BY <1>10, <2>1, <2>2, <2>3, <2>4
<1>12. Blocks(life', weak', freed, w)
  <2>1. \A q \in Things : q \in freed <=> life'[q] = "dead" /\ weak'[q] = 0
    <3>1. ASSUME NEW q \in Things, q # o PROVE q \in freed <=> life'[q] = "dead" /\ weak'[q] = 0
      <4>1. weak'[q] = weak[q]
        BY <1>0, <1>10, <3>1 DEF PtrType
      <4>2. life'[q] = "dead" <=> life[q] = "dead"
        BY <1>2, <1>6, <3>1
      <4> QED BY <4>1, <4>2 DEF PtrInv, Blocks
    <3>2. life'[o] # "dead"
      BY <1>2, <1>6
    <3> QED BY <1>7, <3>1, <3>2
  <2>2. ASSUME NEW q \in Things, life'[q] = "none"
        PROVE  weak'[q] = 0 /\ w[<<q, "this">>] = NoThing
    <3>1. q # o /\ life[q] = "none"
      BY <1>2, <1>6, <2>2
    <3>2. weak'[q] = weak[q] /\ weak[q] = 0 /\ wptr[<<q, "this">>] = NoThing
      BY <1>0, <1>10, <3>1 DEF PtrType, PtrInv, Blocks
    <3>3. <<q, "this">> \in WeakSlots /\ <<q, "this">> # <<o, "this">>
      BY <3>1, SlotsFinite
    <3> QED BY <1>8, <3>2, <3>3
  <2> QED BY <2>1, <2>2 DEF Blocks
<1>13. PtrType'
  BY <1>0, <1>1, <1>3, <1>6, <1>8, <1>10 DEF PtrType
<1> QED BY <1>1, <1>6, <1>11, <1>12, <1>13 DEF PtrInv

LEMMA MoveToInv ==
  ASSUME PtrInv, NEW from \in SharedSlots, NEW to \in SharedSlots, MoveTo(from, to)
  PROVE  PtrInv'
<1> DEFINE p == [ptr EXCEPT ![to] = ptr[from], ![from] = NoThing]
<1>0. /\ ptr \in [SharedSlots -> Targets] /\ shared \in [Things -> Int]
      /\ life \in [Things -> Lives] /\ Owned(ptr, NoThing, shared, life) /\ Stacked(dying, life)
  BY DEF PtrInv, PtrType
<1>1. CASE from = to
  <2>1. /\ copies' = copies /\ life' = life /\ ptr' = ptr /\ wptr' = wptr /\ shared' = shared
        /\ weak' = weak /\ freed' = freed /\ dying' = dying
    BY <1>1 DEF MoveTo
  <2> QED BY <2>1 DEF PtrInv, PtrType, Owned, Watched, Stacked, Blocks
<1>2. CASE from # to
  <2>1. /\ ptr' = p /\ DropShared(ptr[to], shared, life)
        /\ UNCHANGED <<copies, wptr, weak, freed>>
    BY <1>2 DEF MoveTo
  <2>2. p \in [SharedSlots -> Targets] /\ Owned(p, ptr[to], shared, life) /\ ptr[to] \in Targets
    BY <1>0, <1>2, MoveOwned
  <2> HIDE DEF p
  <2> QED BY <1>0, <2>1, <2>2, SharedStep
<1> QED BY <1>1, <1>2

\* A slot gets a value of an object that lives, or none.
LEMMA AssignShared ==
  ASSUME PtrInv, NEW s \in SharedSlots, NEW x \in Targets, x \in Things => life[x] = "live",
         ptr' = [ptr EXCEPT ![s] = x], DropShared(ptr[s], Counted(shared, x, 1), life),
         UNCHANGED <<copies, wptr, weak, freed>>
  PROVE  PtrInv'
<1> DEFINE p == [ptr EXCEPT ![s] = x]
           c == Counted(shared, x, 1)
<1>0. /\ ptr \in [SharedSlots -> Targets] /\ shared \in [Things -> Int]
      /\ life \in [Things -> Lives] /\ Owned(ptr, NoThing, shared, life) /\ Stacked(dying, life)
  BY DEF PtrInv, PtrType
<1>1. p \in [SharedSlots -> Targets] /\ Owned(p, ptr[s], c, life)
  BY <1>0, AssignOwned
<1>2. c \in [Things -> Int] /\ ptr[s] \in Targets
  BY <1>0, CountedType
<1>3. ptr' = p /\ DropShared(ptr[s], c, life)
  OBVIOUS
<1> HIDE DEF p, c
<1> QED BY <1>0, <1>1, <1>2, <1>3, SharedStep

LEMMA ResetSharedInv ==
  ASSUME PtrInv, NEW s \in SharedSlots, ResetShared(s)
  PROVE  PtrInv'
<1>1. NoThing \in Targets /\ NoThing \notin Things /\ shared \in [Things -> Int]
  BY SharedPtrAssumption DEF Targets, PtrInv, PtrType
<1>2. Counted(shared, NoThing, 1) = shared
  BY <1>1, CountedType
<1> QED BY <1>1, <1>2, AssignShared DEF ResetShared

LEMMA SwapSharedInv ==
  ASSUME PtrInv, NEW a \in SharedSlots, NEW b \in SharedSlots, SwapShared(a, b)
  PROVE  PtrInv'
<1> DEFINE p == [ptr EXCEPT ![a] = ptr[b], ![b] = ptr[a]]
<1>0. /\ ptr \in [SharedSlots -> Targets] /\ shared \in [Things -> Int]
      /\ life \in [Things -> Lives] /\ Owned(ptr, NoThing, shared, life)
  BY DEF PtrInv, PtrType
<1>1. /\ a # b /\ ptr' = p /\ copies' = copies /\ life' = life /\ wptr' = wptr
      /\ shared' = shared /\ weak' = weak /\ freed' = freed /\ dying' = dying
  BY DEF SwapShared
<1>2. p \in [SharedSlots -> Targets] /\ Owned(p, NoThing, shared, life)
  BY <1>0, <1>1, SwapOwned
<1> HIDE DEF p
<1>3. PtrType'
  BY <1>1, <1>2 DEF PtrInv, PtrType
<1>4. /\ Watched(wptr', NoThing, weak') /\ Stacked(dying', life')
      /\ Blocks(life', weak', freed', wptr')
  BY <1>1 DEF PtrInv
<1> QED BY <1>1, <1>2, <1>3, <1>4 DEF PtrInv

\* shared_ptr.h has neither of the two: what a cast or lock() returns is an owner more.
LEMMA CopyCastInv ==
  ASSUME PtrInv, NEW from \in SharedSlots, NEW to \in SharedSlots, CopyCast(from, to)
  PROVE  PtrInv'
<1>1. ptr[from] \in Targets /\ (ptr[from] \in Things => life[ptr[from]] = "live")
  BY DEF PtrInv, PtrType, Owned
<1> QED BY <1>1, AssignShared DEF CopyCast

LEMMA LockInv ==
  ASSUME PtrInv, NEW w \in WeakSlots, NEW to \in SharedSlots, Lock(w, to)
  PROVE  PtrInv'
<1> DEFINE o == IF Expired(w) THEN NoThing ELSE wptr[w]
<1>1. wptr[w] \in Targets /\ o \in Targets /\ NoThing \notin Things
  BY SharedPtrAssumption DEF PtrInv, PtrType, Targets
<1>2. o \in Things => life[o] = "live"
  BY <1>1 DEF Lock
<1>3. /\ ptr' = [ptr EXCEPT ![to] = o] /\ DropShared(ptr[to], Counted(shared, o, 1), life)
      /\ UNCHANGED <<copies, wptr, weak, freed>>
  BY DEF Lock
<1> HIDE DEF o
<1> QED BY <1>1, <1>2, <1>3, AssignShared

\* The object whose destructor runs is the last of the stack, and is there once.
LEMMA LastDying ==
  ASSUME PtrInv, dying # <<>>
  PROVE  /\ Last(dying) \in Things /\ Len(dying) \in Nat \ {0}
         /\ dying[Len(dying)] = Last(dying)
         /\ life[Last(dying)] \in DeathSteps
<1>1. dying \in Seq(Things) /\ Stacked(dying, life)
  BY DEF PtrInv, PtrType
<1>2. Len(dying) \in Nat \ {0} /\ dying[Len(dying)] \in Things
  <2>1. Len(dying) \in Nat /\ Len(dying) # 0
    BY <1>1, LenProperties, EmptySeq
  <2>2. Len(dying) \in 1 .. Len(dying)
    BY <2>1
  <2> QED BY <1>1, <2>1, <2>2, ElementOfSeq
<1>3. Last(dying) = dying[Len(dying)]
  BY DEF Last
<1>4. Len(dying) \in 1 .. Len(dying)
  BY <1>2
<1> QED BY <1>1, <1>2, <1>3, <1>4 DEF Stacked

LEMMA MemberDiesInv ==
  ASSUME PtrInv, MemberDies
  PROVE  PtrInv'
<1> DEFINE o == Last(dying)
           slot == <<o, "shared">>
           l == [life EXCEPT ![o] = "this"]
           p == [ptr EXCEPT ![slot] = NoThing]
           c == Counted(shared, NoThing, 1)
<1>0. /\ ptr \in [SharedSlots -> Targets] /\ shared \in [Things -> Int]
      /\ life \in [Things -> Lives] /\ Owned(ptr, NoThing, shared, life) /\ Stacked(dying, life)
  BY DEF PtrInv, PtrType
<1>1. o \in Things /\ life[o] = "shared" /\ slot \in SharedSlots
  BY LastDying, SlotsFinite DEF MemberDies, Dying
<1>2. /\ NoThing \in Targets /\ NoThing \notin Things /\ ptr[slot] \in Targets
      /\ c = shared
  <2>1. NoThing \in Targets
    BY DEF Targets
  <2> QED BY <1>0, <1>1, <2>1, SharedPtrAssumption, CountedType
<1>3. /\ ptr' = p /\ DropShared(ptr[slot], shared, l) /\ UNCHANGED <<copies, wptr, weak, freed>>
  BY DEF MemberDies
<1>4. l \in [Things -> Lives] /\ l[o] = "this" /\ \A q \in Things : q # o => l[q] = life[q]
  BY <1>0, <1>1 DEF Lives, DeathSteps
<1> HIDE DEF l, o, slot
<1>5. Owned(ptr, NoThing, shared, l)
  <2>1. \A q \in Things : Held(l[q]) = Held(life[q]) /\ (l[q] = "live" <=> life[q] = "live")
    BY <1>1, <1>4 DEF Held, DeathSteps
  <2> QED BY <1>0, <2>1, SharedPtrAssumption DEF Owned
<1>6. p \in [SharedSlots -> Targets] /\ Owned(p, ptr[slot], shared, l)
  <2>1. p \in [SharedSlots -> Targets] /\ Owned(p, ptr[slot], c, l)
    BY <1>0, <1>1, <1>2, <1>4, <1>5, AssignOwned
  <2> HIDE DEF c, p
  <2> QED BY <1>2, <2>1
<1>7. Stacked(dying, l)
  BY <1>0, <1>1, <1>4 DEF Stacked, DeathSteps
<1>8. \A q \in Things : (l[q] = "dead" <=> life[q] = "dead") /\ (l[q] = "none" => life[q] = "none")
  BY <1>1, <1>4
<1> HIDE DEF p, c
<1> QED BY <1>0, <1>2, <1>3, <1>4, <1>6, <1>7, <1>8, SharedStep

\* A weak pointer gets the block of an object that lives, or that it shares with another.
LEMMA AssignWeakInv ==
  ASSUME PtrInv, NEW to \in WeakSlots, \A o \in Things : to # <<o, "this">>,
         NEW v \in Targets, v \in Things => life[v] = "live" \/ weak[v] # 0,
         AssignWeak(to, v)
  PROVE  PtrInv'
<1> DEFINE u == [wptr EXCEPT ![to] = v]
           c == Counted(weak, v, 1)
<1>0. /\ wptr \in [WeakSlots -> Targets] /\ weak \in [Things -> Int] /\ freed \subseteq Things
      /\ life \in [Things -> Lives] /\ ptr \in [SharedSlots -> Targets]
      /\ shared \in [Things -> Int] /\ Watched(wptr, NoThing, weak)
      /\ Blocks(life, weak, freed, wptr) /\ Owned(ptr, NoThing, shared, life)
  BY DEF PtrInv, PtrType
<1>1. /\ wptr' = u /\ DropWeak(wptr[to], c) /\ copies' = copies /\ life' = life
      /\ ptr' = ptr /\ shared' = shared /\ dying' = dying
  BY DEF AssignWeak
<1>2. /\ u \in [WeakSlots -> Targets] /\ u[to] = v /\ \A r \in WeakSlots : r # to => u[r] = wptr[r]
      /\ wptr[to] \in Targets
  BY <1>0
<1>3. c \in [Things -> Int] /\ \A o \in Things : c[o] = weak[o] + Same(o, v)
  BY <1>0, CountedType
<1> HIDE DEF u, c
<1>4. Watched(u, wptr[to], c)
  <2>1. Assigned(u, wptr, WeakSlots, to, v)
    BY <1>0, <1>2 DEF Assigned
  <2> QED BY <1>0, <2>1, AssignWatched DEF c
<1>5. Blocks(life, c, freed, u)
  <2>1. \A o \in Things : o # v => c[o] = weak[o]
    BY <1>0, <1>3 DEF Same
  <2>2. v \in Things => c[v] = weak[v] + 1 /\ weak[v] \in Nat
    <3>1. ASSUME v \in Things PROVE weak[v] \in Nat
      <4>1. IsFiniteSet(Having(wptr, v)) /\ Cardinality(Having(wptr, v)) \in Nat
        BY <1>0, SlotsFinite, FS_Subset, FS_CardinalityType DEF Having
      <4>2. weak[v] = Cardinality(Having(wptr, v)) + Same(v, NoThing)
        BY <1>0, <3>1 DEF Watched
      <4> QED BY <4>1, <4>2 DEF Same
    <3> QED BY <1>3, <3>1 DEF Same
  <2>3. \A o \in Things : o \in freed <=> life[o] = "dead" /\ c[o] = 0
    <3>1. v \in Things => v \notin freed /\ (life[v] = "dead" => weak[v] # 0)
      BY <1>0 DEF Blocks
    <3> QED BY <1>0, <2>1, <2>2, <3>1 DEF Blocks
  <2>4. v \in Things => life[v] # "none"
    BY <1>0 DEF Blocks
  <2>5. ASSUME NEW o \in Things, life[o] = "none" PROVE c[o] = 0 /\ u[<<o, "this">>] = NoThing
    <3>1. weak[o] = 0 /\ wptr[<<o, "this">>] = NoThing /\ o # v
      BY <1>0, <2>4, <2>5 DEF Blocks
    <3>2. <<o, "this">> \in WeakSlots /\ <<o, "this">> # to
      BY SlotsFinite
    <3> QED BY <1>2, <2>1, <3>1, <3>2
  <2> QED BY <2>3, <2>5 DEF Blocks
<1>6. wptr[to] \in Things => (shared[wptr[to]] = 0 <=> life[wptr[to]] \in {"none", "dead"})
  BY <1>0, SharedZero
<1>7. /\ weak' \in [Things -> Int] /\ freed' \subseteq Things
      /\ Watched(u, NoThing, weak') /\ Blocks(life, weak', freed', u)
  BY <1>0, <1>1, <1>2, <1>3, <1>4, <1>5, <1>6, DropWeakGoes
<1>8. PtrType'
  BY <1>1, <1>2, <1>7 DEF PtrInv, PtrType
<1>9. Owned(ptr', NoThing, shared', life') /\ Stacked(dying', life')
  BY <1>1 DEF PtrInv
<1> QED BY <1>1, <1>7, <1>8, <1>9 DEF PtrInv

LEMMA NotThis ==
  ASSUME NEW to \in WeakReached, NEW q \in Things
  PROVE  to # <<q, "this">>
<1>1. to \in Watchers \cup {<<o, "weak">> : o \in Things}
  BY DEF WeakReached, Reached
<1>2. CASE to \in Watchers
  BY <1>2, SlotsFinite
<1>3. ASSUME NEW o \in Things, to = <<o, "weak">> PROVE to # <<q, "this">>
  BY <1>3
<1> QED BY <1>1, <1>2, <1>3

LEMMA WatchInv ==
  ASSUME PtrInv, NEW s \in SharedSlots, NEW to \in WeakSlots, Watch(s, to)
  PROVE  PtrInv'
<1>1. ptr[s] \in Targets /\ (ptr[s] \in Things => life[ptr[s]] = "live")
  BY DEF PtrInv, PtrType, Owned
<1>2. to \in WeakReached /\ AssignWeak(to, ptr[s])
  BY DEF Watch
<1> QED BY <1>1, <1>2, NotThis, AssignWeakInv

LEMMA CopyWeakInv ==
  ASSUME PtrInv, NEW w \in WeakSlots, NEW to \in WeakSlots, CopyWeak(w, to)
  PROVE  PtrInv'
<1>1. wptr \in [WeakSlots -> Targets] /\ Watched(wptr, NoThing, weak)
  BY DEF PtrInv, PtrType
<1>2. wptr[w] \in Targets /\ (wptr[w] \in Things => weak[wptr[w]] # 0)
  BY <1>1, WatchedHas
<1>3. to \in WeakReached /\ AssignWeak(to, wptr[w])
  BY DEF CopyWeak
<1> QED BY <1>2, <1>3, NotThis, AssignWeakInv

LEMMA ResetWeakInv ==
  ASSUME PtrInv, NEW to \in WeakSlots, ResetWeak(to)
  PROVE  PtrInv'
<1>1. NoThing \in Targets /\ NoThing \notin Things
  BY SharedPtrAssumption DEF Targets
<1>2. to \in WeakReached /\ AssignWeak(to, NoThing)
  BY DEF ResetWeak
<1> QED BY <1>1, <1>2, NotThis, AssignWeakInv

LEMMA BodyEndsInv ==
  ASSUME PtrInv, BodyEnds
  PROVE  PtrInv'
<1> DEFINE o == Last(dying)
<1>0. PtrType /\ o \in Things /\ life[o] = "body"
  BY LastDying DEF BodyEnds, Dying, PtrInv
<1>1. /\ life' = [life EXCEPT ![o] = "weak"] /\ copies' = copies /\ ptr' = ptr /\ wptr' = wptr
      /\ shared' = shared /\ weak' = weak /\ freed' = freed /\ dying' = dying
  BY DEF BodyEnds
<1> HIDE DEF o
<1>2. /\ life' \in [Things -> Lives] /\ life'[o] = "weak"
      /\ \A q \in Things : q # o => life'[q] = life[q]
  BY <1>0, <1>1 DEF PtrType, Lives, DeathSteps
<1>3. \A q \in Things : /\ Held(life'[q]) = Held(life[q])
                        /\ \A a \in {"none", "live", "dead"} : life'[q] = a <=> life[q] = a
                        /\ life'[q] \in DeathSteps <=> life[q] \in DeathSteps
  BY <1>0, <1>2 DEF Held, DeathSteps
<1>4. Owned(ptr, NoThing, shared, life') /\ Stacked(dying, life')
  BY <1>3, SharedPtrAssumption DEF PtrInv, Owned, Stacked
<1>5. Blocks(life', weak, freed, wptr)
  BY <1>3, BlocksKept DEF PtrInv
<1>6. PtrType'
  BY <1>0, <1>1, <1>2 DEF PtrType
<1> QED BY <1>1, <1>4, <1>5, <1>6 DEF PtrInv

LEMMA WeakDiesInv ==
  ASSUME PtrInv, NEW step \in DeathSteps, NEW slot \in {"weak", "this"}, NEW then \in DeathSteps,
         WeakDies(step, slot, then)
  PROVE  PtrInv'
<1> DEFINE o == Last(dying)
           s == <<o, slot>>
           u == [wptr EXCEPT ![s] = NoThing]
<1>0. /\ wptr \in [WeakSlots -> Targets] /\ weak \in [Things -> Int] /\ freed \subseteq Things
      /\ life \in [Things -> Lives] /\ ptr \in [SharedSlots -> Targets]
      /\ shared \in [Things -> Int] /\ Watched(wptr, NoThing, weak)
      /\ Blocks(life, weak, freed, wptr) /\ Owned(ptr, NoThing, shared, life)
  BY DEF PtrInv, PtrType
<1>1. o \in Things /\ life[o] = step /\ s \in WeakSlots
  BY LastDying, SlotsFinite DEF WeakDies, Dying
<1>2. /\ life' = [life EXCEPT ![o] = then] /\ wptr' = u /\ DropWeak(wptr[s], weak)
      /\ copies' = copies /\ ptr' = ptr /\ shared' = shared /\ dying' = dying
  BY DEF WeakDies
<1>3. /\ u \in [WeakSlots -> Targets] /\ u[s] = NoThing /\ wptr[s] \in Targets
      /\ \A r \in WeakSlots : r # s => u[r] = wptr[r]
      /\ NoThing \in Targets
  BY <1>0, <1>1 DEF Targets
<1> HIDE DEF u, s, o
<1>4. Watched(u, wptr[s], weak)
  <2>1. Assigned(u, wptr, WeakSlots, s, NoThing)
    BY <1>0, <1>1, <1>3 DEF Assigned
  <2>2. Counted(weak, NoThing, 1) = weak
    BY <1>0, <1>3, CountedType
  <2>3. Watched(u, wptr[s], Counted(weak, NoThing, 1))
    BY <1>0, <2>1, AssignWatched
  <2> QED BY <2>2, <2>3
<1>5. Blocks(life, weak, freed, u)
  <2>1. \A q \in Things : <<q, "this">> \in WeakSlots
    BY SlotsFinite
  <2> QED BY <1>0, <1>3, <2>1 DEF Blocks
<1>6. wptr[s] \in Things => (shared[wptr[s]] = 0 <=> life[wptr[s]] \in {"none", "dead"})
  BY <1>0, SharedZero
<1>7. /\ weak' \in [Things -> Int] /\ freed' \subseteq Things
      /\ Watched(u, NoThing, weak') /\ Blocks(life, weak', freed', u)
  BY <1>0, <1>2, <1>3, <1>4, <1>5, <1>6, DropWeakGoes
<1>8. /\ life' \in [Things -> Lives] /\ life'[o] = then
      /\ \A q \in Things : q # o => life'[q] = life[q]
  BY <1>0, <1>1, <1>2 DEF Lives
<1>9. \A q \in Things : /\ Held(life'[q]) = Held(life[q])
                        /\ \A a \in {"none", "live", "dead"} : life'[q] = a <=> life[q] = a
                        /\ life'[q] \in DeathSteps <=> life[q] \in DeathSteps
  BY <1>1, <1>8 DEF Held, DeathSteps
<1>10. Owned(ptr, NoThing, shared, life') /\ Stacked(dying, life')
  BY <1>9, SharedPtrAssumption DEF PtrInv, Owned, Stacked
<1>11. Blocks(life', weak', freed', u)
  BY <1>7, <1>9, BlocksKept
<1>12. PtrType'
  BY <1>2, <1>3, <1>7, <1>8 DEF PtrInv, PtrType
<1> QED BY <1>2, <1>7, <1>10, <1>11, <1>12 DEF PtrInv

LEMMA DeletedInv ==
  ASSUME PtrInv, Deleted
  PROVE  PtrInv'
<1> DEFINE o == Last(dying)
           n == Len(dying)
<1>0. /\ PtrType /\ o \in Things /\ life[o] = "block" /\ n \in Nat \ {0} /\ dying[n] = o
      /\ Stacked(dying, life) /\ Owned(ptr, NoThing, shared, life)
      /\ Blocks(life, weak, freed, wptr) /\ dying \in Seq(Things)
  BY LastDying DEF Deleted, Dying, PtrInv, PtrType
<1>1. /\ life' = [life EXCEPT ![o] = "dead"] /\ dying' = [i \in 1 .. n - 1 |-> dying[i]]
      /\ shared' = [shared EXCEPT ![o] = @ - 1]
      /\ freed' = IF weak[o] = 0 THEN freed \cup {o} ELSE freed
      /\ copies' = copies /\ ptr' = ptr /\ wptr' = wptr /\ weak' = weak
  BY DEF Deleted, Front
<1> HIDE DEF o
<1>2. /\ life' \in [Things -> Lives] /\ life'[o] = "dead"
      /\ \A q \in Things : q # o => life'[q] = life[q]
  BY <1>0, <1>1 DEF PtrType, Lives, DeathSteps
<1>3. /\ shared' \in [Things -> Int] /\ shared'[o] = shared[o] - 1
      /\ \A q \in Things : q # o => shared'[q] = shared[q]
  BY <1>0, <1>1 DEF PtrType
<1>4. dying' \in Seq(Things) /\ Len(dying') = n - 1
  <2>1. n - 1 \in Nat /\ \A i \in 1 .. n - 1 : dying[i] \in Things
    <3>1. \A i \in 1 .. n - 1 : i \in 1 .. Len(dying)
      BY <1>0
    <3> QED BY <1>0, <3>1, ElementOfSeq
  <2>2. dying' \in [1 .. n - 1 -> Things]
    BY <1>1, <2>1
  <2> QED BY <2>1, <2>2, SeqDef, LenProperties
<1>5. Stacked(dying', life')
  <2>1. \A i \in 1 .. n - 1 : i \in 1 .. n /\ dying'[i] = dying[i] /\ i # n
    BY <1>0, <1>1
  <2>2. n \in 1 .. n /\ \A i \in 1 .. n : i \in 1 .. n - 1 \/ i = n
    BY <1>0
  <2>3. \A i, j \in 1 .. Len(dying') : dying'[i] = dying'[j] => i = j
    BY <1>0, <1>4, <2>1 DEF Stacked
  <2>4. ASSUME NEW q \in Things
        PROVE  life'[q] \in DeathSteps <=> \E i \in 1 .. Len(dying') : dying'[i] = q
    <3>1. CASE q = o
      <4>1. \A i \in 1 .. n - 1 : dying'[i] # o
        BY <1>0, <2>1, <2>2 DEF Stacked
      <4> QED BY <1>2, <1>4, <3>1, <4>1 DEF DeathSteps
    <3>2. CASE q # o
      <4>1. life[q] \in DeathSteps <=> \E i \in 1 .. n : dying[i] = q
        BY <1>0 DEF Stacked
      <4>2. (\E i \in 1 .. n : dying[i] = q) <=> \E i \in 1 .. n - 1 : dying'[i] = q
        BY <1>0, <2>1, <2>2, <3>2
      <4> QED BY <1>2, <1>4, <3>2, <4>1, <4>2
    <3> QED BY <3>1, <3>2
  <2> QED BY <2>3, <2>4 DEF Stacked
<1>6. Owned(ptr, NoThing, shared', life')
  <2>1. ASSUME NEW q \in Things
        PROVE  shared'[q] = Cardinality(Having(ptr, q)) + Held(life'[q]) + Same(q, NoThing)
    <3>1. shared[q] = Cardinality(Having(ptr, q)) + Held(life[q]) + Same(q, NoThing)
      BY <1>0 DEF Owned
    <3>2. CASE q = o
      <4>1. Held(life[o]) = 1 /\ Held(life'[o]) = 0 /\ Same(o, NoThing) = 0
        BY <1>0, <1>2, SharedPtrAssumption DEF Held, DeathSteps, Same
      <4>2. IsFiniteSet(Having(ptr, o)) /\ Cardinality(Having(ptr, o)) \in Nat
        BY <1>0, SlotsFinite, FS_Subset, FS_CardinalityType DEF Having, PtrType
      <4> QED BY <1>3, <3>1, <3>2, <4>1, <4>2
    <3>3. CASE q # o
      BY <1>2, <1>3, <3>1, <3>3
    <3> QED BY <3>2, <3>3
  <2>2. \A q \in Things : life'[q] = "live" <=> life[q] = "live"
    BY <1>0, <1>2
  <2> QED BY <1>0, <2>1, <2>2, SharedPtrAssumption DEF Owned
<1>7. Blocks(life', weak, freed', wptr)
  <2>1. o \notin freed
    BY <1>0 DEF Blocks
  <2> QED BY <1>0, <1>1, <1>2, <2>1 DEF Blocks
<1>8. PtrType' /\ Watched(wptr', NoThing, weak')
  BY <1>0, <1>1, <1>2, <1>3, <1>4 DEF PtrType, PtrInv
<1> QED BY <1>1, <1>5, <1>6, <1>7, <1>8 DEF PtrInv

LEMMA PtrInvStep ==
  ASSUME PtrInv, [PtrNext]_ptrVars
  PROVE  PtrInv'
<1>1. ASSUME NEW s \in SharedSlots, NEW o \in Things, NEW esft \in BOOLEAN, MakeShared(s, o, esft)
      PROVE  PtrInv'
  BY <1>1, MakeSharedInv
<1>2. ASSUME NEW from \in SharedSlots, NEW to \in SharedSlots,
             MoveTo(from, to) \/ SwapShared(from, to) \/ CopyCast(from, to)
      PROVE  PtrInv'
  BY <1>2, MoveToInv, SwapSharedInv, CopyCastInv
<1>3. ASSUME NEW s \in SharedSlots, ResetShared(s) PROVE PtrInv'
  BY <1>3, ResetSharedInv
<1>4. ASSUME NEW w \in WeakSlots, NEW s \in SharedSlots, Lock(w, s) \/ Watch(s, w) PROVE PtrInv'
  BY <1>4, LockInv, WatchInv
<1>5. ASSUME NEW w \in WeakSlots, NEW to \in WeakSlots, CopyWeak(w, to) PROVE PtrInv'
  BY <1>5, CopyWeakInv
<1>6. ASSUME NEW w \in WeakSlots, ResetWeak(w) PROVE PtrInv'
  BY <1>6, ResetWeakInv
<1>7. CASE BodyEnds \/ MemberDies \/ Deleted
  BY <1>7, BodyEndsInv, MemberDiesInv, DeletedInv
<1>8. CASE WeakDies("weak", "weak", "shared") \/ WeakDies("this", "this", "block")
  BY <1>8, WeakDiesInv DEF DeathSteps
<1>9. CASE UNCHANGED ptrVars
  <2>1. /\ copies' = copies /\ life' = life /\ ptr' = ptr /\ wptr' = wptr /\ shared' = shared
        /\ weak' = weak /\ freed' = freed /\ dying' = dying
    BY <1>9 DEF ptrVars
  <2>2. PtrType'
    BY <2>1 DEF PtrInv, PtrType
  <2>3. /\ Owned(ptr', NoThing, shared', life') /\ Watched(wptr', NoThing, weak')
        /\ Stacked(dying', life') /\ Blocks(life', weak', freed', wptr')
    BY <2>1 DEF PtrInv
  <2> QED BY <2>2, <2>3 DEF PtrInv
<1> QED BY <1>1, <1>2, <1>3, <1>4, <1>5, <1>6, <1>7, <1>8, <1>9 DEF PtrNext

LEMMA PtrInitInv == PtrInit => PtrInv
<1> SUFFICES ASSUME PtrInit PROVE PtrInv
  OBVIOUS
<1>1. /\ copies \in BOOLEAN /\ life = [o \in Things |-> "none"] /\ dying = <<>> /\ freed = {}
      /\ ptr = [s \in SharedSlots |-> NoThing] /\ wptr = [s \in WeakSlots |-> NoThing]
      /\ shared = [o \in Things |-> 0] /\ weak = [o \in Things |-> 0]
  BY DEF PtrInit
<1>2. PtrType
  BY <1>1 DEF PtrType, Lives, Targets
<1>3. \A o \in Things : Having(ptr, o) = {} /\ Having(wptr, o) = {} /\ o # NoThing
  BY <1>1, SharedPtrAssumption DEF Having
<1>4. \A o \in Things : /\ Cardinality(Having(ptr, o)) = 0 /\ Cardinality(Having(wptr, o)) = 0
                        /\ Held(life[o]) = 0 /\ Same(o, NoThing) = 0
  BY <1>1, <1>3, FS_EmptySet DEF Held, Same, DeathSteps
<1>5. Owned(ptr, NoThing, shared, life)
  BY <1>1, <1>4, SharedPtrAssumption DEF Owned
<1>6. Watched(wptr, NoThing, weak)
  BY <1>1, <1>4 DEF Watched
<1>7. Stacked(dying, life)
  BY <1>1 DEF Stacked, DeathSteps
<1>8. Blocks(life, weak, freed, wptr)
  BY <1>1, SlotsFinite DEF Blocks
<1> QED BY <1>2, <1>5, <1>6, <1>7, <1>8 DEF PtrInv

-----------------------------------------------------------------------------
(* Theorems                                                                *)

\* The inductive invariant: the counts of a block with what a destructor keeps, the stack
\* of destructors, and the blocks that are left.
THEOREM PtrInvariant == PtrSpec => []PtrInv
<1> QED BY PtrInitInv, PtrInvStep, PTL DEF PtrSpec

\* ~shared_ptr, ~weak_ptr and the assignments: an object is destroyed once, after its last
\* owner, and its block deleted once, after its last weak pointer, whatever destructors do.
THEOREM PtrOwnersAgree == PtrSpec => []OwnersAgree
<1>1. PtrInv => OwnersAgree
  <2> SUFFICES ASSUME PtrInv, NEW o \in Things
               PROVE  /\ \A s \in SharedSlots : ptr[s] = o => life[o] = "live"
                      /\ shared[o] = Cardinality({s \in SharedSlots : ptr[s] = o})
                                     + Cardinality({i \in DOMAIN dying : dying[i] = o})
                      /\ weak[o] = Cardinality({w \in WeakSlots : wptr[w] = o})
                      /\ life[o] \in {"none", "dead"} <=> shared[o] = 0
                      /\ o \in freed <=> life[o] = "dead" /\ weak[o] = 0
    BY DEF OwnersAgree
  <2>1. PtrType /\ Owned(ptr, NoThing, shared, life) /\ Watched(wptr, NoThing, weak)
        /\ Stacked(dying, life) /\ Blocks(life, weak, freed, wptr)
    BY DEF PtrInv
  <2>2. \A s \in SharedSlots : ptr[s] = o => life[o] = "live"
    BY <2>1 DEF Owned
  <2>3. Cardinality({i \in DOMAIN dying : dying[i] = o}) = Held(life[o])
    <3>1. DOMAIN dying = 1 .. Len(dying)
      BY <2>1, LenProperties DEF PtrType
    <3>2. CASE life[o] \in DeathSteps
      <4>1. PICK i \in 1 .. Len(dying) : dying[i] = o
        BY <2>1, <3>2 DEF Stacked
      <4>2. {j \in DOMAIN dying : dying[j] = o} = {i}
        BY <2>1, <3>1, <4>1 DEF Stacked
      <4> QED BY <3>2, <4>2, FS_Singleton DEF Held
    <3>3. CASE life[o] \notin DeathSteps
      <4>1. {j \in DOMAIN dying : dying[j] = o} = {}
        BY <2>1, <3>1, <3>3 DEF Stacked
      <4> QED BY <3>3, <4>1, FS_EmptySet DEF Held
    <3> QED BY <3>2, <3>3
  <2>4. /\ Having(ptr, o) = {s \in SharedSlots : ptr[s] = o}
        /\ Having(wptr, o) = {w \in WeakSlots : wptr[w] = o}
    BY <2>1 DEF Having, PtrType
  <2>5. /\ Cardinality(Having(ptr, o)) \in Nat /\ Cardinality(Having(wptr, o)) \in Nat
        /\ Same(o, NoThing) = 0 /\ Held(life[o]) \in {0, 1}
    <3>1. IsFiniteSet(Having(ptr, o)) /\ IsFiniteSet(Having(wptr, o))
      BY <2>4, SlotsFinite, FS_Subset
    <3> QED BY <3>1, FS_CardinalityType, SharedPtrAssumption DEF Same, Held
  <2>6. /\ shared[o] = Cardinality(Having(ptr, o)) + Held(life[o])
        /\ weak[o] = Cardinality(Having(wptr, o))
    <3>1. /\ shared[o] = Cardinality(Having(ptr, o)) + Held(life[o]) + Same(o, NoThing)
          /\ weak[o] = Cardinality(Having(wptr, o)) + Same(o, NoThing)
      BY <2>1 DEF Owned, Watched
    <3> QED BY <2>5, <3>1
  <2>7. life[o] \in {"none", "dead"} <=> shared[o] = 0
    BY ZenonT(60), <2>1, SharedZero DEF PtrType
  <2>8. o \in freed <=> life[o] = "dead" /\ weak[o] = 0
    BY <2>1 DEF Blocks
  <2> QED BY <2>2, <2>3, <2>4, <2>6, <2>7, <2>8
<1> QED BY <1>1, PtrInvariant, PTL

-----------------------------------------------------------------------------
(* NetBuffer                                                               *)

\* A buffer: its indices are in order and within the memory, which a buffer
\* that was emptied begins in.
Buf(b) ==
  /\ b \in [mem : Seq(Nat), r : Nat, w : Nat]
  /\ b.r <= b.w /\ b.w <= Len(b.mem) /\ CheapPrepend <= Len(b.mem)

BufInv ==
  /\ Buf(nb) /\ Content(nb) = content
  /\ content \in Seq(Nat) /\ next \in Nat

LEMMA ContentType ==
  ASSUME NEW b, Buf(b)
  PROVE  /\ Content(b) \in Seq(Nat) /\ Len(Content(b)) = b.w - b.r
         /\ \A i \in 1 .. b.w - b.r : Content(b)[i] = b.mem[b.r + i]
<1>1. \A i \in b.r + 1 .. b.w : b.mem[i] \in Nat
  BY DEF Buf
<1>2. b.r + 1 \in Int /\ b.w \in Int /\ b.r \in Nat /\ b.w \in Nat /\ b.r <= b.w
  BY DEF Buf
<1>3. /\ Content(b) \in Seq(Nat)
      /\ Len(Content(b)) = IF b.r + 1 <= b.w THEN b.w - (b.r + 1) + 1 ELSE 0
      /\ \A i \in 1 .. b.w - (b.r + 1) + 1 : Content(b)[i] = b.mem[b.r + 1 + i - 1]
  BY <1>1, <1>2, SubSeqProperties DEF Content
<1>4. \A i \in 1 .. b.w - b.r : b.r + 1 + i - 1 = b.r + i /\ i \in 1 .. b.w - (b.r + 1) + 1
  BY <1>2
<1> QED BY SMTT(30), <1>2, <1>3, <1>4

\* What the content of a buffer is, entry by entry.
LEMMA ContentIs ==
  ASSUME NEW b, Buf(b), NEW c \in Seq(Nat), Len(c) = b.w - b.r,
         \A i \in 1 .. Len(c) : c[i] = b.mem[b.r + i]
  PROVE  Content(b) = c
BY ZenonT(60), ContentType, SeqEqual

LEMMA WriteType ==
  ASSUME NEW mem \in Seq(Nat), NEW i \in Nat, NEW s \in Seq(Nat)
  PROVE  /\ Write(mem, i, s) \in Seq(Nat) /\ Len(Write(mem, i, s)) = Len(mem)
         /\ \A k \in 1 .. Len(mem) :
              Write(mem, i, s)[k] = IF k - i \in 1 .. Len(s) THEN s[k - i] ELSE mem[k]
<1> DEFINE f == Write(mem, i, s)
<1>1. f = [k \in 1 .. Len(mem) |-> IF k - i \in 1 .. Len(s) THEN s[k - i] ELSE mem[k]]
  BY DEF Write
<1>2. \A k \in 1 .. Len(mem) : f[k] \in Nat
  <2>1. TAKE k \in 1 .. Len(mem)
  <2>2. k - i \in 1 .. Len(s) => s[k - i] \in Nat
    OBVIOUS
  <2>3. mem[k] \in Nat
    OBVIOUS
  <2> QED BY <1>1, <2>2, <2>3
<1>3. f \in [1 .. Len(mem) -> Nat] /\ Len(mem) \in Nat
  BY <1>1, <1>2
<1> QED BY SMTT(30), <1>1, <1>3

LEMMA ZerosType ==
  ASSUME NEW n \in Nat
  PROVE  Zeros(n) \in Seq(Nat) /\ Len(Zeros(n)) = n
<1>1. Zeros(n) \in [1 .. n -> Nat]
  BY DEF Zeros
<1> QED BY <1>1 DEF Zeros

LEMMA NewBufferType ==
  ASSUME NEW size \in Nat
  PROVE  Buf(NewBuffer(size)) /\ Content(NewBuffer(size)) = <<>>
<1>1. Buf(NewBuffer(size))
  BY ZerosType, NetBufferAssumption DEF NewBuffer, Buf
<1>2. NewBuffer(size).w - NewBuffer(size).r = 0
  BY NetBufferAssumption DEF NewBuffer
<1> DEFINE c == <<>>
           b == NewBuffer(size)
<1>3. c \in Seq(Nat) /\ Len(c) = 0 /\ \A i \in 1 .. Len(c) : c[i] = b.mem[b.r + i]
  OBVIOUS
<1> HIDE DEF c, b
<1>4. Content(b) = c
  BY <1>1, <1>2, <1>3, ContentIs DEF b
<1> QED BY <1>1, <1>4 DEF b, c

\* makeSpace keeps the content and makes the space.
LEMMA MakeSpaceKeeps ==
  ASSUME NEW b, Buf(b), NEW len \in Nat
  PROVE  /\ Buf(MakeSpace(b, len)) /\ Content(MakeSpace(b, len)) = Content(b)
         /\ Writable(MakeSpace(b, len)) >= len
<1> DEFINE v == MakeSpace(b, len)
<1>0. /\ b.mem \in Seq(Nat) /\ b.r \in Nat /\ b.w \in Nat /\ CheapPrepend \in Nat
      /\ Len(b.mem) \in Nat
  BY NetBufferAssumption DEF Buf
<1>1. CASE Writable(b) >= len
  BY <1>1 DEF MakeSpace
<1>2. CASE Writable(b) < len /\ Writable(b) + b.r < len + CheapPrepend
  <2> DEFINE z == Zeros(b.w + len - Len(b.mem))
  <2>1. v = [b EXCEPT !.mem = @ \o z]
    BY <1>0, <1>2 DEF MakeSpace, Writable, MemSize
  <2>2. z \in Seq(Nat) /\ Len(z) = b.w + len - Len(b.mem)
    <3>1. b.w + len - Len(b.mem) \in Nat
      BY <1>0, <1>2 DEF Writable, MemSize
    <3> QED BY <3>1, ZerosType
  <2> HIDE DEF z
  <2>3. /\ b.mem \o z \in Seq(Nat) /\ Len(b.mem \o z) = b.w + len
        /\ \A i \in 1 .. Len(b.mem) : (b.mem \o z)[i] = b.mem[i]
    <3>1. /\ b.mem \o z \in Seq(Nat) /\ Len(b.mem \o z) = Len(b.mem) + Len(z)
          /\ \A i \in 1 .. Len(b.mem) + Len(z) :
               (b.mem \o z)[i] = IF i <= Len(b.mem) THEN b.mem[i] ELSE z[i - Len(b.mem)]
      BY <1>0, <2>2, ConcatProperties
    <3>2. Len(b.mem) + Len(z) = b.w + len /\ Len(z) \in Nat
      BY <1>0, <2>2
    <3>3. \A i \in 1 .. Len(b.mem) : i <= Len(b.mem) /\ i \in 1 .. Len(b.mem) + Len(z)
      BY <1>0, <3>2
    <3> QED BY <3>1, <3>2, <3>3
  <2>4. /\ v \in [mem : Seq(Nat), r : Nat, w : Nat]
        /\ v.mem = b.mem \o z /\ v.r = b.r /\ v.w = b.w
    BY <2>1, <2>3 DEF Buf
  <2>5. Buf(v)
    BY SMTT(30), <1>0, <1>2, <2>3, <2>4 DEF Buf, Writable, MemSize
  <2>6. Content(v) = Content(b)
    <3>1. \A i \in 1 .. b.w - b.r : b.r + i \in 1 .. Len(b.mem)
      BY <1>0 DEF Buf
    <3> HIDE DEF v
    <3>2. \A i \in 1 .. b.w - b.r : Content(b)[i] = v.mem[v.r + i]
      BY <2>3, <2>4, <3>1, ContentType
    <3>3. Content(b) \in Seq(Nat) /\ Len(Content(b)) = v.w - v.r
      BY <2>4, ContentType
    <3> QED BY <2>4, <2>5, <3>2, <3>3, ContentIs
  <2> QED BY <1>0, <2>3, <2>4, <2>5, <2>6 DEF Writable, MemSize
<1>3. CASE Writable(b) < len /\ ~(Writable(b) + b.r < len + CheapPrepend)
  <2>1. v = [mem |-> Write(b.mem, CheapPrepend, Content(b)),
             r |-> CheapPrepend, w |-> CheapPrepend + Readable(b)]
    BY <1>0, <1>3 DEF MakeSpace, Writable, MemSize
  <2>2. Content(b) \in Seq(Nat) /\ Len(Content(b)) = b.w - b.r
    BY ContentType
  <2>3. /\ v.mem \in Seq(Nat) /\ Len(v.mem) = Len(b.mem)
        /\ \A k \in 1 .. Len(b.mem) :
             v.mem[k] = IF k - CheapPrepend \in 1 .. Len(Content(b))
                        THEN Content(b)[k - CheapPrepend] ELSE b.mem[k]
    <3>1. v.mem = Write(b.mem, CheapPrepend, Content(b))
      BY <2>1
    <3>2. LET m == Write(b.mem, CheapPrepend, Content(b))
          IN  /\ m \in Seq(Nat) /\ Len(m) = Len(b.mem)
              /\ \A k \in 1 .. Len(b.mem) :
                   m[k] = IF k - CheapPrepend \in 1 .. Len(Content(b))
                          THEN Content(b)[k - CheapPrepend] ELSE b.mem[k]
      BY ZenonT(60), <1>0, <2>2, WriteType
    <3> HIDE DEF v
    <3> QED BY <3>1, <3>2
  <2>4. v.r = CheapPrepend /\ v.w = CheapPrepend + (b.w - b.r)
    BY <2>1 DEF Readable
  <2>5. v \in [mem : Seq(Nat), r : Nat, w : Nat] /\ v.w + len <= Len(v.mem) /\ v.r <= v.w
    <3>1. v.r \in Nat /\ v.w \in Nat /\ v.r <= v.w
      BY <1>0, <2>4 DEF Buf
    <3>2. v.w + len <= Len(v.mem)
      BY <1>0, <1>3, <2>3, <2>4 DEF Writable, MemSize
    <3> QED BY <2>1, <2>3, <3>1, <3>2
  <2>6. Buf(v)
    BY <1>0, <2>3, <2>4, <2>5 DEF Buf
  <2> HIDE DEF v
  <2>7. Content(v) = Content(b)
    <3>1. \A i \in 1 .. Len(Content(b)) : Content(b)[i] = v.mem[v.r + i]
      <4>1. TAKE i \in 1 .. Len(Content(b))
      <4> DEFINE k == v.r + i
      <4>2. k \in 1 .. Len(b.mem) /\ k - CheapPrepend = i
        <5>1. i \in Nat /\ 1 <= i /\ i <= b.w - b.r
          BY <2>2
        <5>2. k = CheapPrepend + i
          BY <2>4
        <5>3. CheapPrepend + (b.w - b.r) + len <= Len(b.mem)
          BY <2>3, <2>4, <2>5
        <5> HIDE DEF k
        <5> QED BY <1>0, <5>1, <5>2, <5>3
      <4> HIDE DEF k
      <4>3. v.mem[k] = IF k - CheapPrepend \in 1 .. Len(Content(b))
                       THEN Content(b)[k - CheapPrepend] ELSE b.mem[k]
        BY <2>3, <4>2
      <4> QED BY <4>2, <4>3 DEF k
    <3>2. v.w - v.r = b.w - b.r
      BY <1>0, <2>4
    <3> QED BY <2>2, <2>6, <3>1, <3>2, ContentIs
  <2> QED BY <1>0, <2>4, <2>5, <2>6, <2>7 DEF Writable, MemSize, v
<1>4. Writable(b) \in Int
  BY <1>0 DEF Writable, MemSize
<1> QED BY <1>1, <1>2, <1>3, <1>4

\* Bytes written behind the content, within the memory.
LEMMA PutsBehind ==
  ASSUME NEW v, Buf(v), NEW s \in Seq(Nat), v.w + Len(s) <= Len(v.mem), NEW u,
         u = [mem |-> Write(v.mem, v.w, s), r |-> v.r, w |-> v.w + Len(s)]
  PROVE  Buf(u) /\ Content(u) = Content(v) \o s
<1>0. /\ v.mem \in Seq(Nat) /\ v.r \in Nat /\ v.w \in Nat /\ v.r <= v.w
      /\ Len(s) \in Nat /\ Len(v.mem) \in Nat
  BY DEF Buf
<1>1. LET m == Write(v.mem, v.w, s)
      IN  /\ m \in Seq(Nat) /\ Len(m) = Len(v.mem)
          /\ \A k \in 1 .. Len(v.mem) :
               m[k] = IF k - v.w \in 1 .. Len(s) THEN s[k - v.w] ELSE v.mem[k]
  BY ZenonT(60), <1>0, WriteType
<1>2. Buf(u)
  BY <1>0, <1>1 DEF Buf
<1>3. /\ Content(v) \in Seq(Nat) /\ Len(Content(v)) = v.w - v.r
      /\ \A i \in 1 .. v.w - v.r : Content(v)[i] = v.mem[v.r + i]
  BY ContentType
<1>4. LET c == Content(v) \o s
      IN  /\ c \in Seq(Nat) /\ Len(c) = Len(Content(v)) + Len(s)
          /\ \A i \in 1 .. Len(Content(v)) + Len(s) :
               c[i] = IF i <= Len(Content(v)) THEN Content(v)[i] ELSE s[i - Len(Content(v))]
  BY <1>3, ConcatProperties
<1>5. /\ u.r = v.r /\ u.w - u.r = v.w - v.r + Len(s)
      /\ \A k \in 1 .. Len(v.mem) :
           u.mem[k] = IF k - v.w \in 1 .. Len(s) THEN s[k - v.w] ELSE v.mem[k]
  BY <1>0, <1>1
<1> DEFINE c == Content(v) \o s
<1>6. ASSUME NEW i \in 1 .. Len(c) PROVE c[i] = u.mem[u.r + i]
  <2> DEFINE k == v.r + i
  <2>1. /\ i \in Nat /\ 1 <= i /\ i <= v.w - v.r + Len(s)
        /\ c[i] = IF i <= v.w - v.r THEN Content(v)[i] ELSE s[i - (v.w - v.r)]
    BY <1>0, <1>3, <1>4
  <2>2. k \in 1 .. Len(v.mem) /\ u.r + i = k
    <3>1. u.r = v.r /\ i \in Nat /\ 1 <= i /\ i <= v.w - v.r + Len(s)
      BY <1>5, <2>1
    <3>2. \A r, w, n, m, j \in Nat :
            1 <= j /\ j <= w - r + n /\ w + n <= m => r + j \in 1 .. m
      OBVIOUS
    <3>3. v.r + i \in 1 .. Len(v.mem)
      BY <1>0, <3>1, <3>2
    <3> QED BY <3>1, <3>3
  <2>3. u.mem[k] = IF k - v.w \in 1 .. Len(s) THEN s[k - v.w] ELSE v.mem[k]
    BY <1>5, <2>2
  <2>4. CASE i <= v.w - v.r
    <3>1. ~(k - v.w \in 1 .. Len(s)) /\ i \in 1 .. v.w - v.r
      BY SMTT(30), <1>0, <2>1, <2>4
    <3> HIDE DEF c, k
    <3> QED BY <1>3, <2>1, <2>2, <2>3, <2>4, <3>1 DEF k
  <2>5. CASE ~(i <= v.w - v.r)
    <3>0. i \in Nat /\ i <= v.w - v.r + Len(s)
      BY <2>1
    <3> HIDE DEF c
    <3>1. k - v.w \in 1 .. Len(s) /\ k - v.w = i - (v.w - v.r)
      BY SMTT(30), <1>0, <2>5, <3>0
    <3> HIDE DEF k
    <3> QED BY <2>1, <2>2, <2>3, <2>5, <3>1
  <2> QED BY <2>4, <2>5
<1>7. c \in Seq(Nat) /\ Len(c) = u.w - u.r
  BY <1>3, <1>4, <1>5
<1> HIDE DEF c
<1>8. Content(u) = c
  BY <1>2, <1>6, <1>7, ContentIs
<1> QED BY <1>2, <1>8 DEF c

LEMMA AppendKeeps ==
  ASSUME NEW b, Buf(b), NEW s \in Seq(Nat)
  PROVE  Buf(AppendBytes(b, s)) /\ Content(AppendBytes(b, s)) = Content(b) \o s
<1> DEFINE v == MakeSpace(b, Len(s))
<1>1. Len(s) \in Nat
  OBVIOUS
<1>2. Buf(v) /\ Content(v) = Content(b) /\ Writable(v) >= Len(s)
  BY <1>1, MakeSpaceKeeps
<1>3. AppendBytes(b, s) = [v EXCEPT !.mem = Write(@, v.w, s), !.w = @ + Len(s)]
  BY DEF AppendBytes
<1> HIDE DEF v
<1>4. AppendBytes(b, s) = [mem |-> Write(v.mem, v.w, s), r |-> v.r, w |-> v.w + Len(s)]
  BY <1>2, <1>3 DEF Buf
<1>5. v.w + Len(s) <= Len(v.mem)
  <2>1. v.w \in Nat /\ Len(v.mem) \in Nat
    BY <1>2 DEF Buf
  <2> QED BY <1>1, <1>2, <2>1 DEF Writable, MemSize
<1> QED BY <1>2, <1>4, <1>5, PutsBehind

\* Bytes written in front of the content, which lies at i or is written there first.
LEMMA PutsBefore ==
  ASSUME NEW v, Buf(v), NEW s \in Seq(Nat), NEW i \in Nat, NEW mem \in Seq(Nat),
         Len(mem) = Len(v.mem), Len(s) <= i, i + (v.w - v.r) <= Len(mem),
         \A k \in 1 .. v.w - v.r : mem[i + k] = v.mem[v.r + k], NEW u,
         u = [mem |-> Write(mem, i - Len(s), s), r |-> i - Len(s), w |-> i + (v.w - v.r)]
  PROVE  Buf(u) /\ Content(u) = s \o Content(v)
<1> DEFINE n == v.w - v.r
           m == Len(s)
           at == i - m
<1>0. /\ v.r \in Nat /\ v.w \in Nat /\ n \in Nat /\ m \in Nat /\ at \in Nat
      /\ Len(mem) \in Nat /\ i + n <= Len(mem) /\ i = at + m /\ CheapPrepend <= Len(mem)
      /\ i + n \in Nat /\ at <= i + n /\ (i + n) - at = m + n
  <2>1. v.r \in Nat /\ v.w \in Nat /\ v.r <= v.w /\ CheapPrepend <= Len(v.mem)
    BY DEF Buf
  <2>2. m \in Nat /\ m <= i /\ Len(mem) \in Nat /\ i + n <= Len(mem) /\ i \in Nat
    BY LenProperties
  <2>3. n \in Nat /\ CheapPrepend <= Len(mem)
    BY <2>1
  <2> HIDE DEF m, n
  <2>4. at \in Nat /\ i = at + m
    BY ONLY <2>2 DEF at
  <2> HIDE DEF at
  <2>5. i + n \in Nat /\ at <= i + n /\ (i + n) - at = m + n
    BY ONLY <2>2, <2>3, <2>4
  <2> QED BY ONLY <2>1, <2>2, <2>3, <2>4, <2>5
<1>1. LET x == Write(mem, at, s)
      IN  /\ x \in Seq(Nat) /\ Len(x) = Len(mem)
          /\ \A k \in 1 .. Len(mem) :
               x[k] = IF k - at \in 1 .. Len(s) THEN s[k - at] ELSE mem[k]
  BY ZenonT(60), <1>0, WriteType
<1>2. /\ u.r = at /\ u.w = i + n /\ u.mem \in Seq(Nat) /\ Len(u.mem) = Len(mem)
      /\ \A k \in 1 .. Len(mem) :
           u.mem[k] = IF k - at \in 1 .. m THEN s[k - at] ELSE mem[k]
  BY <1>1
<1>3. Buf(u)
  <2>1. u.w \in Nat /\ u.r <= u.w /\ u.w <= Len(u.mem)
    <3> HIDE DEF n, m, at
    <3>1. u.w = i + n /\ u.r = at /\ Len(u.mem) = Len(mem)
      BY <1>2
    <3> QED BY ONLY <1>0, <3>1
  <2> QED BY <1>0, <1>2, <2>1 DEF Buf
<1>4. /\ Content(v) \in Seq(Nat) /\ Len(Content(v)) = n
      /\ \A k \in 1 .. n : Content(v)[k] = v.mem[v.r + k]
  BY ContentType
<1> DEFINE c == s \o Content(v)
<1>5. /\ c \in Seq(Nat) /\ Len(c) = m + n
      /\ \A k \in 1 .. m + n : c[k] = IF k <= m THEN s[k] ELSE Content(v)[k - m]
  BY <1>4, ConcatProperties
<1>6. \A k \in 1 .. n : mem[i + k] = Content(v)[k]
  BY <1>4
<1> HIDE DEF n, m, at, c
<1>7. u.w - u.r = m + n
  <2>1. u.w = i + n /\ u.r = at
    BY <1>2
  <2> QED BY ONLY <1>0, <2>1
<1>8. ASSUME NEW j \in 1 .. Len(c) PROVE c[j] = u.mem[u.r + j]
  <2> DEFINE k == at + j
  <2>1. j \in 1 .. m + n /\ j \in Nat /\ 1 <= j /\ j <= m + n
    BY <1>0, <1>5
  <2>2. k \in 1 .. Len(mem) /\ k - at = j
    BY <1>0, <2>1
  <2> HIDE DEF k
  <2>3. u.mem[k] = IF j \in 1 .. m THEN s[j] ELSE mem[k]
    BY <1>2, <2>2
  <2>4. CASE j <= m
    <3>1. j \in 1 .. m
      BY <1>0, <2>1, <2>4
    <3>2. u.r + j = k
      BY <1>2 DEF k
    <3> QED BY <1>5, <2>1, <2>3, <2>4, <3>1, <3>2
  <2>5. CASE ~(j <= m)
    <3>0. \A a, x, y, l, q \in Nat :
            l = a + x /\ q <= x + y /\ ~(q <= x)
              => q \notin 1 .. x /\ q - x \in 1 .. y /\ l + (q - x) = a + q
      OBVIOUS
    <3>1. j \notin 1 .. m /\ j - m \in 1 .. n /\ i + (j - m) = k
      BY <1>0, <2>1, <2>5, <3>0 DEF k
    <3>2. c[j] = Content(v)[j - m] /\ mem[i + (j - m)] = Content(v)[j - m]
      BY <1>5, <1>6, <2>1, <2>5, <3>1
    <3> QED BY <1>2, <2>3, <3>1, <3>2 DEF k
  <2> QED BY <2>4, <2>5
<1>9. Content(u) = c
  BY ZenonT(60), <1>3, <1>5, <1>7, <1>8, ContentIs
<1> QED BY <1>3, <1>9 DEF c

\* The content is written to where s ends, and s before it.
LEMMA PrependMoves ==
  ASSUME NEW v, Buf(v), NEW s \in Seq(Nat), Len(s) + (v.w - v.r) <= Len(v.mem), NEW u,
         u = [mem |-> Write(Write(v.mem, Len(s), Content(v)), 0, s),
              r |-> 0, w |-> v.w + Len(s) - v.r]
  PROVE  Buf(u) /\ Content(u) = s \o Content(v)
<1> DEFINE i == Len(s)
           c == Content(v)
           mem == Write(v.mem, i, c)
<1>1. /\ v.mem \in Seq(Nat) /\ v.r \in Nat /\ v.w \in Nat /\ v.r <= v.w
      /\ Len(v.mem) \in Nat /\ i \in Nat
  BY DEF Buf
<1>2. /\ c \in Seq(Nat) /\ Len(c) = v.w - v.r
      /\ \A k \in 1 .. v.w - v.r : c[k] = v.mem[v.r + k]
  BY ContentType
<1>3. i - Len(s) = 0 /\ Len(s) <= i /\ v.w + i - v.r = i + (v.w - v.r)
  BY <1>1
<1>4. u = [mem |-> Write(mem, i - Len(s), s), r |-> i - Len(s), w |-> i + (v.w - v.r)]
  BY <1>3
<1>5. i + (v.w - v.r) <= Len(v.mem)
  OBVIOUS
<1> HIDE DEF c, i
<1>6. /\ mem \in Seq(Nat) /\ Len(mem) = Len(v.mem)
      /\ \A k \in 1 .. Len(v.mem) :
           mem[k] = IF k - i \in 1 .. Len(c) THEN c[k - i] ELSE v.mem[k]
  <2>1. v.mem \in Seq(Nat) /\ i \in Nat /\ c \in Seq(Nat)
    BY <1>1, <1>2
  <2> QED BY ONLY SMTT(30), <2>1, WriteType
<1> HIDE DEF mem
<1>7. \A k \in 1 .. v.w - v.r : mem[i + k] = v.mem[v.r + k]
  <2>1. TAKE k \in 1 .. v.w - v.r
  <2> DEFINE j == i + k
  <2>2. j \in 1 .. Len(v.mem) /\ j - i = k
    BY <1>1, <1>5
  <2> HIDE DEF j
  <2>3. mem[j] = c[k]
    BY <1>2, <1>6, <2>2
  <2> QED BY <1>2, <2>3 DEF j
<1>8. i + (v.w - v.r) <= Len(mem)
  BY <1>5, <1>6
<1>9. Len(mem) = Len(v.mem) /\ mem \in Seq(Nat) /\ i \in Nat
  BY <1>1, <1>6
<1>10. Buf(u) /\ Content(u) = s \o c
  <2>1. Buf(v) /\ s \in Seq(Nat) /\ Len(s) <= i
    BY <1>3
  <2> QED BY ONLY <1>4, <1>7, <1>8, <1>9, <2>1, PutsBefore DEF c
<1> QED BY <1>10 DEF c

LEMMA PrependKeeps ==
  ASSUME NEW b, Buf(b), NEW s \in Seq(Nat),
         LET v == PrependRoom(b, s)
         IN  Len(s) > b.r => Len(s) + Readable(v) <= MemSize(v)
  PROVE  Buf(PrependBytes(b, s)) /\ Content(PrependBytes(b, s)) = s \o Content(b)
<1> DEFINE v == PrependRoom(b, s)
<1>0. Len(s) \in Nat /\ b.mem \in Seq(Nat) /\ b.r \in Nat /\ b.w \in Nat
  BY DEF Buf
<1>1. CASE Len(s) <= b.r
  <2>1. PrependBytes(b, s) = [b EXCEPT !.mem = Write(@, b.r - Len(s), s), !.r = @ - Len(s)]
    BY <1>1 DEF PrependBytes
  <2>2. b.r + (b.w - b.r) = b.w /\ b.w <= Len(b.mem)
    BY <1>0 DEF Buf
  <2>3. PrependBytes(b, s) =
          [mem |-> Write(b.mem, b.r - Len(s), s), r |-> b.r - Len(s),
           w |-> b.r + (b.w - b.r)]
    BY <2>1, <2>2 DEF Buf
  <2>4. \A k \in 1 .. b.w - b.r : b.mem[b.r + k] = b.mem[b.r + k]
    OBVIOUS
  <2>5. b.r + (b.w - b.r) <= Len(b.mem) /\ Len(b.mem) = Len(b.mem)
    BY <2>2
  <2> HIDE DEF v
  <2> DEFINE u == PrependBytes(b, s)
             i == b.r
             mem == b.mem
  <2>6. u = [mem |-> Write(mem, i - Len(s), s), r |-> i - Len(s), w |-> i + (b.w - b.r)]
    BY <2>3
  <2>7. /\ i \in Nat /\ mem \in Seq(Nat) /\ Len(mem) = Len(b.mem) /\ Len(s) <= i
        /\ i + (b.w - b.r) <= Len(mem)
        /\ \A k \in 1 .. b.w - b.r : mem[i + k] = b.mem[b.r + k]
    BY <1>0, <1>1, <2>4, <2>5
  <2> HIDE DEF u, i, mem
  <2>8. Buf(u) /\ Content(u) = s \o Content(b)
    BY <2>6, <2>7, PutsBefore
  <2> QED BY <2>8 DEF u
<1>2. CASE ~(Len(s) <= b.r)
  <2>1. Len(s) - b.r \in Nat /\ v = MakeSpace(b, Len(s) - b.r)
    BY <1>0, <1>2 DEF PrependRoom
  <2>2. Buf(v) /\ Content(v) = Content(b)
    BY <2>1, MakeSpaceKeeps
  <2>3. PrependBytes(b, s) = [mem |-> Write(Write(v.mem, Len(s), Content(v)), 0, s),
                              r |-> 0, w |-> v.w + Len(s) - v.r]
    BY <1>2 DEF PrependBytes
  <2>4. Len(s) + (v.w - v.r) <= Len(v.mem)
    BY <1>0, <1>2 DEF Readable, MemSize
  <2> HIDE DEF v
  <2>5. Buf(PrependBytes(b, s)) /\ Content(PrependBytes(b, s)) = s \o Content(v)
    BY <2>2, <2>3, <2>4, PrependMoves
  <2> QED BY <2>2, <2>5
<1> QED BY <1>1, <1>2

LEMMA ClearedEmpty ==
  ASSUME NEW b, Buf(b)
  PROVE  Buf(Cleared(b)) /\ Content(Cleared(b)) = <<>>
<1> DEFINE c == <<>>
           u == Cleared(b)
<1>1. Buf(u) /\ u.w - u.r = 0
  <2>1. CheapPrepend \in Nat /\ CheapPrepend <= CheapPrepend /\ CheapPrepend - CheapPrepend = 0
    BY NetBufferAssumption
  <2>2. u = [mem |-> b.mem, r |-> CheapPrepend, w |-> CheapPrepend]
    <3>1. b \in [mem : Seq(Nat), r : Nat, w : Nat]
      BY DEF Buf
    <3>2. u = [b EXCEPT !.r = CheapPrepend, !.w = CheapPrepend]
      BY DEF Cleared
    <3> HIDE DEF u
    <3> QED BY <3>1, <3>2
  <2> HIDE DEF u
  <2> QED BY <2>1, <2>2 DEF Buf
<1>2. c \in Seq(Nat) /\ Len(c) = 0 /\ \A i \in 1 .. Len(c) : c[i] = u.mem[u.r + i]
  OBVIOUS
<1> HIDE DEF c, u
<1>3. Content(u) = c
  BY <1>1, <1>2, ContentIs
<1> QED BY <1>1, <1>3 DEF c, u

\* What is left of the content when len bytes of it were read.
LEMMA ReaderMoveKeeps ==
  ASSUME NEW b, Buf(b), NEW len \in Nat
  PROVE  /\ Buf(ReaderMove(b, len))
         /\ Content(ReaderMove(b, len)) =
              IF len < Len(Content(b)) THEN SubSeq(Content(b), len + 1, Len(Content(b)))
              ELSE <<>>
<1> DEFINE u == ReaderMove(b, len)
           c == Content(b)
           d == SubSeq(c, len + 1, Len(c))
<1>0. /\ b.mem \in Seq(Nat) /\ b.r \in Nat /\ b.w \in Nat /\ CheapPrepend \in Nat
      /\ b.r <= b.w
  BY NetBufferAssumption DEF Buf
<1>1. /\ c \in Seq(Nat) /\ Len(c) = b.w - b.r
      /\ \A i \in 1 .. b.w - b.r : c[i] = b.mem[b.r + i]
  BY ContentType
<1>2. CASE len < b.w - b.r
  <2>1. u = [b EXCEPT !.r = @ + len]
    BY <1>2 DEF ReaderMove, Readable
  <2>2. Buf(u) /\ u.mem = b.mem /\ u.r = b.r + len /\ u.w = b.w
    <3>1. u = [mem |-> b.mem, r |-> b.r + len, w |-> b.w]
      BY <2>1 DEF Buf
    <3>2. /\ b.r + len \in Nat /\ b.r + len <= b.w
          /\ b.w <= Len(b.mem) /\ CheapPrepend <= Len(b.mem)
      BY <1>0, <1>2 DEF Buf
    <3> HIDE DEF u
    <3> QED BY <1>0, <3>1, <3>2 DEF Buf
  <2> HIDE DEF u, c
  <2>3. \A i \in len + 1 .. Len(c) : c[i] \in Nat
    BY <1>1
  <2>4. /\ d \in Seq(Nat)
        /\ Len(d) = IF len + 1 <= Len(c) THEN Len(c) - (len + 1) + 1 ELSE 0
        /\ \A i \in 1 .. Len(c) - (len + 1) + 1 : d[i] = c[len + 1 + i - 1]
    <3>1. len + 1 \in Int /\ Len(c) \in Int
      BY <1>1
    <3> QED BY <2>3, <3>1, SubSeqProperties
  <2> HIDE DEF d
  <2>5. Len(d) = u.w - u.r
    <3>0. \A r, w, l \in Nat :
            l < w - r => l + 1 <= w - r /\ (w - r) - (l + 1) + 1 = w - (r + l)
      OBVIOUS
    <3>1. Len(d) = b.w - (b.r + len)
      <4>1. /\ len + 1 <= b.w - b.r
            /\ (b.w - b.r) - (len + 1) + 1 = b.w - (b.r + len)
        BY <1>0, <1>2, <3>0
      <4> QED BY <1>1, <2>4, <4>1
    <3> QED BY <2>2, <3>1
  <2>6. ASSUME NEW i \in 1 .. Len(d) PROVE d[i] = u.mem[u.r + i]
    <3>1. i \in Nat /\ 1 <= i /\ i <= b.w - b.r - len
      BY <1>0, <1>2, <2>2, <2>5
    <3>2. /\ i \in 1 .. Len(c) - (len + 1) + 1 /\ len + 1 + i - 1 = len + i
          /\ len + i \in 1 .. b.w - b.r /\ b.r + (len + i) = u.r + i
      <4>0. \A r, w, l, j \in Nat :
              1 <= j /\ j <= w - r - l
                => /\ j \in 1 .. (w - r) - (l + 1) + 1 /\ l + 1 + j - 1 = l + j
                   /\ l + j \in 1 .. w - r /\ r + (l + j) = (r + l) + j
        OBVIOUS
      <4>1. /\ i \in 1 .. (b.w - b.r) - (len + 1) + 1 /\ len + 1 + i - 1 = len + i
            /\ len + i \in 1 .. b.w - b.r /\ b.r + (len + i) = (b.r + len) + i
        BY <1>0, <3>1, <4>0
      <4> QED BY <1>1, <2>2, <4>1
    <3>3. d[i] = c[len + i] /\ c[len + i] = b.mem[b.r + (len + i)]
      BY <1>1, <2>4, <3>2
    <3> QED BY <2>2, <3>2, <3>3
  <2>7. Content(u) = d
    BY <2>2, <2>4, <2>5, <2>6, ContentIs
  <2> QED BY <1>1, <1>2, <2>2, <2>7 DEF u, c, d
<1>3. CASE ~(len < b.w - b.r)
  <2>1. u = [b EXCEPT !.r = CheapPrepend, !.w = CheapPrepend]
    BY <1>3 DEF ReaderMove, Readable
  <2> QED BY <1>1, <1>3, <2>1, ClearedEmpty DEF Cleared
<1> QED BY <1>2, <1>3

LEMMA NewBytesType ==
  ASSUME next \in Nat, NEW len \in Nat
  PROVE  /\ NewBytes(len) \in Seq(Nat) /\ Len(NewBytes(len)) = len
         /\ Used(len) => next' \in Nat
<1>1. \A n \in Nat : n % ByteMod \in Nat
  BY NetBufferAssumption
<1>2. \A i \in 1 .. len : (next + i - 1) % ByteMod \in Nat
  <2>1. \A i \in 1 .. len : next + i - 1 \in Nat
    OBVIOUS
  <2> QED BY <1>1, <2>1
<1>3. NewBytes(len) \in [1 .. len -> Nat]
  BY <1>2 DEF NewBytes
<1>4. next + len \in Nat
  OBVIOUS
<1> QED BY <1>1, <1>3, <1>4 DEF NewBytes, Used

\* recv and alloc_buffer: the memory has the space, so that writerMove only counts.
LEMMA RecvKeeps ==
  ASSUME NEW v, Buf(v), NEW s \in Seq(Nat), Len(s) <= Writable(v), NEW x,
         x = [v EXCEPT !.mem = Write(@, v.w, s)]
  PROVE  /\ Buf(WriterMove(x, Len(s)))
         /\ Content(WriterMove(x, Len(s))) = Content(v) \o s
<1>0. v.mem \in Seq(Nat) /\ v.r \in Nat /\ v.w \in Nat /\ Len(v.mem) \in Nat /\ Len(s) \in Nat
  BY DEF Buf
<1>1. Len(Write(v.mem, v.w, s)) = Len(v.mem)
  BY <1>0, WriteType
<1>2. x = [mem |-> Write(v.mem, v.w, s), r |-> v.r, w |-> v.w]
  <2>1. v \in [mem : Seq(Nat), r : Nat, w : Nat]
    BY DEF Buf
  <2> QED BY <2>1
<1>3. Writable(x) >= Len(s)
  <2>1. Writable(x) = Writable(v)
    BY ONLY <1>1, <1>2 DEF Writable, MemSize
  <2>2. Writable(v) \in Int
    BY <1>0 DEF Writable, MemSize
  <2> QED BY ONLY <1>0, <2>1, <2>2, Len(s) <= Writable(v)
<1>4. MakeSpace(x, Len(s)) = x
  BY <1>3 DEF MakeSpace
<1>5. WriterMove(x, Len(s)) =
        [mem |-> Write(v.mem, v.w, s), r |-> v.r, w |-> v.w + Len(s)]
  BY ONLY <1>2, <1>4 DEF WriterMove
<1>6. v.w + Len(s) <= Len(v.mem)
  BY <1>0 DEF Writable, MemSize
<1> QED BY ONLY <1>5, <1>6, Buf(v), s \in Seq(Nat), PutsBehind

LEMMA BufStep == BufInv /\ [BufferNext]_bufferVars => BufInv'
<1> SUFFICES ASSUME BufInv, [BufferNext]_bufferVars
             PROVE  BufInv'
  OBVIOUS
<1>0. Buf(nb) /\ Content(nb) = content /\ content \in Seq(Nat) /\ next \in Nat
  BY DEF BufInv
<1>1. ASSUME NEW len \in 1 .. MaxLen
      PROVE  /\ len \in Nat /\ NewBytes(len) \in Seq(Nat) /\ Len(NewBytes(len)) = len
             /\ Used(len) => next' \in Nat
  <2>1. len \in Nat
    BY NetBufferAssumption
  <2> QED BY <1>0, <2>1, NewBytesType
<1>2. ASSUME NEW len \in 1 .. MaxLen, AppendBuf(len) PROVE BufInv'
  <2>1. content \o NewBytes(len) \in Seq(Nat)
    BY <1>0, <1>1, ConcatProperties
  <2> QED BY <1>0, <1>1, <1>2, <2>1, AppendKeeps DEF AppendBuf, BufInv, Buf, Content
<1>3. ASSUME NEW len \in 1 .. MaxLen, PrependBuf(len) PROVE BufInv'
  <2> DEFINE s == NewBytes(len)
  <2>1. s \in Seq(Nat) /\ Len(s) = len /\ s \o content \in Seq(Nat)
    BY <1>0, <1>1, ConcatProperties
  <2>2. LET v == PrependRoom(nb, s) IN Len(s) > nb.r => Len(s) + Readable(v) <= MemSize(v)
    BY <1>3, <2>1 DEF PrependBuf
  <2>3. nb' = PrependBytes(nb, s) /\ content' = s \o content /\ next' \in Nat
    BY <1>1, <1>3 DEF PrependBuf
  <2> HIDE DEF s
  <2>4. Buf(PrependBytes(nb, s)) /\ Content(PrependBytes(nb, s)) = s \o Content(nb)
    BY ONLY <1>0, <2>1, <2>2, PrependKeeps
  <2> QED BY <1>0, <2>1, <2>3, <2>4 DEF BufInv, Buf, Content
<1>4. ASSUME NEW len \in 1 .. MaxLen, ReadBuf(len) PROVE BufInv'
  <2>1. /\ Buf(nb')
        /\ Content(nb') = IF len < Len(content) THEN SubSeq(content, len + 1, Len(content))
                          ELSE <<>>
    BY <1>0, <1>1, <1>4, ReaderMoveKeeps DEF ReadBuf
  <2>2. Content(nb') = content'
    BY <1>4, <2>1 DEF ReadBuf
  <2>3. content' \in Seq(Nat)
    BY <2>1, <2>2, ContentType
  <2> QED BY <1>0, <1>4, <2>1, <2>2, <2>3 DEF ReadBuf, BufInv, Buf, Content
<1>5. ASSUME NEW len \in 1 .. MaxLen, RecvBuf(len) PROVE BufInv'
  <2> DEFINE v == MakeSpace(nb, 1)
             s == NewBytes(len)
             x == [v EXCEPT !.mem = Write(@, v.w, s)]
  <2>1. Buf(v) /\ Content(v) = content
    BY <1>0, MakeSpaceKeeps
  <2>2. s \in Seq(Nat) /\ Len(s) = len /\ content \o s \in Seq(Nat)
    BY <1>0, <1>1, ConcatProperties
  <2>3. /\ Len(s) <= Writable(v) /\ nb' = WriterMove(x, Len(s))
        /\ content' = content \o s /\ next' \in Nat
    BY <1>1, <1>5, <2>2 DEF RecvBuf
  <2>4. x = [v EXCEPT !.mem = Write(@, v.w, s)]
    OBVIOUS
  <2> HIDE DEF v, s, x
  <2>5. /\ Buf(WriterMove(x, Len(s)))
        /\ Content(WriterMove(x, Len(s))) = Content(v) \o s
    BY ONLY <2>1, <2>2, <2>3, <2>4, RecvKeeps
  <2> QED BY <2>1, <2>2, <2>3, <2>5 DEF BufInv, Buf, Content
<1>6. ASSUME NEW reserve \in 0 .. 1, ShrinkBuf(reserve) PROVE BufInv'
  <2> DEFINE n == NewBuffer(InitialSize)
             v == MakeSpace(n, Readable(nb) + reserve)
  <2>1. Buf(n) /\ Content(n) = <<>>
    BY NewBufferType, NetBufferAssumption
  <2>2. Readable(nb) + reserve \in Nat
    BY <1>0 DEF Buf, Readable
  <2> HIDE DEF n
  <2>3. Buf(v) /\ Content(v) = <<>>
    BY <2>1, <2>2, MakeSpaceKeeps
  <2>4. nb' = AppendBytes(v, content) /\ content' = content /\ next' = next
    BY <1>0, <1>6 DEF ShrinkBuf, Shrunk, n
  <2> HIDE DEF v
  <2>5. Buf(AppendBytes(v, content)) /\ Content(AppendBytes(v, content)) = <<>> \o content
    BY <1>0, <2>3, AppendKeeps
  <2>6. <<>> \o content = content
    BY <1>0, ConcatEmptySeq
  <2> QED BY <1>0, <2>4, <2>5, <2>6 DEF BufInv, Buf, Content
<1>7. CASE ClearBuf
  <2>1. Buf(Cleared(nb)) /\ Content(Cleared(nb)) = <<>>
    BY <1>0, ClearedEmpty
  <2>2. nb' = Cleared(nb) /\ content' = <<>> /\ next' = next
    BY <1>7 DEF ClearBuf
  <2>3. <<>> \in Seq(Nat)
    OBVIOUS
  <2> QED BY ONLY <1>0, <2>1, <2>2, <2>3 DEF BufInv, Buf, Content
<1>8. CASE UNCHANGED bufferVars
  BY <1>8 DEF bufferVars, BufInv, Buf, Content
<1> QED BY <1>2, <1>3, <1>4, <1>5, <1>6, <1>7, <1>8 DEF BufferNext

\* The invariant of the indices, the memory and the content.
THEOREM BufferInvariant == BufferSpec => []BufInv
<1>1. BufferInit => BufInv
  BY NewBufferType, NetBufferAssumption DEF BufferInit, BufInv
<1> QED BY <1>1, BufStep, PTL DEF BufferSpec

\* net::Buffer gives out the bytes that were put in, in order, behind or in front, for
\* any sizes and however often the memory grows, its content moves or it is shrunk.
THEOREM BufferHoldsContent == BufferSpec => []BufferHolds
<1>1. BufInv => BufferHolds
  BY DEF BufInv, Buf, BufferHolds, MemSize
<1> QED BY <1>1, BufferInvariant, PTL

-----------------------------------------------------------------------------
(* LuaBridge                                                               *)

\* One reference each, to what the script defined, and no other.
Referred(ix, reg, gl) ==
  /\ ix \in [Names -> Refs \cup {0}] /\ reg \in [Refs -> Nat]
  /\ \A n \in Names : ix[n] # 0 => gl[n] # 0 /\ reg[ix[n]] = gl[n]
  /\ \A m, n \in Names : ix[m] = ix[n] /\ ix[m] # 0 => m = n
  /\ \A r \in Refs : reg[r] # 0 => \E n \in Names : ix[n] = r

LEMMA NamesFinite == IsFiniteSet(Names) /\ Cardinality(Names) \in Nat /\ Refs \subseteq Nat \ {0}
<1>1. IsFiniteSet(Names)
  BY LuaBridgeAssumption, FS_Union DEF Names
<1> QED BY <1>1, FS_CardinalityType DEF Refs

\* References kept are as many as names that have one.
LEMMA ReferredCounts ==
  ASSUME NEW ix, NEW reg, NEW gl, gl \in [Names -> Nat], Referred(ix, reg, gl)
  PROVE  Cardinality({r \in Refs : reg[r] # 0}) = Cardinality({n \in Names : ix[n] # 0})
<1> DEFINE N == {n \in Names : ix[n] # 0}
           R == {r \in Refs : reg[r] # 0}
           f == [n \in N |-> ix[n]]
<1>1. IsFiniteSet(N)
  BY NamesFinite, FS_Subset
<1>2. f \in [N -> R]
  BY NamesFinite DEF Referred
<1>3. \A m, n \in N : f[m] = f[n] => m = n
  BY DEF Referred
<1>4. \A r \in R : \E n \in N : f[n] = r
  BY NamesFinite DEF Referred
<1>5. f \in Bijection(N, R)
  BY <1>2, <1>3, <1>4 DEF Bijection, Injection, Surjection, IsInjective
<1>6. ExistsBijection(N, R)
  BY <1>5 DEF ExistsBijection
<1> HIDE DEF N, R
<1>7. Cardinality(R) = Cardinality(N)
  BY <1>1, <1>6, FS_Bijection
<1> QED BY <1>7 DEF N, R

\* In an empty registry there is a reference for each of the names.
LEMMA FreeRefsRight ==
  ASSUME NEW reg, \A r \in Refs : reg[r] = 0, NEW K \in SUBSET Names
  PROVE  /\ FreeRefs(reg, K) \in [K -> Refs]
         /\ \A m, n \in K : FreeRefs(reg, K)[m] = FreeRefs(reg, K)[n] => m = n
<1> DEFINE F == {r \in Refs : reg[r] = 0}
           k == Cardinality(K)
<1>1. F = Refs
  OBVIOUS
<1>2. IsFiniteSet(K) /\ k \in Nat /\ k <= Cardinality(Names)
  BY NamesFinite, FS_Subset, FS_CardinalityType
<1>3. PICK g : g \in Bijection(1 .. k, K)
  BY <1>2, FS_CardinalityType DEF ExistsBijection
<1> HIDE DEF k, F
<1>4. /\ g \in [1 .. k -> K] /\ \A i, j \in 1 .. k : g[i] = g[j] => i = j
      /\ \A n \in K : \E i \in 1 .. k : g[i] = n
  BY <1>3 DEF Bijection, Injection, Surjection, IsInjective
<1> DEFINE f == [n \in K |-> CHOOSE i \in 1 .. k : g[i] = n]
<1>5. \A n \in K : f[n] \in 1 .. k /\ g[f[n]] = n
  BY <1>4
<1>6. 1 .. k \subseteq Refs
  BY <1>2, NamesFinite DEF Refs
<1>7. f \in Injection(K, F)
  <2>1. f \in [K -> F]
    BY <1>1, <1>5, <1>6
  <2>2. \A m, n \in K : f[m] = f[n] => m = n
    BY <1>5
  <2> HIDE DEF f
  <2> QED BY <2>1, <2>2 DEF Injection, IsInjective
<1>8. \A n \in K : \A r \in 1 .. f[n] : reg[r] = 0 => \E m \in K : f[m] = r
  <2>1. TAKE n \in K
  <2>2. TAKE r \in 1 .. f[n]
  <2>3. r \in 1 .. k
    BY <1>2, <1>5
  <2>4. g[r] \in K /\ f[g[r]] \in 1 .. k /\ g[f[g[r]]] = g[r]
    BY <1>4, <1>5, <2>3
  <2>5. f[g[r]] = r
    BY <1>4, <2>3, <2>4
  <2> QED BY <2>4, <2>5
<1> DEFINE P(x) == \A n \in K : \A r \in 1 .. x[n] : reg[r] = 0 => \E m \in K : x[m] = r
<1> HIDE DEF f
<1>9. \E x \in Injection(K, F) : P(x)
  BY <1>7, <1>8
<1>10. FreeRefs(reg, K) = CHOOSE x \in Injection(K, F) : P(x)
  BY DEF FreeRefs, F
<1>11. FreeRefs(reg, K) \in Injection(K, F)
  <2> HIDE DEF P
  <2> QED BY <1>9, <1>10
<1> QED BY <1>1, <1>11 DEF Injection, IsInjective

LEMMA UnRegisteredRight ==
  ASSUME NEW s, NEW gl, Referred(idx, registry, gl)
  PROVE  LET x == UnRegistered(s)
         IN  /\ x.stack = s /\ x.count = 0
             /\ x.idx = [n \in Names |-> 0] /\ x.registry = [r \in Refs |-> 0]
<1>1. \A r \in Refs : (IF \E n \in Names : idx[n] = r THEN 0 ELSE registry[r]) = 0
  BY DEF Referred
<1> QED BY <1>1 DEF UnRegistered

LEMMA NothingKept ==
  ASSUME NEW gl
  PROVE  Referred([n \in Names |-> 0], [r \in Refs |-> 0], gl)
BY NamesFinite DEF Referred

LEMMA RegisteredRight ==
  ASSUME NEW s, NEW gl \in [Names -> Nat], NEW x,
         x.idx = [n \in Names |-> 0], x.registry = [r \in Refs |-> 0], x.count = 0
  PROVE  LET y == Registered(x, gl)
         IN  /\ y.stack = <<>> /\ y.count \in Nat /\ Referred(y.idx, y.registry, gl)
             /\ \A n \in Names : y.idx[n] # 0 <=> gl[n] # 0
<1> DEFINE K == {n \in Names : gl[n] # 0}
           f == FreeRefs(x.registry, K)
           y == Registered(x, gl)
<1>1. K \in SUBSET Names /\ \A n \in K : gl[n] \in Nat /\ gl[n] # 0
  OBVIOUS
<1>2. f \in [K -> Refs] /\ \A m, n \in K : f[m] = f[n] => m = n
  BY FreeRefsRight
<1>3. Cardinality(K) \in Nat
  BY NamesFinite, FS_Subset, FS_CardinalityType
<1>4. /\ y.stack = <<>> /\ y.count = 0 + Cardinality(K)
      /\ y.idx = [n \in Names |-> IF n \in K THEN f[n] ELSE 0]
      /\ y.registry = [r \in Refs |-> IF \E n \in K : f[n] = r
                                     THEN gl[CHOOSE n \in K : f[n] = r] ELSE 0]
  BY DEF Registered
<1> HIDE DEF K, f, y
<1>5. \A n \in K : (CHOOSE m \in K : f[m] = f[n]) = n
  BY <1>2
<1>6. \A n \in K : y.idx[n] = f[n] /\ f[n] \in Refs /\ y.registry[f[n]] = gl[n]
  BY <1>1, <1>2, <1>4, <1>5
<1>7. \A n \in Names \ K : y.idx[n] = 0
  BY <1>4
<1>8. \A r \in Refs : y.registry[r] # 0 => \E n \in K : f[n] = r
  BY <1>4
<1>9. y.idx \in [Names -> Refs \cup {0}]
  BY <1>2, <1>4
<1>10. y.registry \in [Refs -> Nat]
  <2>1. \A r \in Refs : (\E n \in K : f[n] = r) => (CHOOSE n \in K : f[n] = r) \in K
    OBVIOUS
  <2> QED BY <1>1, <1>4, <2>1
<1>11. Referred(y.idx, y.registry, gl)
  BY <1>1, <1>2, <1>6, <1>7, <1>8, <1>9, <1>10 DEF Referred
<1>12. \A n \in Names : y.idx[n] # 0 <=> gl[n] # 0
  <2>1. \A n \in Names : n \in K <=> gl[n] # 0
    BY DEF K
  <2>2. 0 \notin Refs
    BY NamesFinite
  <2> QED BY <1>6, <1>7, <2>1, <2>2
<1> QED BY <1>3, <1>4, <1>11, <1>12 DEF y

\* The stack.

LEMMA PopBack ==
  ASSUME NEW S, NEW s \in Seq(S), NEW t \in Seq(S)
  PROVE  Pop(s \o t, Len(t)) = s
<1>1. /\ s \o t \in Seq(S) /\ Len(s \o t) = Len(s) + Len(t)
      /\ \A i \in 1 .. Len(s) + Len(t) :
           (s \o t)[i] = IF i <= Len(s) THEN s[i] ELSE t[i - Len(s)]
  BY ConcatProperties
<1>2. Len(s) \in Nat /\ Len(t) \in Nat
  OBVIOUS
<1> DEFINE u == SubSeq(s \o t, 1, Len(s))
<1>3. Pop(s \o t, Len(t)) = u
  <2>1. Len(s \o t) - Len(t) = Len(s)
    BY <1>1, <1>2
  <2> QED BY <2>1 DEF Pop
<1>4. \A i \in 1 .. Len(s) : i \in 1 .. Len(s) + Len(t) /\ i <= Len(s)
  BY <1>2
<1>5. \A i \in 1 .. Len(s) : (s \o t)[i] = s[i] /\ (s \o t)[i] \in S
  BY <1>1, <1>4
<1>6. /\ u \in Seq(S) /\ Len(u) = IF 1 <= Len(s) THEN Len(s) - 1 + 1 ELSE 0
      /\ \A i \in 1 .. Len(s) - 1 + 1 : u[i] = (s \o t)[1 + i - 1]
  BY <1>2, <1>5, SubSeqProperties
<1> HIDE DEF u
<1>7. Len(u) = Len(s) /\ \A i \in 1 .. Len(s) : u[i] = s[i]
  BY <1>2, <1>5, <1>6
<1> QED BY <1>3, <1>6, <1>7, SeqEqual

LEMMA PopOne ==
  ASSUME NEW S, NEW s \in Seq(S), NEW e \in S
  PROVE  Pop(Append(s, e), 1) = s
<1>1. <<e>> \in Seq(S) /\ Len(<<e>>) = 1 /\ Append(s, e) = s \o <<e>>
  BY AppendIsConcat
<1> QED BY <1>1, PopBack

\* A call on an empty stack leaves it empty; a script that fails too.
LEMMA CallRefEmpties ==
  ASSUME NEW n \in Nat, NEW fails \in BOOLEAN
  PROVE  CallRef(<<>>, n, fails) = <<>>
<1> DEFINE S == {"function", "argument", "message"}
           a == [i \in 1 .. n |-> "argument"]
           p == <<>> \o <<"function">> \o a
           e == <<>>
<1>1. a \in Seq(S) /\ Len(a) = n
  OBVIOUS
<1>2. <<>> \o <<"function">> = <<"function">> /\ e \in Seq(S)
  BY ConcatEmptySeq
<1>0. "message" \in S
  OBVIOUS
<1> HIDE DEF a
<1>3. <<"function">> \o a \in Seq(S) /\ Len(<<"function">> \o a) = n + 1
  <2>1. <<"function">> \in Seq(S) /\ Len(<<"function">>) = 1
    OBVIOUS
  <2>2. 1 + n = n + 1
    OBVIOUS
  <2> QED BY <1>1, <2>1, <2>2, ConcatProperties
<1>4. e \o p = p /\ p = <<"function">> \o a
  BY <1>2, <1>3, ConcatEmptySeq
<1> HIDE DEF p, e, S
<1>5. Pop(p, n + 1) = e
  BY <1>2, <1>3, <1>4, PopBack
<1>6. Pop(Append(e, "message"), 1) = e
  BY <1>0, <1>2, PopOne
<1> QED BY <1>5, <1>6 DEF CallRef, e, p, a

LEMMA DoFileFails ==
  ASSUME NEW n
  PROVE  DoFile(<<>>, TRUE, n) = <<>>
<1> DEFINE e == <<>>
           S == {"message"}
<1>1. e \in Seq(S) /\ "message" \in S
  OBVIOUS
<1> HIDE DEF e, S
<1>2. Pop(Append(e, "message"), 1) = e
  BY <1>1, PopOne
<1> QED BY <1>2 DEF DoFile, e

\* The registry.

Script ==
  /\ globals \in [Names -> Nat] /\ loads \in Nat
  /\ Referred(idx, registry, globals)
  /\ \A n \in Names : idx[n] # 0 <=> globals[n] # 0 /\ ~lost

\* The tables of a read are read as they are.
Exact == Named(luaTables.outer) /\ Named(luaTables.inner)

\* What is entered of a pair of the outer table, of its first n, of the inner one's first n.
OfPair(p, inner) ==
  {<<(<<p.key>>), p.value>>}
    \cup (IF p.value # "inner" THEN {}
          ELSE {<<<<p.key, q.key>>, q.value>> : q \in Entered(inner)})
OfOuter(n) ==
  UNION {OfPair(luaTables.outer[i], luaTables.inner) :
           i \in {j \in 1 .. n : luaTables.outer[j].value # "other"}}
OfInner(n) ==
  {<<(<<luaTables.inner[i].key>>), luaTables.inner[i].value>> :
     i \in {j \in 1 .. n : luaTables.inner[j].value # "other"}}

\* The stack of a read, and what was read so far.
InOuter ==
  \E at \in 1 .. Len(luaTables.outer) + 1 : \E key, top, ret :
    /\ stack = <<"outer", top>>
    /\ reading = <<[index |-> 1, at |-> at, key |-> key, ret |-> ret]>>
    /\ Exact => ret = OfOuter(at - 1)
InInner ==
  \E i \in 1 .. Len(luaTables.outer), at \in 1 .. Len(luaTables.inner) + 1 :
  \E key, top, name, before, ret :
    /\ luaTables.outer[i].value = "inner"
    /\ stack = <<"outer", luaTables.outer[i].key, "inner", top>>
    /\ reading = <<[index |-> 1, at |-> i + 1, key |-> name, ret |-> before],
                  [index |-> 3, at |-> at, key |-> key, ret |-> ret]>>
    /\ Exact => name = luaTables.outer[i].key /\ before = OfOuter(i - 1) /\ ret = OfInner(at - 1)

Reads ==
  /\ luaTables \in [outer : Seq(Pairs), inner : Seq(Pairs)]
  /\ \A i \in 1 .. Len(luaTables.inner) : luaTables.inner[i].value # "inner"
  /\ (reading = <<>> /\ stack = <<>>) \/ InOuter \/ InInner
  /\ loads = 0 => reading = <<>>

LuaInv == Script /\ Reads

LEMMA LoadStep ==
  ASSUME LuaInv,
         NEW def \in SUBSET Names, NEW undef \in SUBSET Names, NEW fails \in BOOLEAN,
         NEW n \in 0 .. 1,
         \/ LuaCall(def, fails, n) /\ undef = {} /\ reading = <<>>
         \/ ReloadFile(def, undef, fails, n)
  PROVE  LuaInv'
<1>1. /\ globals' = Defined(def, undef) /\ loads' \in Nat /\ reading' = <<>> /\ reading = <<>>
      /\ luaTables' = luaTables
  <2>1. loads \in Nat
    BY DEF LuaInv, Script
  <2>2. CASE LuaCall(def, fails, n) /\ undef = {} /\ reading = <<>>
    BY <2>2 DEF LuaCall
  <2>3. CASE ReloadFile(def, undef, fails, n)
    <3>1. loads' = loads + 1 /\ loads + 1 \in Nat
      BY <2>1, <2>3 DEF ReloadFile
    <3> QED BY <2>3, <3>1 DEF ReloadFile
  <2> QED BY <2>2, <2>3
<1>2. globals' \in [Names -> Nat]
  BY <1>1 DEF Defined, LuaInv, Script
<1>3. stack = <<>>
  BY <1>1 DEF LuaInv, Reads, InOuter, InInner
<1>4. Referred(idx, registry, globals)
  BY DEF LuaInv, Script
<1>5. Reads' <=> stack' = <<>>
  BY <1>1 DEF LuaInv, Reads, InOuter, InInner
<1>6. CASE LuaCall(def, fails, n)
  <2> DEFINE x == UnRegistered(DoFile(stack, fails, n))
             y == Registered(x, globals')
  <2>1. x.idx = [m \in Names |-> 0] /\ x.registry = [r \in Refs |-> 0] /\ x.count = 0
    BY <1>4, UnRegisteredRight
  <2>2. stack' = y.stack /\ idx' = y.idx /\ registry' = y.registry /\ lost' = FALSE
    BY <1>6 DEF LuaCall
  <2> HIDE DEF x
  <2>3. /\ y.stack = <<>> /\ Referred(y.idx, y.registry, globals')
        /\ \A m \in Names : y.idx[m] # 0 <=> globals'[m] # 0
    BY <1>2, <2>1, RegisteredRight
  <2> HIDE DEF y
  <2> QED BY <1>1, <1>2, <1>5, <2>2, <2>3 DEF LuaInv, Script
<1>7. CASE ReloadFile(def, undef, fails, n)
  <2> DEFINE s == IF idx["reload"] # 0 THEN CallRef(stack, 1, fails) ELSE stack
             x == UnRegistered(DoFile(s, fails, n))
             y == IF fails THEN x ELSE Registered(x, globals')
  <2>1. s = <<>>
    BY <1>3, CallRefEmpties
  <2>2. /\ idx' = y.idx /\ registry' = y.registry /\ lost' = fails
        /\ stack' = IF y.count > 0 /\ y.idx["reload"] # 0
                    THEN CallRef(y.stack, 1, FALSE) ELSE y.stack
    BY <1>7 DEF ReloadFile
  <2> HIDE DEF s
  <2>3. /\ x.idx = [m \in Names |-> 0] /\ x.registry = [r \in Refs |-> 0]
        /\ x.count = 0 /\ x.stack = DoFile(s, fails, n)
    BY <1>4, UnRegisteredRight
  <2> HIDE DEF x
  <2>4. /\ Referred(y.idx, y.registry, globals') /\ y.stack = <<>>
        /\ \A m \in Names : y.idx[m] # 0 <=> globals'[m] # 0 /\ ~fails
    <3>1. CASE fails
      <4>1. x.stack = <<>>
        BY <2>1, <2>3, <3>1, DoFileFails
      <4> QED BY <2>3, <3>1, <4>1, NothingKept
    <3>2. CASE ~fails
      <4>1. LET z == Registered(x, globals')
            IN  /\ z.stack = <<>> /\ Referred(z.idx, z.registry, globals')
                /\ \A m \in Names : z.idx[m] # 0 <=> globals'[m] # 0
        BY <1>2, <2>3, RegisteredRight
      <4> QED BY <3>2, <4>1
    <3> QED BY <3>1, <3>2
  <2> HIDE DEF y
  <2>5. CallRef(<<>>, 1, FALSE) = <<>>
    BY CallRefEmpties
  <2> QED BY <1>1, <1>2, <1>5, <2>2, <2>4, <2>5 DEF LuaInv, Script
<1> QED BY <1>6, <1>7

LEMMA CallStep ==
  ASSUME LuaInv,
         \/ \E f \in Funcs, n \in 0 .. 1, fails \in BOOLEAN : CallFunc(f, n, fails)
         \/ \E keys \in 1 .. 2, narg, nres \in 0 .. 1, shown, fails \in BOOLEAN :
              Call(keys, narg, nres, shown, fails)
  PROVE  LuaInv'
<1>1. reading = <<>> /\ UNCHANGED <<globals, registry, idx, loads, lost, luaTables, reading>>
  BY DEF CallFunc, Call, scripts
<1>2. stack = <<>>
  BY <1>1 DEF LuaInv, Reads, InOuter, InInner
<1>3. stack' = <<>>
  <2>1. CASE \E f \in Funcs, n \in 0 .. 1, fails \in BOOLEAN : CallFunc(f, n, fails)
    BY <1>2, <2>1, CallRefEmpties DEF CallFunc
  <2>2. CASE \E keys \in 1 .. 2, narg, nres \in 0 .. 1, shown, fails \in BOOLEAN :
               Call(keys, narg, nres, shown, fails)
    <3>1. \E s : stack' = SetTop(s, Len(stack))
      BY <2>2 DEF Call
    <3>2. Len(stack) = 0
      BY <1>2
    <3> QED BY <3>1, <3>2, SubSeqEmpty DEF SetTop
  <2> QED BY <2>1, <2>2
<1> QED BY <1>1, <1>2, <1>3 DEF LuaInv, Script, Reads, InOuter, InInner

LEMMA ContentsType ==
  ASSUME NEW values \in SUBSET {"number", "string", "inner", "other"},
         NEW t \in Contents(values)
  PROVE  t \in Seq(Pairs) /\ \A i \in 1 .. Len(t) : t[i].value \in values
<1> DEFINE P == [key : Keys, value : values]
<1>1. t \in SeqOf(P, MaxPairs)
  BY DEF Contents, BoundedSeq
<1>2. PICK m \in 0 .. MaxPairs : t \in [1 .. m -> P]
  BY <1>1 DEF SeqOf
<1>3. m \in Nat /\ t \in Seq(P) /\ Len(t) = m
  <2>1. m \in Nat
    BY LuaBridgeAssumption
  <2> HIDE DEF P
  <2> QED BY <1>2, <2>1
<1>4. P \subseteq Pairs
  BY DEF Pairs
<1>5. t \in Seq(Pairs)
  BY <1>3, <1>4, SeqMonotonic
<1>6. \A i \in 1 .. Len(t) : t[i] \in P
  BY <1>3, ElementOfSeq
<1> QED BY <1>5, <1>6

LEMMA OfNothing == OfOuter(0) = {} /\ OfInner(0) = {}
BY DEF OfOuter, OfInner

\* What one pair more adds.
LEMMA OfMore ==
  ASSUME NEW n \in Nat
  PROVE  /\ OfOuter(n + 1) = OfOuter(n) \cup
                (IF luaTables.outer[n + 1].value = "other" THEN {}
                 ELSE OfPair(luaTables.outer[n + 1], luaTables.inner))
         /\ OfInner(n + 1) = OfInner(n) \cup
                (IF luaTables.inner[n + 1].value = "other" THEN {}
                 ELSE {<<(<<luaTables.inner[n + 1].key>>), luaTables.inner[n + 1].value>>})
<1>1. 1 .. n + 1 = (1 .. n) \cup {n + 1}
  OBVIOUS
<1> QED BY <1>1 DEF OfOuter, OfInner

LEMMA ConcatIs ==
  ASSUME NEW S, NEW s \in Seq(S), NEW t \in Seq(S), NEW u \in Seq(S), Len(u) = Len(s) + Len(t),
         \A i \in 1 .. Len(s) + Len(t) : u[i] = IF i <= Len(s) THEN s[i] ELSE t[i - Len(s)]
  PROVE  s \o t = u
<1> DEFINE v == s \o t
<1>1. /\ v \in Seq(S) /\ Len(v) = Len(s) + Len(t)
      /\ \A i \in 1 .. Len(s) + Len(t) : v[i] = IF i <= Len(s) THEN s[i] ELSE t[i - Len(s)]
  BY ConcatProperties
<1> HIDE DEF v
<1>2. Len(v) = Len(u) /\ \A i \in 1 .. Len(v) : v[i] = u[i]
  BY <1>1
<1>3. v = u
  BY <1>1, <1>2, SeqEqual
<1> QED BY <1>3 DEF v

LEMMA Pair == \A a, b : <<a>> \o <<b>> = <<a, b>>
<1>1. TAKE a, b
<1> DEFINE S == {a, b}
<1>2. /\ <<a>> \in Seq(S) /\ <<b>> \in Seq(S) /\ <<a, b>> \in Seq(S)
      /\ Len(<<a>>) = 1 /\ Len(<<b>>) = 1 /\ Len(<<a, b>>) = 1 + 1
  OBVIOUS
<1>3. \A i \in 1 .. 1 + 1 : <<a, b>>[i] = IF i <= 1 THEN <<a>>[i] ELSE <<b>>[i - 1]
  <2>1. \A i \in 1 .. 1 + 1 : i = 1 \/ i = 2
    OBVIOUS
  <2> QED BY <2>1
<1> DEFINE s == <<a>>
           t == <<b>>
           u == <<a, b>>
<1>4. /\ s \in Seq(S) /\ t \in Seq(S) /\ u \in Seq(S) /\ Len(u) = Len(s) + Len(t)
      /\ \A i \in 1 .. Len(s) + Len(t) : u[i] = IF i <= Len(s) THEN s[i] ELSE t[i - Len(s)]
  BY <1>2, <1>3
<1> HIDE DEF S, s, t, u
<1>5. s \o t = u
  BY <1>4, ConcatIs
<1> QED BY <1>5 DEF s, t, u

LEMMA AppendSecond == \A a, b : Append(<<a>>, b) = <<a, b>>
<1>1. TAKE a, b
<1> DEFINE S == {a, b}
<1>2. <<a>> \in Seq(S) /\ b \in S
  OBVIOUS
<1> HIDE DEF S
<1>3. Append(<<a>>, b) = <<a>> \o <<b>>
  BY <1>2, AppendIsConcat
<1> QED BY <1>3, Pair

LEMMA Triple == \A a, b, c : <<a>> \o <<b, c>> = <<a, b, c>>
<1>1. TAKE a, b, c
<1> DEFINE S == {a, b, c}
           s == <<a>>
           t == <<b, c>>
           u == <<a, b, c>>
<1>2. /\ s \in Seq(S) /\ t \in Seq(S) /\ u \in Seq(S)
      /\ Len(s) = 1 /\ Len(t) = 2 /\ Len(u) = 1 + 2
  OBVIOUS
<1>3. \A i \in 1 .. 1 + 2 : u[i] = IF i <= 1 THEN s[i] ELSE t[i - 1]
  <2>1. \A i \in 1 .. 1 + 2 : i = 1 \/ i = 2 \/ i = 3
    OBVIOUS
  <2> QED BY <2>1
<1> HIDE DEF S, s, t, u
<1>4. s \o t = u
  <2>1. Len(u) = Len(s) + Len(t) /\ 1 + 2 = Len(s) + Len(t)
    BY <1>2
  <2>2. \A i \in 1 .. Len(s) + Len(t) : u[i] = IF i <= Len(s) THEN s[i] ELSE t[i - Len(s)]
    BY <1>2, <1>3
  <2> QED BY <1>2, <2>1, <2>2, ConcatIs
<1> QED BY <1>4 DEF s, t, u

LEMMA Quadruple == \A a, b, c, d : Append(<<a, b, c>>, d) = <<a, b, c, d>>
<1>1. TAKE a, b, c, d
<1> DEFINE S == {a, b, c, d}
           s == <<a, b, c>>
           t == <<d>>
           u == <<a, b, c, d>>
<1>2. /\ s \in Seq(S) /\ t \in Seq(S) /\ u \in Seq(S) /\ d \in S
      /\ Len(s) = 3 /\ Len(t) = 1 /\ Len(u) = 3 + 1
  OBVIOUS
<1>3. \A i \in 1 .. 3 + 1 : u[i] = IF i <= 3 THEN s[i] ELSE t[i - 3]
  <2>1. \A i \in 1 .. 3 + 1 : i = 1 \/ i = 2 \/ i = 3 \/ i = 4
    OBVIOUS
  <2> QED BY <2>1
<1>4. t = <<d>>
  OBVIOUS
<1> HIDE DEF S, s, t, u
<1>5. s \o t = u /\ Append(s, d) = s \o <<d>>
  <2>1. Len(u) = Len(s) + Len(t) /\ 3 + 1 = Len(s) + Len(t)
    BY <1>2
  <2>2. \A i \in 1 .. Len(s) + Len(t) : u[i] = IF i <= Len(s) THEN s[i] ELSE t[i - Len(s)]
    BY <1>2, <1>3
  <2> QED BY <1>2, <2>1, <2>2, ConcatIs, AppendIsConcat
<1>6. Append(s, d) = u
  BY ONLY <1>4, <1>5
<1> QED BY <1>6 DEF s, t, u

LEMMA BeginStep ==
  ASSUME LuaInv, ReadLuaTable
  PROVE  LuaInv'
<1>1. reading = <<>> /\ stack = <<>>
  BY DEF ReadLuaTable, LuaInv, Reads, InOuter, InInner
<1>2. PICK outer \in OuterTables, inner \in InnerTables :
        luaTables' = [outer |-> outer, inner |-> inner]
  BY DEF ReadLuaTable
<1>3. /\ outer \in Seq(Pairs) /\ inner \in Seq(Pairs)
      /\ \A i \in 1 .. Len(inner) : inner[i].value # "inner"
  <2>1. /\ {"string", "inner", "other"} \in SUBSET {"number", "string", "inner", "other"}
        /\ {"number"} \in SUBSET {"number", "string", "inner", "other"}
        /\ "inner" \notin {"number"}
    OBVIOUS
  <2>2. outer \in Seq(Pairs)
    BY <2>1, ContentsType DEF OuterTables
  <2>3. inner \in Seq(Pairs) /\ \A i \in 1 .. Len(inner) : inner[i].value \in {"number"}
    BY <2>1, ContentsType DEF InnerTables
  <2> QED BY <2>1, <2>2, <2>3
<1>4. stack' = <<"outer", "nil">>
  <2>1. SetTop(<<>>, 0) = <<>>
    BY SubSeqEmpty DEF SetTop
  <2>2. stack' = Append(SetTop(<<>>, 0), "outer") \o <<"nil">>
    <3>1. Len(stack) = 0 /\ stack' = PushLuaVal(stack, 2, "outer") \o <<"nil">>
      BY <1>1 DEF ReadLuaTable
    <3> QED BY <1>1, <3>1 DEF PushLuaVal
  <2>3. stack' = <<"outer">> \o <<"nil">>
    BY <2>1, <2>2
  <2> QED BY ONLY <2>3, Pair
<1>5. reading' = <<[index |-> 1, at |-> 1, key |-> "", ret |-> {}]>>
  <2>1. Len(stack) + 1 = 1 /\ reading' = <<Frame(Len(stack) + 1)>>
    BY <1>1 DEF ReadLuaTable
  <2> QED BY <2>1 DEF Frame
<1>6. OfOuter(0)' = {}
  BY DEF OfOuter
<1>7. InOuter'
  <2>1. 1 \in 1 .. Len(outer) + 1 /\ luaTables'.outer = outer /\ 1 - 1 = 0
    BY <1>2, <1>3
  <2>2. reading' = <<[index |-> 1, at |-> 1, key |-> "", ret |-> OfOuter(1 - 1)']>>
    BY <1>5, <1>6, <2>1
  <2> QED BY <1>4, <2>1, <2>2 DEF InOuter
<1>8. Script'
  BY DEF LuaInv, Script, ReadLuaTable, scripts
<1>9. loads' # 0
  BY LuaBridgeAssumption DEF ReadLuaTable, scripts
<1> QED BY <1>2, <1>3, <1>7, <1>8, <1>9 DEF LuaInv, Reads

LEMMA LuaTop ==
  ASSUME LuaInv
  PROVE  /\ InOuter => Table = luaTables.outer /\ reading # <<>> /\ Len(reading) = 1
         /\ InInner => Table = luaTables.inner /\ reading # <<>> /\ Len(reading) = 2
<1>1. CASE InOuter
  BY <1>1 DEF InOuter, InInner, Table, Top, Last
<1>2. CASE InInner
  BY <1>2 DEF InOuter, InInner, Table, Top, Last
<1> QED BY <1>1, <1>2 DEF InOuter, InInner

LEMMA ReadsLater == LuaInv /\ (InOuter \/ InInner) => loads # 0
BY LuaTop DEF LuaInv, Reads

\* What was entered before is under other keys.
LEMMA OfEarlier ==
  ASSUME LuaInv, Exact, NEW X
  PROVE  /\ \A n \in 1 .. Len(luaTables.outer) :
              Entering(OfOuter(n - 1), luaTables.outer[n].key, X) = OfOuter(n - 1) \cup X
         /\ \A n \in 1 .. Len(luaTables.inner) :
              Entering(OfInner(n - 1), luaTables.inner[n].key, X) = OfInner(n - 1) \cup X
<1> DEFINE t == luaTables.outer
           s == luaTables.inner
<1>1. /\ Len(t) \in Nat /\ Len(s) \in Nat /\ DOMAIN t = 1 .. Len(t) /\ DOMAIN s = 1 .. Len(s)
  BY LenProperties DEF LuaInv, Reads
<1>2. /\ \A i, j \in 1 .. Len(t) : t[i].key = t[j].key => i = j
      /\ \A i, j \in 1 .. Len(s) : s[i].key = s[j].key => i = j
  BY <1>1 DEF Exact, Named
<1>3. ASSUME NEW n \in 1 .. Len(t), NEW e \in OfOuter(n - 1) PROVE e[1][1] # t[n].key
  <2>1. PICK j \in 1 .. n - 1 : e \in OfPair(t[j], s)
    BY DEF OfOuter
  <2>2. e[1][1] = t[j].key
    BY <2>1 DEF OfPair
  <2>3. j \in 1 .. Len(t) /\ j # n
    BY <1>1
  <2> QED BY <1>2, <2>2, <2>3
<1>4. ASSUME NEW n \in 1 .. Len(s), NEW e \in OfInner(n - 1) PROVE e[1][1] # s[n].key
  <2>1. PICK j \in 1 .. n - 1 : e[1][1] = s[j].key
    BY DEF OfInner
  <2>2. j \in 1 .. Len(s) /\ j # n
    BY <1>1
  <2> QED BY <1>2, <2>1, <2>2
<1> HIDE DEF t, s
<1>5. \A n \in 1 .. Len(t) : Entering(OfOuter(n - 1), t[n].key, X) = OfOuter(n - 1) \cup X
  BY <1>3 DEF Entering
<1>6. \A n \in 1 .. Len(s) : Entering(OfInner(n - 1), s[n].key, X) = OfInner(n - 1) \cup X
  BY <1>4 DEF Entering
<1> QED BY <1>5, <1>6 DEF t, s

LEMMA TakesOuter ==
  ASSUME LuaInv, InOuter, TakesPair
  PROVE  LuaInv'
<1>1. PICK at \in 1 .. Len(luaTables.outer) + 1 : \E key, top, ret :
        /\ stack = <<"outer", top>>
        /\ reading = <<[index |-> 1, at |-> at, key |-> key, ret |-> ret]>>
        /\ Exact => ret = OfOuter(at - 1)
  BY DEF InOuter
<1>2. PICK key, top, ret :
        /\ stack = <<"outer", top>>
        /\ reading = <<[index |-> 1, at |-> at, key |-> key, ret |-> ret]>>
        /\ Exact => ret = OfOuter(at - 1)
  BY <1>1
<1> DEFINE t == luaTables.outer
           p == t[at]
           k == KeyName(p.key)
           X == {<<(<<k>>), p.value>>}
           frame == [Top EXCEPT !.at = @ + 1, !.key = k,
                                !.ret = IF p.value \in {"number", "string"}
                                        THEN Entering(@, k, X) ELSE @]
           more == IF p.value \in {"number", "string"} THEN Entering(ret, k, X) ELSE ret
           pushed == Pop(stack, 1) \o <<p.key, p.value>>
<1>3. Top = [index |-> 1, at |-> at, key |-> key, ret |-> ret] /\ Table = t
  BY <1>2, LuaTop DEF Top, Last
<1>4. /\ t \in Seq(Pairs) /\ at \in 1 .. Len(t) /\ at \in Nat /\ at + 1 \in 1 .. Len(t) + 1
      /\ (at + 1) - 1 = at /\ at - 1 \in Nat /\ (at - 1) + 1 = at /\ DOMAIN t = 1 .. Len(t)
  <2>1. t \in Seq(Pairs) /\ Len(t) \in Nat /\ DOMAIN t = 1 .. Len(t)
    BY DEF LuaInv, Reads
  <2>2. at <= Len(t)
    BY <1>3 DEF TakesPair
  <2> QED BY <2>1, <2>2
<1>5. p \in Pairs /\ (Exact => (p.key = "flag" => p.value = "other"))
  BY <1>4, ElementOfSeq DEF LuaInv, Reads, Exact, Named
<1>6. pushed = <<"outer", p.key, p.value>>
  <2> DEFINE S == {"outer", top}
  <2>1. <<"outer">> \in Seq(S) /\ top \in S /\ stack = Append(<<"outer">>, top)
    BY <1>2
  <2> HIDE DEF S
  <2>2. Pop(stack, 1) = <<"outer">>
    BY <2>1, PopOne
  <2> QED BY <2>2, Triple
<1>7. frame = [index |-> 1, at |-> at + 1, key |-> k, ret |-> more]
  <2> DEFINE v == p.value
  <2>1. Top = [index |-> 1, at |-> at, key |-> key, ret |-> ret]
    BY <1>3
  <2>2. frame = [Top EXCEPT !.at = @ + 1, !.key = k,
                            !.ret = IF v \in {"number", "string"} THEN Entering(@, k, X) ELSE @]
    OBVIOUS
  <2>3. more = IF v \in {"number", "string"} THEN Entering(ret, k, X) ELSE ret
    OBVIOUS
  <2> HIDE DEF v, k, X, frame, more
  <2> QED BY ONLY <2>1, <2>2, <2>3
<1>8. OfOuter(at) = OfOuter(at - 1) \cup
                      (IF p.value = "other" THEN {} ELSE OfPair(p, luaTables.inner))
  BY <1>4, OfMore
<1>9. /\ UNCHANGED luaTables /\ loads' # 0 /\ Script' /\ (\A n : OfOuter(n)' = OfOuter(n))
      /\ (\A n : OfInner(n)' = OfInner(n)) /\ Exact' = Exact
  BY ReadsLater DEF TakesPair, LuaInv, Script, scripts, OfOuter, OfInner, Exact
<1>10. IF p.value = "inner"
       THEN /\ stack' = Append(pushed, "nil")
            /\ reading' = Front(reading) \o <<frame, Frame(Len(pushed))>>
       ELSE /\ stack' = Pop(pushed, 1)
            /\ reading' = Append(Front(reading), frame)
  BY <1>3 DEF TakesPair
<1>11. Front(reading) = <<>>
  BY <1>2, SubSeqEmpty DEF Front
<1>12. Exact /\ p.value # "other" => k = p.key
  BY <1>5 DEF KeyName
<1>a. p.value \in {"number", "string"} => more = Entering(ret, k, X)
  OBVIOUS
<1>b. p.value \notin {"number", "string"} => more = ret
  OBVIOUS
<1> HIDE DEF pushed, frame, k, more
<1>13. CASE p.value = "inner"
  <2>1. stack' = <<"outer", p.key, "inner", "nil">>
    <3> DEFINE v == p.value
               u == p.key
    <3>1. stack' = Append(<<"outer", u, v>>, "nil") /\ v = "inner"
      BY <1>6, <1>10, <1>13
    <3> HIDE DEF u, v
    <3>2. Append(<<"outer", u, v>>, "nil") = <<"outer", u, v, "nil">>
      BY ONLY Quadruple
    <3> QED BY ONLY <3>1, <3>2 DEF u
  <2>2. /\ frame = [index |-> 1, at |-> at + 1, key |-> k, ret |-> ret]
        /\ Exact => k = p.key /\ ret = OfOuter(at - 1)
    BY <1>2, <1>7, <1>12, <1>13, <1>b
  <2>3. Frame(Len(pushed)) = [index |-> 3, at |-> 1, key |-> "", ret |-> {}]
    BY <1>6 DEF Frame
  <2>4. reading' = <<frame, Frame(Len(pushed))>>
    BY <1>10, <1>11, <1>13
  <2>5. 1 \in 1 .. Len(luaTables.inner) + 1 /\ OfInner(1 - 1) = {}
    <3>1. Len(luaTables.inner) \in Nat /\ 1 - 1 = 0
      BY DEF LuaInv, Reads
    <3> QED BY <3>1, OfNothing
  <2>6. InInner'
    BY <1>4, <1>9, <1>13, <2>1, <2>2, <2>3, <2>4, <2>5 DEF InInner
  <2> QED BY <1>9, <2>6 DEF LuaInv, Reads
<1>14. CASE p.value # "inner"
  <2>1. stack' = <<"outer", p.key>>
    <3> DEFINE S == {"outer", p.key, p.value}
    <3>1. <<"outer", p.key>> \in Seq(S) /\ p.value \in S
          /\ pushed = Append(<<"outer", p.key>>, p.value)
      BY <1>6
    <3> HIDE DEF S
    <3>2. Pop(pushed, 1) = <<"outer", p.key>>
      BY <3>1, PopOne
    <3> QED BY <1>10, <1>14, <3>2
  <2>2. reading' = <<frame>>
    BY <1>10, <1>11, <1>14
  <2>3. Exact => more = OfOuter(at)
    <3> SUFFICES ASSUME Exact PROVE more = OfOuter(at)
      OBVIOUS
    <3>1. CASE p.value = "other"
      BY <1>2, <1>8, <1>b, <3>1
    <3>2. CASE p.value # "other"
      <4>1. OfPair(p, luaTables.inner) = {<<(<<p.key>>), p.value>>}
        BY <1>14 DEF OfPair
      <4>2. p.value \in {"number", "string"}
        BY <1>5, <1>14, <3>2 DEF Pairs
      <4>3. k = p.key /\ X = {<<(<<p.key>>), p.value>>}
        BY <1>12, <3>2
      <4> HIDE DEF X
      <4>4. Entering(OfOuter(at - 1), p.key, X) = OfOuter(at - 1) \cup X
        BY <1>4, OfEarlier
      <4> QED BY <1>2, <1>8, <1>a, <3>2, <4>1, <4>2, <4>3, <4>4
    <3> QED BY <3>1, <3>2
  <2>4. InOuter'
    BY <1>4, <1>7, <1>9, <2>1, <2>2, <2>3 DEF InOuter
  <2> QED BY <1>9, <2>4 DEF LuaInv, Reads
<1> QED BY <1>13, <1>14

LEMMA TakesInner ==
  ASSUME LuaInv, InInner, TakesPair
  PROVE  LuaInv'
<1>1. PICK i \in 1 .. Len(luaTables.outer), at \in 1 .. Len(luaTables.inner) + 1 :
        \E key, top, name, before, ret :
        /\ luaTables.outer[i].value = "inner"
        /\ stack = <<"outer", luaTables.outer[i].key, "inner", top>>
        /\ reading = <<[index |-> 1, at |-> i + 1, key |-> name, ret |-> before],
                      [index |-> 3, at |-> at, key |-> key, ret |-> ret]>>
        /\ Exact => name = luaTables.outer[i].key /\ before = OfOuter(i - 1) /\ ret = OfInner(at - 1)
  BY DEF InInner
<1>2. PICK key, top, name, before, ret :
        /\ luaTables.outer[i].value = "inner"
        /\ stack = <<"outer", luaTables.outer[i].key, "inner", top>>
        /\ reading = <<[index |-> 1, at |-> i + 1, key |-> name, ret |-> before],
                      [index |-> 3, at |-> at, key |-> key, ret |-> ret]>>
        /\ Exact => name = luaTables.outer[i].key /\ before = OfOuter(i - 1) /\ ret = OfInner(at - 1)
  BY <1>1
<1> DEFINE t == luaTables.inner
           o == luaTables.outer[i].key
           p == t[at]
           k == KeyName(p.key)
           X == {<<(<<k>>), p.value>>}
           f == [index |-> 1, at |-> i + 1, key |-> name, ret |-> before]
           frame == [Top EXCEPT !.at = @ + 1, !.key = k,
                                !.ret = IF p.value \in {"number", "string"}
                                        THEN Entering(@, k, X) ELSE @]
           more == IF p.value \in {"number", "string"} THEN Entering(ret, k, X) ELSE ret
           pushed == Pop(stack, 1) \o <<p.key, p.value>>
<1>3. Top = [index |-> 3, at |-> at, key |-> key, ret |-> ret] /\ Table = t
  BY <1>2, LuaTop DEF Top, Last
<1>4. /\ t \in Seq(Pairs) /\ at \in 1 .. Len(t) /\ at \in Nat /\ at + 1 \in 1 .. Len(t) + 1
      /\ (at + 1) - 1 = at /\ at - 1 \in Nat /\ (at - 1) + 1 = at /\ DOMAIN t = 1 .. Len(t)
  <2>1. t \in Seq(Pairs) /\ Len(t) \in Nat /\ DOMAIN t = 1 .. Len(t)
    BY DEF LuaInv, Reads
  <2>2. at <= Len(t)
    BY <1>3 DEF TakesPair
  <2> QED BY <2>1, <2>2
<1>5. p \in Pairs /\ p.value # "inner" /\ (Exact => (p.key = "flag" => p.value = "other"))
  BY <1>4, ElementOfSeq DEF LuaInv, Reads, Exact, Named
<1>6. pushed = <<"outer", o, "inner">> \o <<p.key, p.value>>
  <2> DEFINE S == {"outer", o, "inner", top}
             s == <<"outer", o, "inner">>
  <2>1. s \in Seq(S) /\ top \in S
    OBVIOUS
  <2>2. Append(s, top) = <<"outer", o, "inner", top>>
    <3> DEFINE w == o
    <3> HIDE DEF w
    <3>1. Append(<<"outer", w, "inner">>, top) = <<"outer", w, "inner", top>>
      BY ONLY Quadruple
    <3> QED BY <3>1 DEF w
  <2>3. stack = Append(s, top)
    BY <1>2, <2>2
  <2> HIDE DEF S, s
  <2>4. Pop(stack, 1) = s
    BY <2>1, <2>3, PopOne
  <2> QED BY <2>4 DEF s
<1>7. frame = [index |-> 3, at |-> at + 1, key |-> k, ret |-> more]
  <2> DEFINE v == p.value
  <2>1. Top = [index |-> 3, at |-> at, key |-> key, ret |-> ret]
    BY <1>3
  <2>2. frame = [Top EXCEPT !.at = @ + 1, !.key = k,
                            !.ret = IF v \in {"number", "string"} THEN Entering(@, k, X) ELSE @]
    OBVIOUS
  <2>3. more = IF v \in {"number", "string"} THEN Entering(ret, k, X) ELSE ret
    OBVIOUS
  <2> HIDE DEF v, k, X, frame, more
  <2> QED BY ONLY <2>1, <2>2, <2>3
<1>8. OfInner(at) = OfInner(at - 1) \cup
                      (IF p.value = "other" THEN {} ELSE {<<(<<p.key>>), p.value>>})
  BY <1>4, OfMore
<1>9. /\ UNCHANGED luaTables /\ loads' # 0 /\ Script' /\ (\A n : OfOuter(n)' = OfOuter(n))
      /\ (\A n : OfInner(n)' = OfInner(n)) /\ Exact' = Exact
  BY ReadsLater DEF TakesPair, LuaInv, Script, scripts, OfOuter, OfInner, Exact
<1>10. stack' = Pop(pushed, 1) /\ reading' = Append(Front(reading), frame)
  BY <1>3, <1>5 DEF TakesPair
<1>11. Front(reading) = <<f>>
  <2> DEFINE g == [index |-> 3, at |-> at, key |-> key, ret |-> ret]
             S == {f, g}
  <2>1. reading = <<f, g>>
    BY <1>2
  <2> HIDE DEF f, g
  <2>2. <<f>> \in Seq(S) /\ g \in S /\ reading = Append(<<f>>, g) /\ Front(reading) = Pop(reading, 1)
    BY <2>1 DEF Front, Pop
  <2> HIDE DEF S
  <2> QED BY <2>2, PopOne
<1>12. Exact /\ p.value # "other" => k = p.key
  BY <1>5 DEF KeyName
<1>a. p.value \in {"number", "string"} => more = Entering(ret, k, X)
  OBVIOUS
<1>b. p.value \notin {"number", "string"} => more = ret
  OBVIOUS
<1>13. stack' = <<"outer", o, "inner", p.key>>
  <2> DEFINE w == o
             q == p.key
             v == p.value
             S == {"outer", w, "inner", q, v}
             s == <<"outer", w, "inner">>
             e == <<q>>
  <2>1. /\ s \in Seq(S) /\ e \in Seq(S) /\ v \in S /\ q \in S
    OBVIOUS
  <2>2. <<q, v>> = e \o <<v>> /\ pushed = s \o <<q, v>>
    BY <1>6, Pair
  <2>3. Append(<<"outer", w, "inner">>, q) = <<"outer", w, "inner", q>>
    <3> HIDE DEF w, q
    <3> QED BY ONLY Quadruple
  <2>4. e = <<q>> /\ <<v>> \in Seq(S)
    OBVIOUS
  <2>5. Append(s, q) = <<"outer", w, "inner", q>>
    BY <2>3
  <2> HIDE DEF w, q, v, S, s, e, pushed
  <2>6. pushed = (s \o e) \o <<v>> /\ s \o e \in Seq(S)
    BY <2>1, <2>2, <2>4, ConcatAssociative, ConcatProperties
  <2>7. pushed = Append(s \o e, v)
    BY <2>1, <2>6, AppendIsConcat
  <2>8. Pop(pushed, 1) = s \o e
    BY <2>1, <2>6, <2>7, PopOne
  <2>9. s \o e = Append(s, q)
    BY <2>1, <2>4, AppendIsConcat
  <2> QED BY <1>10, <2>5, <2>8, <2>9 DEF w, q
<1> HIDE DEF pushed, frame, k, more
<1>14. reading' = <<f, frame>>
  <2> HIDE DEF f
  <2>1. reading' = Append(<<f>>, frame)
    BY <1>10, <1>11
  <2> QED BY ONLY <2>1, AppendSecond
<1>15. Exact => more = OfInner(at)
  <2> SUFFICES ASSUME Exact PROVE more = OfInner(at)
    OBVIOUS
  <2>1. CASE p.value = "other"
    BY <1>2, <1>8, <1>b, <2>1
  <2>2. CASE p.value # "other"
    <3>1. p.value \in {"number", "string"}
      BY <1>5, <2>2 DEF Pairs
    <3>2. k = p.key /\ X = {<<(<<p.key>>), p.value>>}
      BY <1>12, <2>2
    <3> HIDE DEF X
    <3>3. Entering(OfInner(at - 1), p.key, X) = OfInner(at - 1) \cup X
      BY <1>4, OfEarlier
    <3> QED BY <1>2, <1>8, <1>a, <2>2, <3>1, <3>2, <3>3
  <2> QED BY <2>1, <2>2
<1>16. InInner'
  <2>1. /\ luaTables'.outer[i].value = "inner" /\ luaTables'.outer[i].key = o
        /\ i \in 1 .. Len(luaTables'.outer) /\ at + 1 \in 1 .. Len(luaTables'.inner) + 1
    BY <1>2, <1>4, <1>9
  <2>2. f = [index |-> 1, at |-> i + 1, key |-> name, ret |-> before]
    OBVIOUS
  <2>3. Exact' => name = o /\ before = OfOuter(i - 1)' /\ more = OfInner((at + 1) - 1)'
    BY <1>2, <1>4, <1>9, <1>15
  <2> HIDE DEF o, f, p
  <2> QED BY <1>7, <1>13, <1>14, <2>1, <2>2, <2>3 DEF InInner
<1> QED BY <1>9, <1>16 DEF LuaInv, Reads

\* What was read of an inner table, under its key.
LEMMA OfInnerAll ==
  ASSUME LuaInv, NEW p, p.value = "inner"
  PROVE  OfPair(p, luaTables.inner) =
           {<<(<<p.key>>), "inner">>} \cup
           {<<(<<p.key>> \o e[1]), e[2]>> : e \in OfInner(Len(luaTables.inner))}
<1> DEFINE t == luaTables.inner
           I == {j \in 1 .. Len(t) : t[j].value # "other"}
           E == {<<(<<p.key>> \o e[1]), e[2]>> : e \in OfInner(Len(t))}
           Q == {<<<<p.key, q.key>>, q.value>> : q \in Entered(t)}
<1>1. DOMAIN t = 1 .. Len(t)
  BY LenProperties DEF LuaInv, Reads
<1>2. Entered(t) = {t[j] : j \in I}
  BY <1>1 DEF Entered, ToSet
<1>3. OfInner(Len(t)) = {<<(<<t[j].key>>), t[j].value>> : j \in I}
  BY DEF OfInner
<1>4. Q = {<<<<p.key, t[j].key>>, t[j].value>> : j \in I}
  BY <1>2
<1>5. E = {<<(<<p.key>> \o <<t[j].key>>), t[j].value>> : j \in I}
  <2> DEFINE x(j) == <<t[j].key>>
             v(j) == t[j].value
  <2> HIDE DEF I
  <2>1. OfInner(Len(t)) = {<<x(j), v(j)>> : j \in I}
    BY <1>3
  <2>2. E = {<<(<<p.key>> \o e[1]), e[2]>> : e \in {<<x(j), v(j)>> : j \in I}}
    BY <2>1
  <2>3. \A j : <<x(j), v(j)>>[1] = x(j) /\ <<x(j), v(j)>>[2] = v(j)
    OBVIOUS
  <2> HIDE DEF x, v, E
  <2>4. E = {<<(<<p.key>> \o <<x(j), v(j)>>[1]), <<x(j), v(j)>>[2]>> : j \in I}
    BY ONLY <2>2
  <2>5. E = {<<(<<p.key>> \o x(j)), v(j)>> : j \in I}
    BY ONLY <2>3, <2>4
  <2> QED BY <2>5 DEF x, v
<1>6. \A j : <<p.key>> \o <<t[j].key>> = <<p.key, t[j].key>>
  BY Pair
<1>7. E = Q
  <2> HIDE DEF I, E, Q
  <2> QED BY <1>4, <1>5, <1>6
<1> QED BY <1>7 DEF OfPair

LEMMA ReturnsStep ==
  ASSUME LuaInv, Returns
  PROVE  LuaInv'
<1>0. Script'
  BY DEF LuaInv, Script, Returns, scripts
<1>1. CASE InOuter
  <2>1. PICK top : stack = <<"outer", top>>
    BY <1>1 DEF InOuter
  <2>2. stack' = <<>>
    <3> DEFINE S == {"outer", top}
               e == <<>>
               s == <<"outer">>
    <3>1. /\ s \in Seq(S) /\ top \in S /\ "outer" \in S /\ e \in Seq(S)
          /\ stack = Append(s, top) /\ s = Append(e, "outer")
      BY <2>1
    <3> HIDE DEF S, s, e
    <3>2. Pop(stack, 1) = s
      BY <3>1, PopOne
    <3>3. Pop(s, 1) = e
      BY <3>1, PopOne
    <3> QED BY <3>2, <3>3 DEF Returns, e
  <2>3. reading' = <<>> /\ luaTables' = [outer |-> <<>>, inner |-> <<>>]
    BY <1>1, LuaTop DEF Returns
  <2>4. Reads'
    BY <2>2, <2>3 DEF Reads
  <2> QED BY <1>0, <2>4 DEF LuaInv
<1>2. CASE InInner
  <2>1. PICK i \in 1 .. Len(luaTables.outer), at \in 1 .. Len(luaTables.inner) + 1 :
          \E key, top, name, before, ret :
          /\ luaTables.outer[i].value = "inner"
          /\ stack = <<"outer", luaTables.outer[i].key, "inner", top>>
          /\ reading = <<[index |-> 1, at |-> i + 1, key |-> name, ret |-> before],
                        [index |-> 3, at |-> at, key |-> key, ret |-> ret]>>
          /\ Exact => name = luaTables.outer[i].key /\ before = OfOuter(i - 1) /\ ret = OfInner(at - 1)
    BY <1>2 DEF InInner
  <2>2. PICK key, top, name, before, ret :
          /\ luaTables.outer[i].value = "inner"
          /\ stack = <<"outer", luaTables.outer[i].key, "inner", top>>
          /\ reading = <<[index |-> 1, at |-> i + 1, key |-> name, ret |-> before],
                        [index |-> 3, at |-> at, key |-> key, ret |-> ret]>>
          /\ Exact => name = luaTables.outer[i].key /\ before = OfOuter(i - 1) /\ ret = OfInner(at - 1)
    BY <2>1
  <2> DEFINE p == luaTables.outer[i]
             o == p.key
             f == [index |-> 1, at |-> i + 1, key |-> name, ret |-> before]
             Y == {<<(<<name>>), "inner">>} \cup {<<(<<name>> \o e[1]), e[2]>> : e \in Top.ret}
             more == Entering(before, name, Y)
  <2>3. /\ Top = [index |-> 3, at |-> at, key |-> key, ret |-> ret]
        /\ Table = luaTables.inner /\ Len(reading) = 2 /\ reading[1] = f
    BY <1>2, <2>2, LuaTop DEF Top, Last
  <2>4. /\ Len(luaTables.inner) \in Nat /\ Len(luaTables.outer) \in Nat
    BY DEF LuaInv, Reads
  <2>5. at - 1 = Len(luaTables.inner)
    BY <2>3, <2>4 DEF Returns
  <2>6. /\ i \in Nat /\ i + 1 \in 1 .. Len(luaTables.outer) + 1 /\ (i + 1) - 1 = i
        /\ i - 1 \in Nat /\ (i - 1) + 1 = i
    BY <2>4
  <2>7. stack' = <<"outer", o>>
    <3> DEFINE w == o
               S == {"outer", w, "inner", top}
               s == <<"outer", w>>
               u == <<"outer", w, "inner">>
    <3>1. u \in Seq(S) /\ top \in S /\ s \in Seq(S) /\ "inner" \in S /\ u = Append(s, "inner")
      OBVIOUS
    <3>2. Append(u, top) = <<"outer", w, "inner", top>>
      <4> HIDE DEF w
      <4>1. Append(<<"outer", w, "inner">>, top) = <<"outer", w, "inner", top>>
        BY ONLY Quadruple
      <4> QED BY <4>1
    <3>3. stack = Append(u, top)
      BY <2>2, <3>2
    <3> HIDE DEF S, s, u
    <3>4. Pop(stack, 1) = u
      BY <3>1, <3>3, PopOne
    <3>5. Pop(u, 1) = s
      BY <3>1, PopOne
    <3> QED BY <3>4, <3>5 DEF Returns, s
  <2>8. OfOuter(i) = OfOuter(i - 1) \cup OfPair(p, luaTables.inner)
    BY <2>2, <2>6, OfMore
  <2>9. Exact => more = OfOuter(i)
    <3> SUFFICES ASSUME Exact PROVE more = OfOuter(i)
      OBVIOUS
    <3>1. name = o /\ before = OfOuter(i - 1) /\ Top.ret = OfInner(Len(luaTables.inner))
      BY <2>2, <2>3, <2>5
    <3>2. OfPair(p, luaTables.inner) = {<<(<<o>>), "inner">>} \cup
            {<<(<<o>> \o e[1]), e[2]>> : e \in OfInner(Len(luaTables.inner))}
      BY <2>2, OfInnerAll
    <3>3. Y = OfPair(p, luaTables.inner)
      BY <3>1, <3>2
    <3> HIDE DEF Y
    <3>4. Entering(OfOuter(i - 1), o, Y) = OfOuter(i - 1) \cup Y
      BY OfEarlier
    <3> QED BY <2>8, <3>1, <3>3, <3>4
  <2>10. UNCHANGED luaTables /\ reading' = <<[f EXCEPT !.ret = Entering(@, f.key,
           {<<(<<f.key>>), "inner">>} \cup {<<(<<f.key>> \o e[1]), e[2]>> : e \in Top.ret})]>>
    <3> HIDE DEF f
    <3>1. Len(reading) # 1
      BY <2>3
    <3> QED BY <2>3, <3>1 DEF Returns
  <2>11. reading' = <<[index |-> 1, at |-> i + 1, key |-> name, ret |-> more]>>
    <3>1. f.key = name
      OBVIOUS
    <3>2. reading' = <<[f EXCEPT !.ret = Entering(@, name, Y)]>>
      <4> HIDE DEF f
      <4> QED BY <2>10, <3>1
    <3>3. [f EXCEPT !.ret = Entering(@, name, Y)] =
            [index |-> 1, at |-> i + 1, key |-> name, ret |-> more]
      <4> DEFINE n == i + 1
      <4>1. f = [index |-> 1, at |-> n, key |-> name, ret |-> before]
        OBVIOUS
      <4>2. more = Entering(before, name, Y)
        OBVIOUS
      <4> HIDE DEF n, f, Y, more
      <4>3. [f EXCEPT !.ret = Entering(@, name, Y)] = [index |-> 1, at |-> n, key |-> name, ret |-> more]
        BY ONLY <4>1, <4>2
      <4> QED BY <4>3 DEF n
    <3> QED BY ONLY <3>2, <3>3
  <2>12. \A n : OfOuter(n)' = OfOuter(n)
    BY <2>10 DEF OfOuter
  <2>13. InOuter'
    <3>1. Exact' => more = OfOuter((i + 1) - 1)'
      BY <2>6, <2>9, <2>10, <2>12 DEF Exact
    <3> HIDE DEF o, more
    <3>2. i + 1 \in 1 .. Len(luaTables'.outer) + 1
      BY <2>6, <2>10
    <3> QED BY <2>7, <2>11, <3>1, <3>2 DEF InOuter
  <2>14. loads' # 0
    BY <1>2, ReadsLater DEF Returns, scripts
  <2> QED BY <1>0, <2>10, <2>13, <2>14 DEF LuaInv, Reads
<1>3. InOuter \/ InInner
  BY DEF LuaInv, Reads, Returns
<1> QED BY <1>1, <1>2, <1>3

LEMMA LuaStep == LuaInv /\ [LuaNext]_luaVars => LuaInv'
<1> SUFFICES ASSUME LuaInv, [LuaNext]_luaVars
             PROVE  LuaInv'
  OBVIOUS
<1>1. ASSUME NEW def \in SUBSET Names, NEW fails \in BOOLEAN, NEW n \in 0 .. 1,
             LuaCall(def, fails, n)
      PROVE  LuaInv'
  <2>1. reading = <<>>
    BY <1>1 DEF LuaCall, LuaInv, Reads
  <2> QED BY <1>1, <2>1, LoadStep
<1>2. ASSUME NEW def \in SUBSET Names, NEW undef \in SUBSET (Names \ def), NEW fails \in BOOLEAN,
             NEW n \in 0 .. 1, ReloadFile(def, undef, fails, n)
      PROVE  LuaInv'
  <2>1. undef \in SUBSET Names
    OBVIOUS
  <2> QED BY <1>2, <2>1, LoadStep
<1>3. CASE \/ \E f \in Funcs, n \in 0 .. 1, fails \in BOOLEAN : CallFunc(f, n, fails)
           \/ \E keys \in 1 .. 2, narg, nres \in 0 .. 1, shown, fails \in BOOLEAN :
                Call(keys, narg, nres, shown, fails)
  BY <1>3, CallStep
<1>4. CASE ReadLuaTable
  BY <1>4, BeginStep
<1>5. CASE TakesPair
  <2>1. InOuter \/ InInner
    BY <1>5 DEF LuaInv, Reads, TakesPair
  <2> QED BY <1>5, <2>1, TakesOuter, TakesInner
<1>6. CASE Returns
  BY <1>6, ReturnsStep
<1>7. CASE UNCHANGED luaVars
  <2>1. /\ UNCHANGED <<stack, reading, luaTables, globals, registry, idx, loads, lost>>
        /\ (\A n : OfOuter(n)' = OfOuter(n)) /\ (\A n : OfInner(n)' = OfInner(n))
        /\ Exact' = Exact
    BY <1>7 DEF luaVars, OfOuter, OfInner, Exact
  <2>2. Script'
    BY <2>1 DEF LuaInv, Script
  <2>3. InOuter => InOuter'
    BY <2>1 DEF InOuter
  <2>4. InInner => InInner'
    BY <2>1 DEF InInner
  <2> QED BY <2>1, <2>2, <2>3, <2>4 DEF LuaInv, Reads
<1> QED BY <1>1, <1>2, <1>3, <1>4, <1>5, <1>6, <1>7 DEF LuaNext

\* The invariant of the registry, of the stack and of what was read so far.
THEOREM LuaInvariant == LuaSpec => []LuaInv
<1>1. LuaInit => LuaInv
  <2> SUFFICES ASSUME LuaInit PROVE LuaInv
    OBVIOUS
  <2>1. Script
    BY NothingKept DEF LuaInit, Script
  <2>2. Reads
    BY DEF LuaInit, Reads
  <2> QED BY <2>1, <2>2 DEF LuaInv
<1> QED BY <1>1, LuaStep, PTL DEF LuaSpec

\* Whatever the scripts do, LuaCall leaves the stack as it found it; a name has a reference when
\* the scripts have defined it, to its last definition, and after a reload that failed no name
\* has one; and a table whose keys have names of their own is read as it is.
THEOREM LuaLeavesAsFound == LuaSpec => []LuaAsFound
<1>1. LuaInv => LuaAsFound
  <2> SUFFICES ASSUME LuaInv PROVE LuaAsFound
    OBVIOUS
  <2>1. reading = <<>> => stack = <<>>
    BY DEF LuaInv, Reads, InOuter, InInner
  <2>2. /\ \A n \in Names : idx[n] # 0 => registry[idx[n]] = globals[n]
        /\ \A n \in Names : idx[n] # 0 <=> globals[n] # 0 /\ ~lost
    BY DEF LuaInv, Script, Referred
  <2>3. Cardinality({r \in Refs : registry[r] # 0}) = Cardinality({n \in Names : idx[n] # 0})
    BY ReferredCounts DEF LuaInv, Script
  <2>4. ASSUME Len(reading) = 1, Top.at > Len(Table), Exact PROVE Top.ret = Copied(luaTables.outer)
    <3>1. InOuter
      <4>1. reading # <<>>
        BY <2>4
      <4>2. InOuter \/ InInner
        BY <4>1 DEF LuaInv, Reads
      <4>3. ~InInner
        BY <2>4, LuaTop
      <4> QED BY <4>2, <4>3
    <3>2. PICK at \in 1 .. Len(luaTables.outer) + 1 : \E key :
            reading = <<[index |-> 1, at |-> at, key |-> key, ret |-> OfOuter(at - 1)]>>
      BY <2>4, <3>1 DEF InOuter
    <3> DEFINE t == luaTables.outer
               I == {j \in 1 .. Len(t) : t[j].value # "other"}
    <3>3. Top.at = at /\ Top.ret = OfOuter(at - 1) /\ Table = t /\ Len(t) \in Nat
      BY <3>1, <3>2, LuaTop DEF Top, Last, LuaInv, Reads
    <3>4. at - 1 = Len(t)
      BY <2>4, <3>3
    <3>5. DOMAIN t = 1 .. Len(t)
      BY LenProperties DEF LuaInv, Reads
    <3>6. Entered(t) = {t[j] : j \in I}
      BY <3>5 DEF Entered, ToSet
    <3>7. OfOuter(Len(t)) = UNION {OfPair(t[j], luaTables.inner) : j \in I}
      BY DEF OfOuter
    <3>8. Copied(t) = UNION {OfPair(q, luaTables.inner) : q \in Entered(t)}
      BY DEF Copied, OfPair
    <3> HIDE DEF I, t
    <3>9. Copied(t) = OfOuter(Len(t))
      BY <3>6, <3>7, <3>8
    <3> QED BY <3>3, <3>4, <3>9 DEF t
  <2> QED BY <2>1, <2>2, <2>3, <2>4 DEF LuaAsFound, Exact
<1> QED BY <1>1, LuaInvariant, PTL

-----------------------------------------------------------------------------
(* RpcPack: items in a pack                                                *)

\* A pack: what was written fills its storage.
PackStates == {p \in [store : Seq(Nat), r : Nat, w : Nat] : p.w = Len(p.store)}

ItemSize(item)    == IF item.str THEN item.n + 2 ELSE item.n
WrittenBytes(item) == IF item.str THEN ItemBytes(item.n, 2) \o ItemBytes(item.v, item.n)
                      ELSE ItemBytes(item.v, item.n)

\* The bytes from a to b are what an item was written as.
ItemAt(store, a, b, item) ==
  /\ a \in Nat /\ b = a + ItemSize(item) /\ b <= Len(store)
  /\ item.str => store[a + 1] \div 8 = item.n /\ (item.n > 0 => store[a + 3] \div 8 = item.v)
  /\ ~item.str => store[a + 1] \div 8 = item.v

\* The first k items fill the store behind its first a bytes, the end of each in e.
EndsOf(e, store, items, k, a) ==
  /\ e \in [0 .. k -> Nat] /\ e[0] = a /\ e[k] = Len(store)
  /\ \A j \in 1 .. k : ItemAt(store, e[j - 1], e[j], items[j])

HoldsItems(store, items, k, a) == \E e : EndsOf(e, store, items, k, a)

LEMMA EighthOf == \A v \in Nat : (8 * v + 1) \div 8 = v /\ 0 \div 8 = 0
  OBVIOUS

LEMMA ItemBytesType ==
  ASSUME NEW v \in Nat, NEW n \in Nat
  PROVE  /\ ItemBytes(v, n) \in Seq(Nat) /\ Len(ItemBytes(v, n)) = n
         /\ n >= 1 => ItemBytes(v, n)[1] \div 8 = v
<1>1. ItemBytes(v, n) \in [1 .. n -> Nat]
  BY DEF ItemBytes
<1>2. n >= 1 => ItemBytes(v, n)[1] = IF v = 0 THEN 0 ELSE 8 * v + 1
  BY DEF ItemBytes
<1> QED BY <1>1, <1>2, EighthOf

LEMMA ItemTypes ==
  ASSUME NEW item \in Items
  PROVE  /\ item.str \in BOOLEAN /\ item.n \in Nat /\ item.v \in Nat
         /\ ~item.str => item.n >= 1
         /\ item.str /\ item.n = 0 => item.v = 0
         /\ ItemSize(item) \in Nat
<1>1. CASE item \in [str : {FALSE}, n : Nat \ {0}, v : Nat]
  <2>0. item.str = FALSE /\ item.n \in Nat \ {0} /\ item.v \in Nat
    BY <1>1
  <2>1. item.str = FALSE /\ item.n \in Nat /\ item.n >= 1 /\ item.v \in Nat
    BY <2>0
  <2>2. ItemSize(item) = item.n
    BY <2>1, Zenon DEF ItemSize
  <2>3. ~item.str /\ item.str \in BOOLEAN
    BY <2>1, Zenon
  <2> QED BY <2>1, <2>2, <2>3, Zenon
<1>2. CASE item \in {x \in [str : {TRUE}, n : Nat, v : Nat] : x.n = 0 => x.v = 0}
  <2>1. item.str = TRUE /\ item.n \in Nat /\ item.v \in Nat /\ (item.n = 0 => item.v = 0)
    BY <1>2
  <2>2. ItemSize(item) = item.n + 2
    BY <2>1, Zenon DEF ItemSize
  <2>3. item.str /\ item.str \in BOOLEAN
    BY <2>1, Zenon
  <2>4. item.n + 2 \in Nat
    BY <2>1
  <2> QED BY <2>1, <2>2, <2>3, <2>4, Zenon
<1> QED BY <1>1, <1>2 DEF Items

LEMMA ZeroBytesType ==
  ASSUME NEW n \in Int
  PROVE  ZeroBytes(n) \in Seq(Nat) /\ Len(ZeroBytes(n)) = IF n >= 0 THEN n ELSE 0
<1>1. CASE n >= 0
  <2>1. ZeroBytes(n) \in [1 .. n -> Nat]
    BY DEF ZeroBytes
  <2> QED BY <1>1, <2>1
<1>2. CASE n < 0
  <2>1. ZeroBytes(n) \in [1 .. 0 -> Nat]
    BY <1>2 DEF ZeroBytes
  <2> QED BY <1>2, <2>1
<1> QED BY <1>1, <1>2

LEMMA ResizedType ==
  ASSUME NEW s \in Seq(Nat), NEW n \in Nat
  PROVE  /\ Resized(s, n) \in Seq(Nat) /\ Len(Resized(s, n)) = n
         /\ \A i \in 1 .. n : i <= Len(s) => Resized(s, n)[i] = s[i]
         /\ n = Len(s) => Resized(s, n) = s
<1> DEFINE z == ZeroBytes(n - Len(s))
           t == s \o z
<1>0. n - Len(s) \in Int /\ Len(s) \in Nat
  OBVIOUS
<1>1. z \in Seq(Nat) /\ Len(z) = IF n - Len(s) >= 0 THEN n - Len(s) ELSE 0
  BY <1>0, ZeroBytesType
<1> HIDE DEF z
<1>2. /\ t \in Seq(Nat) /\ Len(t) = Len(s) + Len(z) /\ Len(t) >= n
      /\ \A i \in 1 .. Len(s) : t[i] = s[i]
  <2>1. /\ t \in Seq(Nat) /\ Len(t) = Len(s) + Len(z)
        /\ \A i \in 1 .. Len(s) + Len(z) : t[i] = IF i <= Len(s) THEN s[i] ELSE z[i - Len(s)]
    BY <1>1, ConcatProperties
  <2>2. \A i \in 1 .. Len(s) : i \in 1 .. Len(s) + Len(z)
    BY <1>0, <1>1
  <2> QED BY <1>0, <1>1, <2>1, <2>2
<1>3. Resized(s, n) = SubSeq(t, 1, n)
  BY DEF Resized, z
<1> HIDE DEF t
<1>4. \A i \in 1 .. n : t[i] \in Nat
  BY <1>2
<1>5. /\ SubSeq(t, 1, n) \in Seq(Nat) /\ Len(SubSeq(t, 1, n)) = n
      /\ \A i \in 1 .. n : SubSeq(t, 1, n)[i] = t[i]
  <2>1. /\ SubSeq(t, 1, n) \in Seq(Nat) /\ Len(SubSeq(t, 1, n)) = IF 1 <= n THEN n - 1 + 1 ELSE 0
        /\ \A i \in 1 .. n - 1 + 1 : SubSeq(t, 1, n)[i] = t[1 + i - 1]
    BY <1>4, SubSeqProperties
  <2>2. \A i \in 1 .. n : 1 + i - 1 = i
    OBVIOUS
  <2> QED BY <2>1, <2>2
<1>6. \A i \in 1 .. n : i <= Len(s) => Resized(s, n)[i] = s[i]
  BY <1>0, <1>2, <1>3, <1>5
<1>7. n = Len(s) => Resized(s, n) = s
  BY <1>3, <1>5, <1>6, SeqEqual
<1> QED BY <1>3, <1>5, <1>6, <1>7

\* What is appended comes behind what is there.
LEMMA AppendsBehind ==
  ASSUME NEW p \in PackStates, NEW s \in Seq(Nat)
  PROVE  /\ AppendTo(p, s) \in PackStates /\ AppendTo(p, s).store = p.store \o s
         /\ AppendTo(p, s).r = p.r
<1>0. p \in [store : Seq(Nat), r : Nat, w : Nat] /\ p.w = Len(p.store)
  BY DEF PackStates
<1>1. CASE s = <<>>
  BY <1>0, <1>1, ConcatEmptySeq DEF AppendTo
<1>2. CASE s # <<>>
  <2> DEFINE n == p.w + Len(s)
             q == AppendTo(p, s)
  <2>1. q = [p EXCEPT !.store = Resized(p.store, p.w) \o s \o SubSeq(p.store, n + 1, Len(p.store)), !.w = n]
    BY <1>2 DEF AppendTo
  <2>2. Resized(p.store, p.w) = p.store
    BY <1>0, ResizedType
  <2>3. Len(s) \in Nat /\ Len(s) > 0 /\ n \in Nat /\ n + 1 > Len(p.store) /\ Len(p.store) \in Nat
    BY <1>0, <1>2, EmptySeq
  <2>4. SubSeq(p.store, n + 1, Len(p.store)) = <<>>
    BY <2>3, SubSeqEmpty
  <2>5. p.store \o s \in Seq(Nat) /\ Len(p.store \o s) = n /\ (p.store \o s) \o <<>> = p.store \o s
    BY <1>0, ConcatProperties, ConcatEmptySeq
  <2>6. q = [p EXCEPT !.store = p.store \o s, !.w = n]
    BY <2>1, <2>2, <2>4, <2>5
  <2>7. /\ q \in [store : Seq(Nat), r : Nat, w : Nat] /\ q.store = p.store \o s /\ q.w = n
        /\ q.r = p.r
    BY <1>0, <2>3, <2>5, <2>6
  <2> QED BY <2>5, <2>7 DEF PackStates
<1> QED BY <1>1, <1>2

\* What is put leaves the rest.
LEMMA PutsInto ==
  ASSUME NEW p \in PackStates, NEW pos \in Nat, NEW s \in Seq(Nat), pos + Len(s) <= Len(p.store)
  PROVE  /\ PutAt(p, pos, s) \in PackStates /\ PutAt(p, pos, s).r = p.r /\ PutAt(p, pos, s).w = p.w
         /\ \A i \in 1 .. p.w : PutAt(p, pos, s).store[i] = IF i - pos \in 1 .. Len(s) THEN s[i - pos]
                                                          ELSE p.store[i]
<1> DEFINE L == Len(p.store)
           a == SubSeq(p.store, 1, pos)
           c == SubSeq(p.store, pos + Len(s) + 1, L)
           q == PutAt(p, pos, s)
<1>0. p \in [store : Seq(Nat), r : Nat, w : Nat] /\ p.w = L /\ L \in Nat /\ Len(s) \in Nat
  BY DEF PackStates
<1>1. q = [p EXCEPT !.store = a \o s \o c]
  BY DEF PutAt
<1>2. a \in Seq(Nat) /\ Len(a) = pos /\ \A i \in 1 .. pos : a[i] = p.store[i]
  <2>1. \A i \in 1 .. pos : p.store[i] \in Nat
    BY <1>0
  <2>2. /\ a \in Seq(Nat) /\ Len(a) = IF 1 <= pos THEN pos - 1 + 1 ELSE 0
        /\ \A i \in 1 .. pos - 1 + 1 : a[i] = p.store[1 + i - 1]
    BY <2>1, SubSeqProperties
  <2>3. \A i \in 1 .. pos : 1 + i - 1 = i
    OBVIOUS
  <2> QED BY <2>2, <2>3
<1>3. /\ c \in Seq(Nat) /\ Len(c) = L - (pos + Len(s))
      /\ \A i \in 1 .. Len(c) : c[i] = p.store[pos + Len(s) + i]
  <2>1. \A i \in pos + Len(s) + 1 .. L : p.store[i] \in Nat
    BY <1>0
  <2>2. /\ c \in Seq(Nat)
        /\ Len(c) = IF pos + Len(s) + 1 <= L THEN L - (pos + Len(s) + 1) + 1 ELSE 0
        /\ \A i \in 1 .. L - (pos + Len(s) + 1) + 1 : c[i] = p.store[pos + Len(s) + 1 + i - 1]
    BY <1>0, <2>1, SubSeqProperties
  <2>3. Len(c) = L - (pos + Len(s)) /\ L - (pos + Len(s) + 1) + 1 = L - (pos + Len(s))
    BY <1>0, <2>2
  <2>4. \A i \in 1 .. Len(c) : pos + Len(s) + 1 + i - 1 = pos + Len(s) + i
    BY <1>0
  <2> QED BY <2>2, <2>3, <2>4
<1> HIDE DEF a, c
<1> DEFINE u == a \o s
           t == u \o c
<1>4. /\ u \in Seq(Nat) /\ Len(u) = pos + Len(s)
      /\ \A i \in 1 .. pos + Len(s) : u[i] = IF i <= pos THEN a[i] ELSE s[i - pos]
  BY <1>2, ConcatProperties
<1>9. t = a \o s \o c
  OBVIOUS
<1> HIDE DEF u
<1>5. /\ t \in Seq(Nat) /\ Len(t) = L
      /\ \A i \in 1 .. L : t[i] = IF i <= pos + Len(s) THEN u[i] ELSE c[i - (pos + Len(s))]
  <2>1. /\ t \in Seq(Nat) /\ Len(t) = Len(u) + Len(c)
        /\ \A i \in 1 .. Len(u) + Len(c) : t[i] = IF i <= Len(u) THEN u[i] ELSE c[i - Len(u)]
    <3>1. u \in Seq(Nat) /\ c \in Seq(Nat)
      BY <1>3, <1>4
    <3> HIDE DEF L
    <3> QED BY ONLY <3>1, ConcatProperties
  <2>2. Len(u) + Len(c) = L
    BY <1>0, <1>3, <1>4
  <2> QED BY <1>4, <2>1, <2>2
<1> HIDE DEF t
<1>6. ASSUME NEW i \in 1 .. L
      PROVE  t[i] = IF i - pos \in 1 .. Len(s) THEN s[i - pos] ELSE p.store[i]
  <2>0. i \in Nat /\ i >= 1 /\ i <= L /\ pos \in Nat
    BY <1>0
  <2>1. CASE i <= pos
    <3>1. i \in 1 .. pos /\ i \in 1 .. pos + Len(s) /\ i <= pos + Len(s) /\ ~ (i - pos \in 1 .. Len(s))
      BY <1>0, <2>0, <2>1
    <3> QED BY <1>2, <1>4, <1>5, <2>1, <3>1
  <2>2. CASE i > pos /\ i <= pos + Len(s)
    <3>1. i \in 1 .. pos + Len(s) /\ ~ (i <= pos) /\ i - pos \in 1 .. Len(s)
      BY <1>0, <2>0, <2>2
    <3> QED BY <1>4, <1>5, <2>2, <3>1
  <2>3. CASE i > pos + Len(s)
    <3>1. /\ i - (pos + Len(s)) \in 1 .. Len(c) /\ pos + Len(s) + (i - (pos + Len(s))) = i
          /\ ~ (i - pos \in 1 .. Len(s)) /\ ~ (i <= pos + Len(s))
      BY <1>0, <1>3, <2>0, <2>3
    <3>2. c[i - (pos + Len(s))] = p.store[i]
      BY <1>3, <3>1
    <3> QED BY <1>5, <3>1, <3>2
  <2> QED BY <1>0, <2>0, <2>1, <2>2, <2>3
<1>7. q = [p EXCEPT !.store = t]
  BY <1>1, <1>9
<1>8. q \in [store : Seq(Nat), r : Nat, w : Nat] /\ q.store = t /\ q.w = p.w /\ q.r = p.r
  BY <1>0, <1>5, <1>7
<1> QED BY <1>0, <1>5, <1>6, <1>8 DEF PackStates

LEMMA WrittenType ==
  ASSUME NEW item \in Items
  PROVE  /\ WrittenBytes(item) \in Seq(Nat) /\ Len(WrittenBytes(item)) = ItemSize(item)
         /\ ItemAt(WrittenBytes(item), 0, ItemSize(item), item)
<1>0. /\ item.str \in BOOLEAN /\ item.n \in Nat /\ item.v \in Nat /\ ItemSize(item) \in Nat
      /\ (~item.str => item.n >= 1)
  BY ItemTypes
<1> DEFINE x == ItemBytes(item.v, item.n)
           h == ItemBytes(item.n, 2)
<1>1. x \in Seq(Nat) /\ Len(x) = item.n /\ (item.n >= 1 => x[1] \div 8 = item.v)
  BY <1>0, ItemBytesType
<1>2. h \in Seq(Nat) /\ Len(h) = 2 /\ h[1] \div 8 = item.n
  <2>1. item.n \in Nat /\ 2 \in Nat /\ 2 >= 1
    BY <1>0
  <2> QED BY ONLY <2>1, ItemBytesType
<1>3. CASE ~item.str
  <2>1. WrittenBytes(item) = x /\ ItemSize(item) = item.n
    BY <1>3 DEF WrittenBytes, ItemSize
  <2> HIDE DEF x
  <2>2. x[0 + 1] = x[1] /\ item.n = 0 + item.n /\ 0 \in Nat /\ item.n <= Len(x)
    BY <1>0, <1>1
  <2> QED BY <1>0, <1>1, <1>3, <2>1, <2>2 DEF ItemAt
<1>4. CASE item.str
  <2> HIDE DEF x, h
  <2> DEFINE t == h \o x
  <2>1. WrittenBytes(item) = t /\ ItemSize(item) = item.n + 2
    BY <1>4 DEF WrittenBytes, ItemSize, h, x
  <2>2. /\ t \in Seq(Nat) /\ Len(t) = 2 + item.n /\ t[1] = h[1]
        /\ item.n >= 1 => t[3] = x[1]
    <3>1. /\ t \in Seq(Nat) /\ Len(t) = 2 + item.n
          /\ \A i \in 1 .. 2 + item.n : t[i] = IF i <= 2 THEN h[i] ELSE x[i - 2]
      <4>1. /\ t \in Seq(Nat) /\ Len(t) = Len(h) + Len(x)
            /\ \A i \in 1 .. Len(h) + Len(x) : t[i] = IF i <= Len(h) THEN h[i] ELSE x[i - Len(h)]
        <5>1. h \in Seq(Nat) /\ x \in Seq(Nat)
          BY <1>1, <1>2
        <5> QED BY ONLY <5>1, ConcatProperties
      <4> QED BY <1>1, <1>2, <4>1
    <3>2. 1 \in 1 .. 2 + item.n /\ (item.n >= 1 => 3 \in 1 .. 2 + item.n) /\ 3 - 2 = 1
      BY <1>0
    <3> QED BY <3>1, <3>2
  <2> HIDE DEF t
  <2>3. t[0 + 1] = t[1] /\ t[0 + 3] = t[3] /\ ItemSize(item) <= Len(t) /\ ItemSize(item) = 0 + ItemSize(item)
    BY <1>0, <2>1, <2>2
  <2>4. item.n > 0 => item.n >= 1
    BY <1>0
  <2> QED BY <1>0, <1>1, <1>2, <1>4, <2>1, <2>2, <2>3, <2>4 DEF ItemAt
<1> QED BY <1>0, <1>3, <1>4

LEMMA WriteItemIs ==
  ASSUME NEW p \in PackStates, NEW item \in Items
  PROVE  /\ WriteItem(p, item) \in PackStates /\ WriteItem(p, item).r = p.r
         /\ WriteItem(p, item).store = p.store \o WrittenBytes(item)
<1>0. item.str \in BOOLEAN /\ item.n \in Nat /\ item.v \in Nat
  BY ItemTypes
<1>1. ItemBytes(item.v, item.n) \in Seq(Nat)
  BY <1>0, ItemBytesType
<1>2. <<>> \o ItemBytes(item.v, item.n) = ItemBytes(item.v, item.n)
  BY <1>1, ConcatEmptySeq
<1>3. WriteItem(p, item) = AppendTo(p, WrittenBytes(item))
  <2>1. CASE item.str
    BY <2>1 DEF WriteItem, WrittenBytes
  <2>2. CASE ~item.str
    BY <1>2, <2>2 DEF WriteItem, WrittenBytes
  <2> QED BY <2>1, <2>2
<1> QED BY <1>3, WrittenType, AppendsBehind

\* An item stays where it is when more is written behind it.
LEMMA ItemStays ==
  ASSUME NEW store \in Seq(Nat), NEW t \in Seq(Nat), NEW a, NEW b, NEW item \in Items,
         ItemAt(store, a, b, item)
  PROVE  ItemAt(store \o t, a, b, item)
<1>0. /\ item.str \in BOOLEAN /\ item.n \in Nat /\ item.v \in Nat /\ ItemSize(item) \in Nat
      /\ (~item.str => item.n >= 1)
  BY ItemTypes
<1>1. /\ Len(store \o t) = Len(store) + Len(t) /\ Len(store) \in Nat /\ Len(t) \in Nat
      /\ \A i \in 1 .. Len(store) : (store \o t)[i] = store[i]
  <2>1. /\ Len(store \o t) = Len(store) + Len(t)
        /\ \A i \in 1 .. Len(store) + Len(t) :
             (store \o t)[i] = IF i <= Len(store) THEN store[i] ELSE t[i - Len(store)]
    BY ConcatProperties
  <2>2. \A i \in 1 .. Len(store) : i \in 1 .. Len(store) + Len(t) /\ i <= Len(store)
    OBVIOUS
  <2> QED BY <2>1, <2>2
<1> DEFINE u == store \o t
<1> HIDE DEF u
<1>2. a \in Nat /\ b = a + ItemSize(item) /\ b <= Len(store) /\ b <= Len(u)
  BY <1>0, <1>1 DEF ItemAt, u
<1>3. CASE item.str
  <2>1. ItemSize(item) = item.n + 2
    BY <1>3 DEF ItemSize
  <2>2. a + 1 \in 1 .. Len(store) /\ (item.n > 0 => a + 3 \in 1 .. Len(store))
    <3>1. a \in Nat /\ item.n \in Nat /\ Len(store) \in Nat /\ a + (item.n + 2) <= Len(store)
      BY <1>0, <1>1, <1>2, <2>1
    <3> QED BY ONLY <3>1
  <2>3. u[a + 1] = store[a + 1] /\ (item.n > 0 => u[a + 3] = store[a + 3])
    BY <1>1, <2>2 DEF u
  <2>4. ItemAt(u, a, b, item)
    BY <1>2, <1>3, <2>3 DEF ItemAt
  <2> QED BY <2>4 DEF u
<1>4. CASE ~item.str
  <2>1. ItemSize(item) = item.n
    BY <1>4 DEF ItemSize
  <2>2. a + 1 \in 1 .. Len(store)
    BY <1>0, <1>1, <1>2, <1>4, <2>1
  <2>3. u[a + 1] = store[a + 1]
    BY <1>1, <2>2 DEF u
  <2>4. ItemAt(u, a, b, item)
    BY <1>2, <1>4, <2>3 DEF ItemAt
  <2> QED BY <2>4 DEF u
<1> QED BY <1>0, <1>3, <1>4

\* What is written behind the store is an item of the new one.
LEMMA ItemBehind ==
  ASSUME NEW store \in Seq(Nat), NEW item \in Items
  PROVE  LET u == store \o WrittenBytes(item)
         IN  u \in Seq(Nat) /\ ItemAt(u, Len(store), Len(u), item)
<1> DEFINE t == WrittenBytes(item)
           u == store \o t
<1>0. /\ item.str \in BOOLEAN /\ item.n \in Nat /\ item.v \in Nat /\ ItemSize(item) \in Nat
      /\ (~item.str => item.n >= 1)
  BY ItemTypes
<1>1. t \in Seq(Nat) /\ Len(t) = ItemSize(item) /\ ItemAt(t, 0, ItemSize(item), item)
  BY WrittenType
<1> HIDE DEF t
<1>2. /\ u \in Seq(Nat) /\ Len(u) = Len(store) + Len(t)
      /\ \A i \in 1 .. Len(store) + Len(t) :
             u[i] = IF i <= Len(store) THEN store[i] ELSE t[i - Len(store)]
  BY <1>1, ConcatProperties
<1> HIDE DEF u
<1>3. \A i \in 1 .. Len(t) : u[Len(store) + i] = t[i]
  <2> TAKE i \in 1 .. Len(t)
  <2>1. /\ Len(store) + i \in 1 .. Len(store) + Len(t) /\ ~ (Len(store) + i <= Len(store))
        /\ Len(store) + i - Len(store) = i
    BY <1>0, <1>1
  <2> QED BY <1>2, <2>1
<1>4. Len(store) \in Nat /\ Len(u) = Len(store) + ItemSize(item) /\ Len(u) <= Len(u)
  BY <1>0, <1>1, <1>2
<1>5. CASE item.str
  <2>1. ItemSize(item) = item.n + 2 /\ 0 + 1 = 1 /\ 0 + 3 = 3
    BY <1>5 DEF ItemSize
  <2>2. 1 \in 1 .. Len(t) /\ (item.n > 0 => 3 \in 1 .. Len(t))
    BY <1>0, <1>1, <2>1
  <2>3. t[1] \div 8 = item.n /\ (item.n > 0 => t[3] \div 8 = item.v)
    BY <1>1, <1>5, <2>1 DEF ItemAt
  <2> QED BY <1>2, <1>3, <1>4, <1>5, <2>2, <2>3 DEF ItemAt, u, t
<1>6. CASE ~item.str
  <2>1. ItemSize(item) = item.n /\ 0 + 1 = 1
    BY <1>6 DEF ItemSize
  <2>2. 1 \in 1 .. Len(t)
    BY <1>0, <1>1, <1>6, <2>1
  <2>3. t[1] \div 8 = item.v
    BY <1>1, <1>6, <2>1 DEF ItemAt
  <2> QED BY <1>2, <1>3, <1>4, <1>6, <2>2, <2>3 DEF ItemAt, u, t
<1> QED BY <1>0, <1>5, <1>6

\* What is read of an item is its value, and the position moves behind it.
LEMMA ReadItemIs ==
  ASSUME NEW p \in PackStates, NEW item \in Items, NEW b, ItemAt(p.store, p.r, b, item)
  PROVE  ReadItem(p, item) = [v |-> item.v, p |-> [store |-> p.store, r |-> b, w |-> p.w]]
<1>0. /\ item.str \in BOOLEAN /\ item.n \in Nat /\ item.v \in Nat
      /\ (~item.str => item.n >= 1) /\ (item.str /\ item.n = 0 => item.v = 0)
  BY ItemTypes
<1>1. /\ p \in [store : Seq(Nat), r : Nat, w : Nat] /\ p.w = Len(p.store)
      /\ p.store \in Seq(Nat) /\ p.r \in Nat /\ p.w \in Nat
  BY DEF PackStates
<1>2. b = p.r + ItemSize(item) /\ b <= p.w
  BY <1>1 DEF ItemAt
<1>3. \A pos \in Nat, n \in Nat : n >= 1 /\ pos + n <= p.w => Show(p, pos, n) = p.store[pos + 1] \div 8
  <2> TAKE pos \in Nat, n \in Nat
  <2> SUFFICES ASSUME n >= 1 /\ pos + n <= p.w PROVE Show(p, pos, n) = p.store[pos + 1] \div 8
    OBVIOUS
  <2>1. ~ (pos + n > p.w)
    BY <1>1
  <2>2. \A i \in pos + 1 .. pos + n : p.store[i] \in Nat
    <3>1. \A i \in pos + 1 .. pos + n : i \in 1 .. Len(p.store)
      BY <1>1
    <3> QED BY <1>1, <3>1
  <2>3. \A i \in 1 .. pos + n - (pos + 1) + 1 :
           SubSeq(p.store, pos + 1, pos + n)[i] = p.store[pos + 1 + i - 1]
    BY <2>2, SubSeqProperties
  <2>4. 1 \in 1 .. pos + n - (pos + 1) + 1 /\ pos + 1 + 1 - 1 = pos + 1
    OBVIOUS
  <2>5. SubSeq(p.store, pos + 1, pos + n)[1] = p.store[pos + 1]
    BY <2>3, <2>4
  <2> QED BY <2>1, <2>5 DEF Show, Value
<1>4. CASE item.str
  <2>1. ItemSize(item) = item.n + 2
    BY <1>4 DEF ItemSize
  <2>2. p.r + 2 <= p.w /\ p.r + 2 \in Nat /\ 2 \in Nat /\ 2 >= 1 /\ (p.r + 2) + item.n = b
    <3>1. p.r \in Nat /\ p.w \in Nat /\ item.n \in Nat
      BY <1>0, <1>1
    <3>2. b = p.r + (item.n + 2) /\ b <= p.w
      BY <1>2, <2>1
    <3> QED BY ONLY <3>1, <3>2
  <2>3. Show(p, p.r, 2) = item.n
    <3>1. Show(p, p.r, 2) = p.store[p.r + 1] \div 8
      BY <1>1, <1>3, <2>2
    <3> QED BY <1>4, <3>1 DEF ItemAt
  <2>4. item.n # 0 => Show(p, p.r + 2, item.n) = item.v
    <3> SUFFICES ASSUME item.n # 0 PROVE Show(p, p.r + 2, item.n) = item.v
      OBVIOUS
    <3>1. item.n >= 1 /\ item.n > 0 /\ (p.r + 2) + item.n <= p.w /\ (p.r + 2) + 1 = p.r + 3
      BY SMTT(30), <1>0, <1>1, <1>2, <2>1
    <3>2. Show(p, p.r + 2, item.n) = p.store[(p.r + 2) + 1] \div 8
      BY <1>0, <1>3, <2>2, <3>1
    <3> QED BY <1>4, <3>1, <3>2 DEF ItemAt
  <2>5. ReadItem(p, item) = [v |-> IF item.n = 0 THEN 0 ELSE Show(p, p.r + 2, item.n),
                             p |-> [p EXCEPT !.r = (p.r + 2) + item.n]]
    BY <1>4, <2>3, Zenon DEF ReadItem
  <2>6. [p EXCEPT !.r = b] = [store |-> p.store, r |-> b, w |-> p.w]
    BY <1>1
  <2>7. (IF item.n = 0 THEN 0 ELSE Show(p, p.r + 2, item.n)) = item.v
    BY <1>0, <1>4, <2>4
  <2> QED BY <2>2, <2>5, <2>6, <2>7
<1>5. CASE ~item.str
  <2>1. ItemSize(item) = item.n
    BY <1>5 DEF ItemSize
  <2>2. p.r + item.n <= p.w /\ p.r + item.n = b /\ item.n >= 1 /\ item.n # 0
    BY <1>0, <1>1, <1>2, <1>5, <2>1
  <2>3. Show(p, p.r, item.n) = item.v
    <3>1. Show(p, p.r, item.n) = p.store[p.r + 1] \div 8
      BY <1>0, <1>1, <1>3, <2>2
    <3> QED BY <1>5, <3>1 DEF ItemAt
  <2>5. ReadItem(p, item) = [v |-> IF item.n = 0 THEN 0 ELSE Show(p, p.r, item.n),
                             p |-> [p EXCEPT !.r = p.r + item.n]]
    BY <1>5, Zenon DEF ReadItem
  <2>6. [p EXCEPT !.r = b] = [store |-> p.store, r |-> b, w |-> p.w]
    BY <1>1
  <2> QED BY <2>2, <2>3, <2>5, <2>6
<1> QED BY <1>0, <1>4, <1>5

\* Of what type what is read is.
LEMMA ReadItemType ==
  ASSUME NEW p \in PackStates, NEW item \in Items
  PROVE  ReadItem(p, item).v \in Nat /\ ReadItem(p, item).p \in PackStates
<1>0. /\ item.str \in BOOLEAN /\ item.n \in Nat /\ item.v \in Nat
      /\ (~item.str => item.n >= 1)
  BY ItemTypes
<1>1. /\ p \in [store : Seq(Nat), r : Nat, w : Nat] /\ p.w = Len(p.store)
      /\ p.store \in Seq(Nat) /\ p.r \in Nat /\ p.w \in Nat
  BY DEF PackStates
<1>2. ASSUME NEW pos \in Nat, NEW n \in Nat, n >= 1 PROVE Show(p, pos, n) \in Nat
  <2>1. CASE pos + n > p.w
    BY <2>1 DEF Show
  <2>2. CASE pos + n <= p.w
    <3>1. \A i \in pos + 1 .. pos + n : i \in 1 .. Len(p.store)
      BY <1>1, <2>2
    <3>2. \A i \in pos + 1 .. pos + n : p.store[i] \in Nat
      BY <1>1, <3>1
    <3>3. /\ SubSeq(p.store, pos + 1, pos + n) \in Seq(Nat)
          /\ Len(SubSeq(p.store, pos + 1, pos + n)) = IF pos + 1 <= pos + n THEN pos + n - (pos + 1) + 1 ELSE 0
      BY <3>2, SubSeqProperties
    <3> DEFINE u == SubSeq(p.store, pos + 1, pos + n)
    <3>4. u \in Seq(Nat) /\ Len(u) = n
      BY <1>2, <3>3
    <3>5. Show(p, pos, n) = u[1] \div 8
      <4>1. ~ (pos + n > p.w)
        BY <1>1, <2>2
      <4> QED BY <4>1 DEF Show, Value
    <3> HIDE DEF u
    <3>6. u[1] \in Nat
      BY <1>2, <3>4
    <3>7. u[1] \div 8 \in Nat
      BY <3>6
    <3> QED BY <3>5, <3>7
  <2> QED BY <1>1, <2>1, <2>2
<1>3. ASSUME NEW len \in Nat, NEW pos \in Nat,
             ReadItem(p, item) = [v |-> IF len = 0 THEN 0 ELSE Show(p, pos, len), p |-> [p EXCEPT !.r = pos + len]]
      PROVE  ReadItem(p, item).v \in Nat /\ ReadItem(p, item).p \in PackStates
  <2>1. (IF len = 0 THEN 0 ELSE Show(p, pos, len)) \in Nat
    BY <1>2
  <2>2. [p EXCEPT !.r = pos + len] \in PackStates
    BY <1>1 DEF PackStates
  <2> QED BY <1>3, <2>1, <2>2
<1>4. CASE item.str
  <2>1. Show(p, p.r, 2) \in Nat /\ p.r + 2 \in Nat
    <3>1. 2 \in Nat /\ 2 >= 1
      OBVIOUS
    <3>2. p.r \in Nat /\ p.r + 2 \in Nat
      BY <1>1
    <3> QED BY ONLY <1>2, <3>1, <3>2
  <2>2. ReadItem(p, item) = [v |-> IF Show(p, p.r, 2) = 0 THEN 0 ELSE Show(p, p.r + 2, Show(p, p.r, 2)),
                             p |-> [p EXCEPT !.r = (p.r + 2) + Show(p, p.r, 2)]]
    BY <1>4, Zenon DEF ReadItem
  <2> QED BY <1>3, <2>1, <2>2
<1>5. CASE ~item.str
  <2>2. ReadItem(p, item) = [v |-> IF item.n = 0 THEN 0 ELSE Show(p, p.r, item.n),
                             p |-> [p EXCEPT !.r = p.r + item.n]]
    BY <1>5, Zenon DEF ReadItem
  <2> QED BY <1>0, <1>1, <1>3, <2>2
<1> QED BY <1>0, <1>4, <1>5

LEMMA WriteItemsPasses ==
  ASSUME NEW p \in PackStates, NEW items \in Seq(Items)
  PROVE  \E f \in [0 .. Len(items) -> PackStates] :
           /\ f[0] = p /\ WriteItems(p, items) = f[Len(items)]
           /\ \A k \in 1 .. Len(items) : f[k] = WriteItem(f[k - 1], items[k])
<1> DEFINE N == Len(items)
           G == [x \in (1 .. N) \X PackStates |-> WriteItem(x[2], items[x[1]])]
<1>1. N \in Nat /\ \A k \in 1 .. N : items[k] \in Items /\ k - 1 \in 0 .. N
  OBVIOUS
<1>2. \A x \in PackStates, k \in 1 .. N : WriteItem(x, items[k]) \in PackStates
  BY <1>1, WriteItemIs
<1>3. G \in [(1 .. N) \X PackStates -> PackStates]
  BY <1>2
<1> HIDE DEF G, N
<1>4. PICK f : Runs(f, N, PackStates, p, G)
  BY <1>1, <1>3, Passes
<1>5. /\ f \in [0 .. N -> PackStates] /\ f[0] = p
      /\ \A k \in 1 .. N : f[k] = WriteItem(f[k - 1], items[k])
  BY <1>1, <1>4 DEF Runs, G
<1>6. f = [k \in 0 .. N |-> IF k = 0 THEN p ELSE WriteItem(f[k - 1], items[k])]
  BY <1>1, <1>5
<1> DEFINE h == CHOOSE g : g = [k \in 0 .. N |-> IF k = 0 THEN p ELSE WriteItem(g[k - 1], items[k])]
<1>7. h = [k \in 0 .. N |-> IF k = 0 THEN p ELSE WriteItem(h[k - 1], items[k])]
  BY <1>6
<1>8. WriteItems(p, items) = h[N]
  BY DEF WriteItems, N
<1> HIDE DEF h
<1>9. h[0] = p /\ \A k \in 1 .. N : h[k] = WriteItem(h[k - 1], items[k])
  BY <1>1, <1>7
<1>10. \A k \in 1 .. N : h[k - 1] \in PackStates => h[k] \in PackStates
  BY <1>2, <1>9
<1>11. \A k \in 0 .. N : h[k] \in PackStates
  BY ONLY <1>1, <1>9, <1>10, Kept
<1>12. h \in [0 .. N -> PackStates]
  BY <1>7, <1>11
<1> QED BY <1>8, <1>9, <1>12 DEF N

\* A pass of WriteItems: one more item is held.
LEMMA HoldsMore ==
  ASSUME NEW store \in Seq(Nat), NEW items \in Seq(Items), NEW k \in 1 .. Len(items), NEW a \in Nat,
         HoldsItems(store, items, k - 1, a)
  PROVE  HoldsItems(store \o WrittenBytes(items[k]), items, k, a)
<1> DEFINE u == store \o WrittenBytes(items[k])
<1>0. /\ \A j \in 1 .. k : items[j] \in Items /\ j \in 0 .. k /\ j - 1 \in 0 .. k
      /\ Len(store) \in Nat /\ Len(items) \in Nat /\ k - 1 \in Nat /\ k \in 1 .. k
      /\ 0 \in 0 .. k - 1 /\ k - 1 \in 0 .. k - 1
      /\ \A j \in 0 .. k : j # k => j \in 0 .. k - 1
      /\ \A j \in 1 .. k : j # k => j \in 1 .. k - 1 /\ j - 1 \in 0 .. k - 1
      /\ \A j \in 1 .. k : j - 1 # k
      /\ 0 # k /\ 0 \in 0 .. k /\ k \in 0 .. k
  OBVIOUS
<1>1. PICK e : EndsOf(e, store, items, k - 1, a)
  BY DEF HoldsItems
<1>2. /\ e \in [0 .. k - 1 -> Nat] /\ e[0] = a /\ e[k - 1] = Len(store)
      /\ \A j \in 1 .. k - 1 : ItemAt(store, e[j - 1], e[j], items[j])
  BY <1>1 DEF EndsOf
<1>3. u \in Seq(Nat) /\ ItemAt(u, Len(store), Len(u), items[k])
  BY <1>0, ItemBehind
<1>4. \A j \in 1 .. k - 1 : ItemAt(u, e[j - 1], e[j], items[j])
  <2>1. WrittenBytes(items[k]) \in Seq(Nat) /\ \A j \in 1 .. k - 1 : items[j] \in Items
    BY <1>0, WrittenType
  <2> QED BY <1>2, <2>1, ItemStays
<1> HIDE DEF u
<1> DEFINE d == [j \in 0 .. k |-> IF j = k THEN Len(u) ELSE e[j]]
<1>5. d \in [0 .. k -> Nat] /\ d[0] = a /\ d[k] = Len(u)
  <2>1. Len(u) \in Nat
    BY <1>3
  <2> QED BY <1>0, <1>2, <2>1
<1>6. \A j \in 1 .. k : d[j - 1] = e[j - 1] /\ (j # k => d[j] = e[j])
  BY <1>0
<1> HIDE DEF d
<1>7. \A j \in 1 .. k : ItemAt(u, d[j - 1], d[j], items[j])
  <2> TAKE j \in 1 .. k
  <2>1. CASE j = k
    BY <1>2, <1>3, <1>5, <1>6, <2>1
  <2>2. CASE j # k
    BY <1>0, <1>4, <1>6, <2>2
  <2> QED BY <2>1, <2>2
<1>8. EndsOf(d, u, items, k, a)
  BY <1>5, <1>7 DEF EndsOf
<1> QED BY <1>8 DEF HoldsItems, u

\* WriteItems leaves what is there, and writes the items behind it.
LEMMA WriteItemsHolds ==
  ASSUME NEW p \in PackStates, NEW items \in Seq(Items)
  PROVE  LET q == WriteItems(p, items)
         IN  /\ q \in PackStates /\ q.r = p.r
             /\ Len(p.store) <= Len(q.store)
             /\ \A i \in 1 .. Len(p.store) : q.store[i] = p.store[i]
             /\ HoldsItems(q.store, items, Len(items), Len(p.store))
<1> DEFINE N == Len(items)
           a == Len(p.store)
           Q(q, k) == /\ q.r = p.r /\ a <= Len(q.store)
                      /\ \A i \in 1 .. a : q.store[i] = p.store[i]
                      /\ HoldsItems(q.store, items, k, a)
           S == [k \in 0 .. N |-> {q \in PackStates : Q(q, k)}]
<1>1. N \in Nat /\ \A k \in 1 .. N : items[k] \in Items /\ k - 1 \in 0 .. N /\ k \in 0 .. N
  OBVIOUS
<1>2. PICK f \in [0 .. N -> PackStates] :
        /\ f[0] = p /\ WriteItems(p, items) = f[N]
        /\ \A k \in 1 .. N : f[k] = WriteItem(f[k - 1], items[k])
  BY WriteItemsPasses
<1>3. a \in Nat /\ p.store \in Seq(Nat)
  BY DEF PackStates
<1>4. Q(p, 0)
  <2> DEFINE e == [j \in 0 .. 0 |-> a]
  <2>1. e \in [0 .. 0 -> Nat] /\ e[0] = a
    BY <1>3
  <2> HIDE DEF e
  <2>2. EndsOf(e, p.store, items, 0, a)
    BY <2>1 DEF EndsOf
  <2> QED BY <1>3, <2>2 DEF HoldsItems
<1>5. ASSUME NEW k \in 1 .. N, NEW q \in PackStates, Q(q, k - 1) PROVE Q(WriteItem(q, items[k]), k)
  <2> DEFINE x == WriteItem(q, items[k])
             t == WrittenBytes(items[k])
  <2>1. q.store \in Seq(Nat)
    BY DEF PackStates
  <2>2. x.r = q.r /\ x.store = q.store \o t
    BY <1>1, WriteItemIs
  <2>3. t \in Seq(Nat)
    BY <1>1, WrittenType
  <2>4. HoldsItems(x.store, items, k, a)
    BY <1>3, <1>5, <2>1, <2>2, HoldsMore
  <2> HIDE DEF t
  <2>5. /\ Len(q.store \o t) = Len(q.store) + Len(t)
        /\ \A i \in 1 .. Len(q.store) + Len(t) :
             (q.store \o t)[i] = IF i <= Len(q.store) THEN q.store[i] ELSE t[i - Len(q.store)]
    BY <2>1, <2>3, ConcatProperties
  <2>6. \A i \in 1 .. a : i \in 1 .. Len(q.store) + Len(t) /\ i <= Len(q.store)
    BY SMTT(30), <1>3, <1>5, <2>1, <2>3
  <2>7. a <= Len(x.store)
    BY <1>3, <1>5, <2>1, <2>2, <2>3, <2>5
  <2> QED BY <1>5, <2>2, <2>4, <2>5, <2>6, <2>7
<1> HIDE DEF Q
<1>6. f[0] \in S[0]
  BY <1>1, <1>2, <1>4
<1>7. \A k \in 1 .. N : f[k - 1] \in S[k - 1] => f[k] \in S[k]
  <2> TAKE k \in 1 .. N
  <2> SUFFICES ASSUME f[k - 1] \in S[k - 1] PROVE f[k] \in S[k]
    OBVIOUS
  <2>1. f[k - 1] \in PackStates /\ Q(f[k - 1], k - 1)
    BY <1>1
  <2>2. Q(f[k], k) /\ f[k] \in PackStates
    BY <1>1, <1>2, <1>5, <2>1
  <2> QED BY <1>1, <2>2
<1> HIDE DEF S
<1>8. \A k \in 0 .. N : f[k] \in S[k]
  BY ONLY <1>1, <1>6, <1>7, KeptAt
<1>9. f[N] \in PackStates /\ Q(f[N], N)
  BY <1>1, <1>8 DEF S
<1> QED BY <1>2, <1>9 DEF Q

ReadStates == [p : PackStates, vs : Seq(Nat)]

LEMMA ReadItemsPasses ==
  ASSUME NEW p \in PackStates, NEW items \in Seq(Items)
  PROVE  \E f \in [0 .. Len(items) -> ReadStates] :
           /\ f[0] = [p |-> p, vs |-> <<>>] /\ ReadItems(p, items) = f[Len(items)]
           /\ \A k \in 1 .. Len(items) : f[k] = ReadNext(f[k - 1], items[k])
<1> DEFINE N == Len(items)
           b == [p |-> p, vs |-> <<>>]
           G == [x \in (1 .. N) \X ReadStates |-> ReadNext(x[2], items[x[1]])]
<1>1. N \in Nat /\ (\A k \in 1 .. N : items[k] \in Items /\ k - 1 \in 0 .. N) /\ b \in ReadStates
  BY DEF ReadStates
<1>2. \A x \in ReadStates, k \in 1 .. N : ReadNext(x, items[k]) \in ReadStates
  <2> TAKE x \in ReadStates, k \in 1 .. N
  <2>1. x.p \in PackStates /\ x.vs \in Seq(Nat) /\ items[k] \in Items
    BY <1>1 DEF ReadStates
  <2>2. ReadItem(x.p, items[k]).v \in Nat /\ ReadItem(x.p, items[k]).p \in PackStates
    BY <2>1, ReadItemType
  <2>3. Append(x.vs, ReadItem(x.p, items[k]).v) \in Seq(Nat)
    BY <2>1, <2>2
  <2> QED BY <2>2, <2>3 DEF ReadNext, ReadStates
<1>3. G \in [(1 .. N) \X ReadStates -> ReadStates]
  BY <1>2
<1> HIDE DEF G, N, b
<1>4. PICK f : Runs(f, N, ReadStates, b, G)
  BY <1>1, <1>3, Passes
<1>5. /\ f \in [0 .. N -> ReadStates] /\ f[0] = b
      /\ \A k \in 1 .. N : f[k] = ReadNext(f[k - 1], items[k])
  BY <1>1, <1>4 DEF Runs, G
<1>6. f = [k \in 0 .. N |-> IF k = 0 THEN b ELSE ReadNext(f[k - 1], items[k])]
  BY <1>1, <1>5
<1> DEFINE h == CHOOSE g : g = [k \in 0 .. N |-> IF k = 0 THEN b ELSE ReadNext(g[k - 1], items[k])]
<1>7. h = [k \in 0 .. N |-> IF k = 0 THEN b ELSE ReadNext(h[k - 1], items[k])]
  BY <1>6
<1>8. ReadItems(p, items) = h[N]
  BY DEF ReadItems, N, b
<1> HIDE DEF h
<1>9. h[0] = b /\ \A k \in 1 .. N : h[k] = ReadNext(h[k - 1], items[k])
  BY <1>1, <1>7
<1>10. \A k \in 1 .. N : h[k - 1] \in ReadStates => h[k] \in ReadStates
  BY <1>2, <1>9
<1>11. \A k \in 0 .. N : h[k] \in ReadStates
  BY ONLY <1>1, <1>9, <1>10, Kept
<1>12. h \in [0 .. N -> ReadStates]
  BY <1>7, <1>11
<1> QED BY <1>8, <1>9, <1>12 DEF N, b

\* The items that a pack holds from its position to its end are read as they were written.
LEMMA ReadItemsIs ==
  ASSUME NEW p \in PackStates, NEW items \in Seq(Items), HoldsItems(p.store, items, Len(items), p.r)
  PROVE  LET x == ReadItems(p, items)
         IN  x.vs = Values(items) /\ x.p.r = x.p.w /\ x \in ReadStates
<1> DEFINE N == Len(items)
<1>1. N \in Nat /\ \A k \in 1 .. N : items[k] \in Items /\ k - 1 \in 0 .. N /\ k \in 0 .. N
  OBVIOUS
<1>2. PICK f \in [0 .. N -> ReadStates] :
        /\ f[0] = [p |-> p, vs |-> <<>>] /\ ReadItems(p, items) = f[N]
        /\ \A k \in 1 .. N : f[k] = ReadNext(f[k - 1], items[k])
  BY ReadItemsPasses
<1>3. PICK e : EndsOf(e, p.store, items, N, p.r)
  BY DEF HoldsItems
<1>4. /\ e \in [0 .. N -> Nat] /\ e[0] = p.r /\ e[N] = Len(p.store)
      /\ \A j \in 1 .. N : ItemAt(p.store, e[j - 1], e[j], items[j])
  BY <1>3 DEF EndsOf
<1> DEFINE Q(x, k) == /\ x.p = [store |-> p.store, r |-> e[k], w |-> p.w]
                      /\ Len(x.vs) = k /\ \A j \in 1 .. k : x.vs[j] = items[j].v
           S == [k \in 0 .. N |-> {x \in ReadStates : Q(x, k)}]
<1>5. Q([p |-> p, vs |-> <<>>], 0)
  BY <1>4 DEF PackStates
<1>6. ASSUME NEW k \in 1 .. N, NEW x \in ReadStates, Q(x, k - 1) PROVE Q(ReadNext(x, items[k]), k)
  <2>1. /\ x.p \in PackStates /\ x.vs \in Seq(Nat) /\ items[k] \in Items /\ items[k].v \in Nat
        /\ x.p.store = p.store /\ x.p.r = e[k - 1] /\ x.p.w = p.w
    BY <1>1, <1>6, ItemTypes DEF ReadStates
  <2>2. ItemAt(x.p.store, x.p.r, e[k], items[k])
    BY <1>4, <2>1
  <2>3. ReadItem(x.p, items[k]) = [v |-> items[k].v, p |-> [store |-> x.p.store, r |-> e[k], w |-> x.p.w]]
    BY <2>1, <2>2, ReadItemIs
  <2>4. /\ ReadNext(x, items[k]).p = [store |-> p.store, r |-> e[k], w |-> p.w]
        /\ ReadNext(x, items[k]).vs = Append(x.vs, items[k].v)
    BY <2>1, <2>3 DEF ReadNext
  <2> DEFINE y == Append(x.vs, items[k].v)
  <2>5. /\ Len(y) = Len(x.vs) + 1 /\ (\A j \in 1 .. Len(x.vs) : y[j] = x.vs[j])
        /\ y[Len(x.vs) + 1] = items[k].v
    BY <2>1, AppendProperties
  <2> HIDE DEF y
  <2>6. Len(y) = k /\ \A j \in 1 .. k : y[j] = items[j].v
    <3>1. Len(x.vs) = k - 1 /\ \A j \in 1 .. k - 1 : x.vs[j] = items[j].v
      BY <1>6
    <3>2. \A j \in 1 .. k : j = k \/ j \in 1 .. k - 1
      OBVIOUS
    <3>3. k - 1 + 1 = k
      OBVIOUS
    <3> QED BY <2>5, <3>1, <3>2, <3>3
  <2> QED BY <2>4, <2>6 DEF y
<1> HIDE DEF Q
<1>7. f[0] \in S[0]
  BY <1>1, <1>2, <1>5
<1>8. \A k \in 1 .. N : f[k - 1] \in S[k - 1] => f[k] \in S[k]
  <2> TAKE k \in 1 .. N
  <2> SUFFICES ASSUME f[k - 1] \in S[k - 1] PROVE f[k] \in S[k]
    OBVIOUS
  <2>1. f[k - 1] \in ReadStates /\ Q(f[k - 1], k - 1)
    BY <1>1
  <2>2. Q(f[k], k) /\ f[k] \in ReadStates
    BY <1>1, <1>2, <1>6, <2>1
  <2> QED BY <1>1, <2>2
<1> HIDE DEF S
<1>9. \A k \in 0 .. N : f[k] \in S[k]
  BY ONLY <1>1, <1>7, <1>8, KeptAt
<1>10. f[N] \in ReadStates /\ Q(f[N], N)
  BY <1>1, <1>9 DEF S
<1> DEFINE x == f[N]
<1>11. /\ x \in ReadStates /\ x.p = [store |-> p.store, r |-> e[N], w |-> p.w]
       /\ Len(x.vs) = N /\ \A j \in 1 .. N : x.vs[j] = items[j].v
  BY <1>10 DEF Q
<1> HIDE DEF x
<1>12. x.p.r = x.p.w
  BY <1>4, <1>11 DEF PackStates
<1>13. x.vs = Values(items)
  <2>1. x.vs \in Seq(Nat)
    BY <1>11 DEF ReadStates
  <2>2. Values(items) \in [1 .. N -> Nat]
    BY <1>1, ItemTypes DEF Values
  <2>3. Values(items) \in Seq(Nat) /\ Len(Values(items)) = N
    BY <1>1, <2>2
  <2>4. \A j \in 1 .. N : x.vs[j] = Values(items)[j]
    BY <1>11 DEF Values
  <2> QED BY <1>11, <2>1, <2>3, <2>4, SeqEqual
<1> QED BY <1>2, <1>11, <1>12, <1>13 DEF x

\* What Show reads of what has been written.
LEMMA ShowIs ==
  ASSUME NEW p \in PackStates, NEW pos \in Nat, NEW n \in Nat, n >= 1, pos + n <= p.w
  PROVE  Show(p, pos, n) = p.store[pos + 1] \div 8
<1>0. p.store \in Seq(Nat) /\ p.w = Len(p.store) /\ p.w \in Nat
  BY DEF PackStates
<1>1. ~ (pos + n > p.w)
  BY <1>0
<1>2. \A i \in pos + 1 .. pos + n : p.store[i] \in Nat
  <2>1. \A i \in pos + 1 .. pos + n : i \in 1 .. Len(p.store)
    BY <1>0
  <2> QED BY <1>0, <2>1
<1>3. \A i \in 1 .. pos + n - (pos + 1) + 1 :
         SubSeq(p.store, pos + 1, pos + n)[i] = p.store[pos + 1 + i - 1]
  BY <1>2, SubSeqProperties
<1>4. 1 \in 1 .. pos + n - (pos + 1) + 1 /\ pos + 1 + 1 - 1 = pos + 1
  OBVIOUS
<1>5. SubSeq(p.store, pos + 1, pos + n)[1] = p.store[pos + 1]
  BY <1>3, <1>4
<1> QED BY <1>1, <1>5 DEF Show, Value

-----------------------------------------------------------------------------
(* RpcPack: heads                                                          *)

\* The bytes begin with the head of the call of the key.
HeadOf(b, key) ==
  /\ b \in Seq(Nat) /\ Len(b) >= HeaderSize
  /\ b[2] \div 8 = key[1] /\ b[4] \div 8 = key[2]

\* They are the pack of the call x, or of its answer.
Carries(b, x) == HeadOf(b, x.key) /\ HoldsItems(b, x.items, Len(x.items), HeaderSize)

\* A pack without a call.
NoCall(p) == p \in PackStates /\ p.w >= HeaderSize /\ OpCode(p) = 0

LEMMA OpCodeIs ==
  ASSUME NEW p \in PackStates, p.w >= HeaderSize
  PROVE  /\ OpCode(p) = p.store[2] \div 8
         /\ GetReqKey(p) = <<p.store[2] \div 8, p.store[4] \div 8>>
<1>1. p.w \in Nat /\ p.w >= 7
  BY DEF PackStates, HeaderSize
<1>2. 1 \in Nat /\ 3 \in Nat /\ 2 \in Nat /\ 4 \in Nat /\ 2 >= 1 /\ 4 >= 1 /\ 1 + 2 <= p.w /\ 3 + 4 <= p.w
      /\ 1 + 1 = 2 /\ 3 + 1 = 4
  BY <1>1
<1>3. Show(p, 1, 2) = p.store[2] \div 8 /\ Show(p, 3, 4) = p.store[4] \div 8
  BY <1>2, ShowIs
<1> QED BY <1>3 DEF OpCode, GetReqKey, OpcodeIndex, ReqIdxIndex

LEMMA ResizeType ==
  ASSUME NEW p \in PackStates, NEW n \in Nat
  PROVE  /\ Resize(p, n) \in PackStates /\ Resize(p, n).w = n /\ Resize(p, n).r = n
         /\ Resize(p, n).store = Resized(p.store, n)
<1>1. p.store \in Seq(Nat)
  BY DEF PackStates
<1>2. Resized(p.store, n) \in Seq(Nat) /\ Len(Resized(p.store, n)) = n
  BY <1>1, ResizedType
<1> QED BY <1>2 DEF Resize, PackStates

\* The setters of the head, on a pack that has one.
LEMMA SetsHead ==
  ASSUME NEW p \in PackStates, p.w >= HeaderSize, NEW v \in Nat
  PROVE  /\ LET q == SetType(p, v)
            IN  q \in PackStates /\ q.r = p.r /\ q.w = p.w /\ q.store[2] = p.store[2]
         /\ LET q == SetOpCode(p, v)
            IN  q \in PackStates /\ q.r = p.r /\ q.w = p.w /\ q.store[2] \div 8 = v
         /\ LET q == SetReqIdx(p, v)
            IN  /\ q \in PackStates /\ q.r = p.r /\ q.w = p.w
                /\ q.store[2] = p.store[2] /\ q.store[4] \div 8 = v
<1>0. p.w \in Nat /\ p.w >= 7 /\ p.w = Len(p.store)
  BY DEF PackStates, HeaderSize
<1>1. \A n \in Nat : ItemBytes(v, n) \in Seq(Nat) /\ Len(ItemBytes(v, n)) = n
                     /\ (n >= 1 => ItemBytes(v, n)[1] \div 8 = v)
  BY ItemBytesType
<1>2. 2 \in 1 .. p.w /\ 4 \in 1 .. p.w
  BY <1>0
<1>3. LET q == SetType(p, v)
      IN  q \in PackStates /\ q.r = p.r /\ q.w = p.w /\ q.store[2] = p.store[2]
  <2> DEFINE s == ItemBytes(v, 1)
             q == PutAt(p, 0, s)
  <2>0. 1 \in Nat
    OBVIOUS
  <2>4. s \in Seq(Nat) /\ Len(s) = 1
    BY <1>1, <2>0
  <2>5. 0 \in Nat /\ 0 + 1 <= Len(p.store) /\ ~ (2 - 0 \in 1 .. 1)
    BY <1>0
  <2>1. s \in Seq(Nat) /\ Len(s) = 1 /\ 0 \in Nat /\ 0 + Len(s) <= Len(p.store) /\ ~ (2 - 0 \in 1 .. 1)
    BY <2>4, <2>5
  <2> HIDE DEF s
  <2>2. /\ q \in PackStates /\ q.r = p.r /\ q.w = p.w
        /\ \A i \in 1 .. p.w : q.store[i] = IF i - 0 \in 1 .. Len(s) THEN s[i - 0] ELSE p.store[i]
    BY <2>1, PutsInto
  <2>3. q.store[2] = p.store[2]
    BY <1>2, <2>1, <2>2
  <2> QED BY <2>2, <2>3 DEF SetType, TypeIndex, s
<1>4. LET q == SetOpCode(p, v)
      IN  q \in PackStates /\ q.r = p.r /\ q.w = p.w /\ q.store[2] \div 8 = v
  <2> DEFINE s == ItemBytes(v, 2)
             q == PutAt(p, 1, s)
  <2>0. 2 \in Nat /\ 2 >= 1
    OBVIOUS
  <2>1. s \in Seq(Nat) /\ Len(s) = 2 /\ s[1] \div 8 = v
    BY <1>1, <2>0
  <2> HIDE DEF s
  <2>4. 1 \in Nat /\ 1 + Len(s) <= Len(p.store) /\ 2 - 1 \in 1 .. 2 /\ 2 - 1 = 1
    BY <1>0, <2>1
  <2>2. /\ q \in PackStates /\ q.r = p.r /\ q.w = p.w
        /\ \A i \in 1 .. p.w : q.store[i] = IF i - 1 \in 1 .. Len(s) THEN s[i - 1] ELSE p.store[i]
    BY <2>1, <2>4, PutsInto
  <2>3. q.store[2] = s[1]
    BY <1>2, <2>1, <2>2, <2>4
  <2> QED BY <2>1, <2>2, <2>3 DEF SetOpCode, OpcodeIndex, s
<1>5. LET q == SetReqIdx(p, v)
      IN  /\ q \in PackStates /\ q.r = p.r /\ q.w = p.w
          /\ q.store[2] = p.store[2] /\ q.store[4] \div 8 = v
  <2> DEFINE s == ItemBytes(v, 4)
             q == PutAt(p, 3, s)
  <2>0. 4 \in Nat /\ 4 >= 1
    OBVIOUS
  <2>1. s \in Seq(Nat) /\ Len(s) = 4 /\ s[1] \div 8 = v
    BY <1>1, <2>0
  <2> HIDE DEF s
  <2>4. /\ 3 \in Nat /\ 3 + Len(s) <= Len(p.store) /\ 4 - 3 \in 1 .. 4 /\ 4 - 3 = 1
        /\ ~ (2 - 3 \in 1 .. 4)
    BY <1>0, <2>1
  <2>2. /\ q \in PackStates /\ q.r = p.r /\ q.w = p.w
        /\ \A i \in 1 .. p.w : q.store[i] = IF i - 3 \in 1 .. Len(s) THEN s[i - 3] ELSE p.store[i]
    BY <2>1, <2>4, PutsInto
  <2>3. q.store[4] = s[1] /\ q.store[2] = p.store[2]
    BY <1>2, <2>1, <2>2, <2>4
  <2> QED BY <2>1, <2>2, <2>3 DEF SetReqIdx, ReqIdxIndex, s
<1> QED BY <1>3, <1>4, <1>5

LEMMA NewStorageType == NewStorage \in PackStates /\ NewStorage.store = <<>> /\ NewStorage.r = 0
<1>1. <<>> \in Seq(Nat) /\ Len(<<>>) = 0
  OBVIOUS
<1> QED BY <1>1 DEF NewStorage, PackStates

LEMMA NewPackIs == NoCall(NewPack) /\ NewPack.w = HeaderSize
<1> DEFINE p == Resize(NewStorage, HeaderSize)
           z == ZeroBytes(7)
           e == <<>>
<1>1. 7 \in Nat /\ HeaderSize = 7 /\ e \in Seq(Nat) /\ Len(e) = 0
  BY DEF HeaderSize
<1>2. z \in Seq(Nat) /\ Len(z) = 7 /\ z[2] = 0
  <2>1. z \in Seq(Nat) /\ Len(z) = 7
    <3>1. 7 \in Int /\ 7 >= 0
      OBVIOUS
    <3> QED BY ONLY <3>1, ZeroBytesType
  <2> QED BY <2>1 DEF ZeroBytes
<1>3. p \in PackStates /\ p.w = 7 /\ p.store = Resized(e, 7)
  BY <1>1, NewStorageType, ResizeType
<1>4. Resized(e, 7) = z
  <2>1. 7 - Len(e) = 7
    BY <1>1
  <2>2. Resized(e, 7) = SubSeq(e \o z, 1, 7)
    BY <2>1 DEF Resized
  <2> HIDE DEF z
  <2>3. e \o z = z
    BY <1>2, ConcatEmptySeq
  <2>4. SubSeq(z, 1, 7) = z
    BY <1>2, SubSeqFull
  <2> QED BY <2>2, <2>3, <2>4
<1> HIDE DEF p, z
<1>5. p.store[2] \div 8 = 0
  BY <1>2, <1>3, <1>4
<1> DEFINE q == SetType(p, TypeTcp)
<1>6. q \in PackStates /\ q.w = 7 /\ q.store[2] = p.store[2]
  <2>1. p.w >= HeaderSize /\ TypeTcp \in Nat
    BY <1>1, <1>3 DEF TypeTcp
  <2> QED BY <1>3, <2>1, SetsHead
<1>7. NewPack = q
  BY DEF NewPack, p
<1> HIDE DEF q
<1>8. q.w >= HeaderSize
  BY <1>1, <1>6
<1>9. OpCode(q) = 0
  BY <1>5, <1>6, <1>8, OpCodeIs
<1> QED BY <1>1, <1>6, <1>7, <1>8, <1>9 DEF NoCall

LEMMA ClearPackIs ==
  ASSUME NEW p \in PackStates
  PROVE  NoCall(ClearPack(p)) /\ ClearPack(p).w = HeaderSize
<1> DEFINE a == Resize(p, HeaderSize)
           b == SetOpCode(a, 0)
           c == SetType(b, TypeTcp)
<1>0. HeaderSize \in Nat /\ 0 \in Nat /\ TypeTcp \in Nat /\ HeaderSize >= HeaderSize
  BY DEF HeaderSize, TypeTcp
<1>1. a \in PackStates /\ a.w = HeaderSize
  BY <1>0, ResizeType
<1> HIDE DEF a
<1>2. b \in PackStates /\ b.w = HeaderSize /\ b.store[2] \div 8 = 0
  BY <1>0, <1>1, SetsHead
<1> HIDE DEF b
<1>3. c \in PackStates /\ c.w = HeaderSize /\ c.store[2] = b.store[2]
  BY <1>0, <1>2, SetsHead
<1>4. ClearPack(p) = c
  BY DEF ClearPack, a, b
<1> HIDE DEF c
<1>5. OpCode(c) = 0
  BY <1>0, <1>2, <1>3, OpCodeIs
<1> QED BY <1>0, <1>3, <1>4, <1>5 DEF NoCall

LEMMA PackOfIs ==
  ASSUME NEW bytes \in Seq(Nat)
  PROVE  /\ PackOf(bytes) \in PackStates /\ PackOf(bytes).store = bytes
         /\ PackOf(bytes).r = HeaderSize /\ PackOf(bytes).w = Len(bytes)
<1> DEFINE p == AppendTo(NewStorage, bytes)
           q == [p EXCEPT !.r = HeaderSize]
<1>1. p \in PackStates /\ p.store = <<>> \o bytes
  BY NewStorageType, AppendsBehind
<1>2. <<>> \o bytes = bytes /\ HeaderSize \in Nat
  BY ConcatEmptySeq DEF HeaderSize
<1> HIDE DEF p
<1>3. p \in [store : Seq(Nat), r : Nat, w : Nat] /\ p.w = Len(p.store)
  BY <1>1 DEF PackStates
<1>4. q \in [store : Seq(Nat), r : Nat, w : Nat] /\ q.store = bytes /\ q.r = HeaderSize /\ q.w = Len(bytes)
  BY <1>1, <1>2, <1>3
<1>5. PackOf(bytes) = q
  BY DEF PackOf, p
<1> QED BY <1>4, <1>5 DEF PackStates

\* The head of an answer is that of its call.
LEMMA ResetHeadIs ==
  ASSUME NEW p \in PackStates, NEW b \in Seq(Nat), NEW key, HeadOf(b, key), NEW r
  PROVE  LET q == ResetHead(p, [store |-> b, r |-> r, w |-> Len(b)])
         IN  q \in PackStates /\ q.r = HeaderSize /\ q.w = HeaderSize /\ HeadOf(q.store, key)
<1> DEFINE o == [store |-> b, r |-> r, w |-> Len(b)]
           h == SubSeq(b, 1, 7)
           a == Resize(p, 0)
           c == AppendTo(a, h)
           q == [c EXCEPT !.r = HeaderSize]
<1>0. HeaderSize = 7 /\ 7 \in Nat /\ 0 \in Nat /\ Len(b) \in Nat /\ Len(b) >= 7
  BY DEF HeadOf, HeaderSize
<1>1. h \in Seq(Nat) /\ Len(h) = 7 /\ h[2] = b[2] /\ h[4] = b[4]
  <2>1. \A i \in 1 .. 7 : b[i] \in Nat
    BY <1>0
  <2>2. /\ h \in Seq(Nat) /\ Len(h) = IF 1 <= 7 THEN 7 - 1 + 1 ELSE 0
        /\ \A i \in 1 .. 7 - 1 + 1 : h[i] = b[1 + i - 1]
    BY <2>1, SubSeqProperties
  <2>3. h[2] = b[1 + 2 - 1] /\ h[4] = b[1 + 4 - 1]
    BY <2>2
  <2> QED BY <2>2, <2>3
<1> HIDE DEF h
<1>2. a \in PackStates /\ a.store = <<>>
  <2>1. a \in PackStates /\ a.w = 0
    BY <1>0, ResizeType
  <2>2. a.store \in Seq(Nat) /\ Len(a.store) = 0
    BY <2>1 DEF PackStates
  <2> QED BY <2>1, <2>2
<1> HIDE DEF a
<1>3. c \in PackStates /\ c.store = <<>> \o h
  BY ZenonT(60), <1>1, <1>2, AppendsBehind
<1>4. <<>> \o h = h
  BY <1>1, ConcatEmptySeq
<1> HIDE DEF c
<1>5. c \in [store : Seq(Nat), r : Nat, w : Nat] /\ c.w = Len(c.store)
  BY <1>3 DEF PackStates
<1>6. q \in [store : Seq(Nat), r : Nat, w : Nat] /\ q.store = h /\ q.r = HeaderSize /\ q.w = 7
  BY <1>0, <1>1, <1>3, <1>4, <1>5
<1>7. ResetHead(p, o) = q
  BY <1>0 DEF ResetHead, c, h, a
<1> HIDE DEF q
<1>8. q \in PackStates
  BY <1>1, <1>6 DEF PackStates
<1>9. HeadOf(q.store, key)
  <2>1. b[2] \div 8 = key[1] /\ b[4] \div 8 = key[2]
    BY DEF HeadOf
  <2>2. h \in Seq(Nat) /\ Len(h) >= HeaderSize /\ h[2] \div 8 = key[1] /\ h[4] \div 8 = key[2]
    BY <1>0, <1>1, <2>1
  <2> QED BY <1>6, <2>2 DEF HeadOf
<1> QED BY <1>0, <1>6, <1>7, <1>8, <1>9

\* What follows a head leaves it.
LEMMA HeadStays ==
  ASSUME NEW b \in Seq(Nat), NEW c \in Seq(Nat), NEW key, HeadOf(b, key), Len(b) <= Len(c),
         \A i \in 1 .. Len(b) : c[i] = b[i]
  PROVE  HeadOf(c, key)
<1>1. Len(b) \in Nat /\ Len(c) \in Nat /\ Len(b) >= 7 /\ Len(c) >= HeaderSize
  <2>1. Len(b) >= HeaderSize
    BY DEF HeadOf
  <2>2. HeaderSize = 7
    BY DEF HeaderSize
  <2>3. Len(b) \in Nat /\ Len(c) \in Nat
    OBVIOUS
  <2> QED BY <2>1, <2>2, <2>3
<1>2. 2 \in 1 .. Len(b) /\ 4 \in 1 .. Len(b)
  BY <1>1
<1>3. c[2] = b[2] /\ c[4] = b[4]
  BY <1>2
<1> QED BY <1>1, <1>3 DEF HeadOf

-----------------------------------------------------------------------------
(* RpcPack: calls and answers                                              *)

Idx(b) == b[4] \div 8

\* Calls registered, the n first indices used.
Numbered(resp, n) ==
  /\ n \in Nat /\ resp \subseteq [key : OpCodes \X (1 .. n), items : Seq(Items)]
  /\ \A x, y \in resp : x.key[2] = y.key[2] => x = y

\* Every pack on its way is that of a call that is registered.
CallsCarried(calls, resp) ==
  /\ calls \in Seq([bytes : Seq(Nat), items : Seq(Items)])
  /\ \A i \in 1 .. Len(calls) :
       \E x \in resp : x.items = calls[i].items /\ Carries(calls[i].bytes, x)

AnswersCarried(answers, resp) ==
  /\ answers \in Seq(Seq(Nat))
  /\ \A i \in 1 .. Len(answers) : \E x \in resp : Carries(answers[i], x)

\* The buffer of answers, at the steps of a handler: with the head of the call, then with
\* the answer, and with no call when the answer has been sent.
Handling(step, b, ans, resp) ==
  /\ step \in {"idle", "read", "written", "early", "more"} /\ b \in PackStates
  /\ step = "read" => \E x \in resp : x.items = ans /\ HeadOf(b.store, x.key) /\ b.w = HeaderSize
  /\ step = "written" => \E x \in resp : x.items = ans /\ Carries(b.store, x)
  /\ step \in {"early", "more"} => NoCall(b)

\* No two packs on their way are of the same call, nor is one of the call that is handled.
Apart(calls, answers) ==
  /\ \A i, j \in 1 .. Len(calls) : Idx(calls[i].bytes) = Idx(calls[j].bytes) => i = j
  /\ \A i, j \in 1 .. Len(answers) : Idx(answers[i]) = Idx(answers[j]) => i = j
  /\ \A i \in 1 .. Len(calls), j \in 1 .. Len(answers) : Idx(calls[i].bytes) # Idx(answers[j])

HandledApart(step, b, calls, answers) ==
  step \in {"read", "written"} =>
    /\ \A i \in 1 .. Len(calls) : Idx(calls[i].bytes) # Idx(b.store)
    /\ \A j \in 1 .. Len(answers) : Idx(answers[j]) # Idx(b.store)

PackInv ==
  /\ Numbered(response, autoIdx)
  /\ NoCall(sendBuf) /\ sendBuf.w = HeaderSize
  /\ CallsCarried(toCallee, response)
  /\ AnswersCarried(toCaller, response)
  /\ Handling(pc, backBuf, answer, response)
  /\ Apart(toCallee, toCaller)
  /\ HandledApart(pc, backBuf, toCallee, toCaller)
  /\ wrong = FALSE

LEMMA IdxOf ==
  ASSUME NEW resp, NEW n, Numbered(resp, n), NEW x \in resp, NEW b, HeadOf(b, x.key)
  PROVE  /\ Idx(b) = x.key[2] /\ Idx(b) \in 1 .. n /\ b[2] \div 8 = x.key[1]
         /\ x \in [key : OpCodes \X (1 .. n), items : Seq(Items)]
         /\ x.key = <<b[2] \div 8, b[4] \div 8>>
<1>1. x \in [key : OpCodes \X (1 .. n), items : Seq(Items)]
  BY DEF Numbered
<1>2. x.key \in OpCodes \X (1 .. n)
  BY <1>1
<1>3. x.key[2] \in 1 .. n /\ x.key = <<x.key[1], x.key[2]>>
  BY <1>2
<1>4. b[2] \div 8 = x.key[1] /\ b[4] \div 8 = x.key[2]
  BY DEF HeadOf
<1> QED BY <1>1, <1>3, <1>4 DEF Idx

LEMMA PackInitInv == PackInit => PackInv
<1> SUFFICES ASSUME PackInit PROVE PackInv
  OBVIOUS
<1>1. NoCall(sendBuf) /\ sendBuf.w = HeaderSize /\ backBuf \in PackStates
  BY NewPackIs DEF PackInit, NoCall
<1>2. autoIdx = 0 /\ response = {} /\ toCallee = <<>> /\ toCaller = <<>> /\ pc = "idle" /\ wrong = FALSE
  BY DEF PackInit
<1>3. Numbered(response, autoIdx)
  BY <1>2 DEF Numbered
<1>4. CallsCarried(toCallee, response) /\ AnswersCarried(toCaller, response) /\ Apart(toCallee, toCaller)
  BY <1>2 DEF CallsCarried, AnswersCarried, Apart
<1>5. Handling(pc, backBuf, answer, response) /\ HandledApart(pc, backBuf, toCallee, toCaller)
  BY <1>1, <1>2 DEF Handling, HandledApart
<1> QED BY <1>1, <1>2, <1>3, <1>4, <1>5 DEF PackInv

LEMMA CallPackInv ==
  ASSUME PackInv, NEW op \in OpCodes, NEW items \in Bodies[op], CallPack(op, items)
  PROVE  PackInv'
<1> DEFINE n == autoIdx + 1
           a == SetOpCode(sendBuf, op)
           b == SetReqIdx(a, n)
           q == WriteItems(b, items)
           x == [key |-> <<op, n>>, items |-> items]
           c == [bytes |-> q.store, items |-> items]
<1>0. /\ Numbered(response, autoIdx) /\ NoCall(sendBuf) /\ sendBuf.w = HeaderSize
      /\ CallsCarried(toCallee, response) /\ AnswersCarried(toCaller, response)
      /\ Handling(pc, backBuf, answer, response) /\ Apart(toCallee, toCaller)
      /\ HandledApart(pc, backBuf, toCallee, toCaller) /\ wrong = FALSE
  BY DEF PackInv
<1>1. items \in Seq(Items) /\ op \in Nat /\ autoIdx \in Nat /\ n \in Nat /\ HeaderSize = 7
      /\ n \in 1 .. n /\ \A i \in 1 .. autoIdx : i \in 1 .. n /\ i # n
  BY <1>0, RpcPackAssumption DEF Numbered, HeaderSize
<1>2. /\ autoIdx' = n /\ toCallee' = Append(toCallee, c) /\ sendBuf' = ClearPack(q)
      /\ response' = response \cup {[key |-> GetReqKey(q), items |-> items]}
      /\ pc' = pc /\ answer' = answer /\ backBuf' = backBuf /\ toCaller' = toCaller /\ wrong' = wrong
  BY DEF CallPack
<1>3. b \in PackStates /\ b.w = 7 /\ b.store[2] \div 8 = op /\ b.store[4] \div 8 = n
  <2>1. sendBuf \in PackStates /\ sendBuf.w >= HeaderSize
    BY <1>0 DEF NoCall
  <2>2. a \in PackStates /\ a.w = sendBuf.w /\ a.store[2] \div 8 = op
    BY <1>1, <2>1, SetsHead
  <2> HIDE DEF a
  <2>3. b \in PackStates /\ b.w = a.w /\ b.store[2] = a.store[2] /\ b.store[4] \div 8 = n
    BY <1>1, <2>1, <2>2, SetsHead
  <2> QED BY <1>0, <1>1, <2>2, <2>3
<1> HIDE DEF b
<1>4. Len(b.store) = 7 /\ b.store \in Seq(Nat) /\ HeadOf(b.store, <<op, n>>)
  <2>1. Len(b.store) = 7 /\ b.store \in Seq(Nat)
    BY <1>3 DEF PackStates
  <2>2. <<op, n>>[1] = op /\ <<op, n>>[2] = n
    OBVIOUS
  <2> QED BY <1>1, <1>3, <2>1, <2>2 DEF HeadOf
<1>5. /\ q \in PackStates /\ Len(b.store) <= Len(q.store)
      /\ \A i \in 1 .. Len(b.store) : q.store[i] = b.store[i]
      /\ HoldsItems(q.store, items, Len(items), Len(b.store))
  BY <1>1, <1>3, WriteItemsHolds
<1> HIDE DEF q
<1>6. q.store \in Seq(Nat) /\ q.w = Len(q.store)
  BY <1>5 DEF PackStates
<1>7. HeadOf(q.store, <<op, n>>)
  BY <1>4, <1>5, <1>6, HeadStays
<1>8. Carries(q.store, x)
  <2>1. x.key = <<op, n>> /\ x.items = items
    OBVIOUS
  <2> HIDE DEF x
  <2> QED BY <1>1, <1>4, <1>5, <1>7, <2>1 DEF Carries
<1>9. GetReqKey(q) = <<op, n>>
  <2>1. q.w >= HeaderSize
    BY <1>6, <1>7 DEF HeadOf
  <2>2. q.store[2] \div 8 = op /\ q.store[4] \div 8 = n
    BY <1>7 DEF HeadOf
  <2> QED BY <1>5, <2>1, <2>2, OpCodeIs
<1>10. response' = response \cup {x}
  BY <1>2, <1>9
<1>11. x \in [key : OpCodes \X (1 .. n), items : Seq(Items)] /\ x.key[2] = n /\ x.items = items
  BY <1>1
<1>12. \A y \in response : y \in [key : OpCodes \X (1 .. n), items : Seq(Items)] /\ y.key[2] \in 1 .. autoIdx
  <2> TAKE y \in response
  <2>1. y \in [key : OpCodes \X (1 .. autoIdx), items : Seq(Items)]
    BY <1>0 DEF Numbered
  <2>2. y.key \in OpCodes \X (1 .. autoIdx) /\ y.items \in Seq(Items) /\ y = [key |-> y.key, items |-> y.items]
    BY <2>1
  <2>3. y.key[1] \in OpCodes /\ y.key[2] \in 1 .. autoIdx /\ y.key = <<y.key[1], y.key[2]>>
    BY <2>2
  <2>4. y.key \in OpCodes \X (1 .. n)
    BY <1>1, <2>3
  <2> QED BY <2>2, <2>3, <2>4
<1> HIDE DEF x
<1>13. Numbered(response', autoIdx')
  <2>1. \A y, z \in response : y.key[2] = z.key[2] => y = z
    BY <1>0 DEF Numbered
  <2>2. \A y \in response : y.key[2] # n
    BY <1>1, <1>12
  <2>3. \A y, z \in response' : y.key[2] = z.key[2] => y = z
    BY <1>10, <1>11, <2>1, <2>2
  <2>4. response' \subseteq [key : OpCodes \X (1 .. n), items : Seq(Items)]
    BY <1>10, <1>11, <1>12
  <2> QED BY <1>1, <1>2, <2>3, <2>4 DEF Numbered
<1>14. NoCall(sendBuf') /\ sendBuf'.w = HeaderSize
  BY <1>2, <1>5, ClearPackIs
<1>15. c \in [bytes : Seq(Nat), items : Seq(Items)] /\ c.bytes = q.store /\ c.items = items
  BY <1>1, <1>6
<1> HIDE DEF c
<1>16. /\ toCallee \in Seq([bytes : Seq(Nat), items : Seq(Items)]) /\ Len(toCallee) \in Nat
       /\ toCallee' \in Seq([bytes : Seq(Nat), items : Seq(Items)]) /\ Len(toCallee') = Len(toCallee) + 1
       /\ \A i \in 1 .. Len(toCallee) : toCallee'[i] = toCallee[i]
       /\ toCallee'[Len(toCallee) + 1] = c
       /\ \A i \in 1 .. Len(toCallee) + 1 : i \in 1 .. Len(toCallee) \/ i = Len(toCallee) + 1
  <2>1. toCallee \in Seq([bytes : Seq(Nat), items : Seq(Items)])
    BY <1>0 DEF CallsCarried
  <2>2. \A i \in 1 .. Len(toCallee) + 1 : i \in 1 .. Len(toCallee) \/ i = Len(toCallee) + 1
    BY <2>1
  <2> QED BY <1>2, <1>15, <2>1, <2>2, AppendProperties
<1>17. CallsCarried(toCallee', response')
  <2>1. \A i \in 1 .. Len(toCallee) :
           \E y \in response' : y.items = toCallee'[i].items /\ Carries(toCallee'[i].bytes, y)
    BY <1>0, <1>10, <1>16 DEF CallsCarried
  <2>2. \E y \in response' : y.items = c.items /\ Carries(c.bytes, y)
    BY <1>8, <1>10, <1>11, <1>15
  <2> QED BY <1>16, <2>1, <2>2 DEF CallsCarried
<1>18. AnswersCarried(toCaller', response')
  BY <1>0, <1>2, <1>10 DEF AnswersCarried
<1>19. Handling(pc', backBuf', answer', response')
  BY <1>0, <1>2, <1>10 DEF Handling
<1>20. Idx(c.bytes) = n
  BY <1>7, <1>15 DEF HeadOf, Idx
<1>21. \A i \in 1 .. Len(toCallee) : Idx(toCallee[i].bytes) # n
  <2> TAKE i \in 1 .. Len(toCallee)
  <2>1. PICK y \in response : Carries(toCallee[i].bytes, y)
    BY <1>0 DEF CallsCarried
  <2>2. Idx(toCallee[i].bytes) \in 1 .. autoIdx
    BY <1>0, <2>1, IdxOf DEF Carries
  <2> QED BY <1>1, <2>2
<1>22. \A i \in 1 .. Len(toCaller) : Idx(toCaller[i]) # n
  <2> TAKE i \in 1 .. Len(toCaller)
  <2>1. PICK y \in response : Carries(toCaller[i], y)
    BY <1>0 DEF AnswersCarried
  <2>2. Idx(toCaller[i]) \in 1 .. autoIdx
    BY <1>0, <2>1, IdxOf DEF Carries
  <2> QED BY <1>1, <2>2
<1>23. pc \in {"read", "written"} => Idx(backBuf.store) # n
  <2> SUFFICES ASSUME pc \in {"read", "written"} PROVE Idx(backBuf.store) # n
    OBVIOUS
  <2>1. PICK y \in response : HeadOf(backBuf.store, y.key)
    BY <1>0 DEF Handling, Carries
  <2>2. Idx(backBuf.store) \in 1 .. autoIdx
    BY <1>0, <2>1, IdxOf
  <2> QED BY <1>1, <2>2
<1>24. Apart(toCallee', toCaller')
  <2>1. \A i, j \in 1 .. Len(toCallee) + 1 : Idx(toCallee'[i].bytes) = Idx(toCallee'[j].bytes) => i = j
    <3>1. \A i, j \in 1 .. Len(toCallee) : Idx(toCallee[i].bytes) = Idx(toCallee[j].bytes) => i = j
      BY <1>0 DEF Apart
    <3> QED BY <1>16, <1>20, <1>21, <3>1
  <2>2. \A i \in 1 .. Len(toCallee) + 1, j \in 1 .. Len(toCaller) : Idx(toCallee'[i].bytes) # Idx(toCaller[j])
    <3>1. \A i \in 1 .. Len(toCallee), j \in 1 .. Len(toCaller) : Idx(toCallee[i].bytes) # Idx(toCaller[j])
      BY <1>0 DEF Apart
    <3> QED BY <1>16, <1>20, <1>22, <3>1
  <2> QED BY <1>0, <1>2, <1>16, <2>1, <2>2 DEF Apart
<1>25. HandledApart(pc', backBuf', toCallee', toCaller')
  BY <1>0, <1>2, <1>16, <1>20, <1>23 DEF HandledApart
<1> QED BY <1>0, <1>2, <1>13, <1>14, <1>17, <1>18, <1>19, <1>24, <1>25 DEF PackInv

\* The first call leaves the line.
LEMMA CallLeaves ==
  ASSUME NEW calls, NEW resp, CallsCarried(calls, resp), calls # <<>>
  PROVE  /\ CallsCarried(Tail(calls), resp) /\ Len(Tail(calls)) = Len(calls) - 1
         /\ \A i \in 1 .. Len(Tail(calls)) : i + 1 \in 1 .. Len(calls) /\ Tail(calls)[i] = calls[i + 1]
         /\ 1 \in 1 .. Len(calls) /\ Head(calls) = calls[1]
         /\ calls[1].bytes \in Seq(Nat) /\ calls[1].items \in Seq(Items)
<1> DEFINE C == [bytes : Seq(Nat), items : Seq(Items)]
<1>1. calls \in Seq(C) /\ \A i \in 1 .. Len(calls) :
         \E x \in resp : x.items = calls[i].items /\ Carries(calls[i].bytes, x)
  BY DEF CallsCarried
<1> HIDE DEF C
<1>2. /\ Tail(calls) \in Seq(C) /\ Len(Tail(calls)) = Len(calls) - 1
      /\ \A i \in 1 .. Len(Tail(calls)) : Tail(calls)[i] = calls[i + 1]
  BY <1>1, HeadTailProperties
<1>3. Len(calls) \in Nat \ {0}
  BY <1>1, EmptySeq
<1>4. \A i \in 1 .. Len(Tail(calls)) : i + 1 \in 1 .. Len(calls)
  BY <1>2, <1>3
<1>5. 1 \in 1 .. Len(calls) /\ Head(calls) = calls[1]
  BY <1>1, <1>3
<1>6. calls[1] \in C
  BY <1>1, <1>5
<1>7. CallsCarried(Tail(calls), resp)
  BY <1>1, <1>2, <1>4 DEF CallsCarried, C
<1> QED BY <1>2, <1>4, <1>5, <1>6, <1>7 DEF C

LEMMA HandlePackInv ==
  ASSUME PackInv, HandlePack
  PROVE  PackInv'
<1> DEFINE c == toCallee[1]
           p == PackOf(c.bytes)
           t == Tail(toCallee)
<1>0. /\ Numbered(response, autoIdx) /\ NoCall(sendBuf) /\ sendBuf.w = HeaderSize
      /\ CallsCarried(toCallee, response) /\ AnswersCarried(toCaller, response)
      /\ Handling(pc, backBuf, answer, response) /\ Apart(toCallee, toCaller)
      /\ HandledApart(pc, backBuf, toCallee, toCaller) /\ wrong = FALSE
  BY DEF PackInv
<1>1. /\ CallsCarried(t, response) /\ Len(t) = Len(toCallee) - 1
      /\ \A i \in 1 .. Len(t) : i + 1 \in 1 .. Len(toCallee) /\ t[i] = toCallee[i + 1]
      /\ 1 \in 1 .. Len(toCallee) /\ Head(toCallee) = c
      /\ c.bytes \in Seq(Nat) /\ c.items \in Seq(Items)
  BY <1>0, CallLeaves DEF HandlePack
<1> DEFINE y == ReadItems(p, c.items)
           ans == [i \in 1 .. Len(c.items) |-> [c.items[i] EXCEPT !.v = y.vs[i]]]
<1>2. /\ toCallee' = t /\ pc' = "read" /\ backBuf' = ResetHead(backBuf, p) /\ answer' = ans
      /\ sendBuf' = sendBuf /\ autoIdx' = autoIdx /\ response' = response /\ toCaller' = toCaller
      /\ wrong' = wrong
  BY <1>1 DEF HandlePack
<1> HIDE DEF c, t
<1>3. PICK x \in response : x.items = c.items /\ Carries(c.bytes, x)
  BY <1>0, <1>1 DEF CallsCarried, c
<1>4. p \in PackStates /\ p.store = c.bytes /\ p.r = HeaderSize /\ p.w = Len(c.bytes)
  BY <1>1, PackOfIs
<1>5. p = [store |-> c.bytes, r |-> HeaderSize, w |-> Len(c.bytes)]
  BY <1>4 DEF PackStates
<1> HIDE DEF p
<1>6. ans = c.items
  <2>1. HoldsItems(p.store, c.items, Len(c.items), p.r)
    BY <1>3, <1>4 DEF Carries
  <2>2. y.vs = Values(c.items)
    BY <1>1, <1>4, <2>1, ReadItemsIs
  <2> HIDE DEF y
  <2> DEFINE its == c.items
  <2>3. its \in Seq(Items)
    BY <1>1
  <2>4. \A i \in 1 .. Len(its) : y.vs[i] = its[i].v
    BY <2>2 DEF Values
  <2>5. ans = [i \in 1 .. Len(its) |-> [its[i] EXCEPT !.v = y.vs[i]]]
    OBVIOUS
  <2> HIDE DEF its
  <2>6. \A i \in 1 .. Len(its) : its[i] \in Items
    BY <2>3
  <2>7. \A z \in Items : [z EXCEPT !.v = z.v] = z
    BY DEF Items
  <2>8. \A i \in 1 .. Len(its) : [its[i] EXCEPT !.v = y.vs[i]] = its[i]
    BY <2>4, <2>6, <2>7
  <2>9. ans = [i \in 1 .. Len(its) |-> its[i]]
    BY <2>5, <2>8, Zenon
  <2>10. ans \in Seq(Items) /\ Len(ans) = Len(its) /\ \A i \in 1 .. Len(its) : ans[i] = its[i]
    BY <2>3, <2>6, <2>9
  <2>11. ans = its
    BY <2>3, <2>10, SeqEqual
  <2> QED BY <2>11 DEF its
<1>7. /\ backBuf' \in PackStates /\ backBuf'.w = HeaderSize /\ HeadOf(backBuf'.store, x.key)
  <2>1. backBuf \in PackStates /\ HeadOf(c.bytes, x.key)
    BY <1>0, <1>3 DEF Handling, Carries
  <2> DEFINE o == [store |-> c.bytes, r |-> HeaderSize, w |-> Len(c.bytes)]
             q == ResetHead(backBuf, o)
  <2>2. q \in PackStates /\ q.w = HeaderSize /\ HeadOf(q.store, x.key)
    BY <1>1, <2>1, ResetHeadIs
  <2> HIDE DEF q
  <2>3. backBuf' = q
    BY <1>2, <1>5 DEF q
  <2> QED BY <2>2, <2>3
<1>8. Handling(pc', backBuf', answer', response')
  BY <1>2, <1>3, <1>6, <1>7 DEF Handling
<1>9. Apart(toCallee', toCaller')
  <2>1. \A i, j \in 1 .. Len(t) : Idx(t[i].bytes) = Idx(t[j].bytes) => i = j
    <3> TAKE i, j \in 1 .. Len(t)
    <3> SUFFICES ASSUME Idx(t[i].bytes) = Idx(t[j].bytes) PROVE i = j
      OBVIOUS
    <3>1. /\ i + 1 \in 1 .. Len(toCallee) /\ t[i] = toCallee[i + 1]
          /\ j + 1 \in 1 .. Len(toCallee) /\ t[j] = toCallee[j + 1]
      BY <1>1
    <3>2. \A k, l \in 1 .. Len(toCallee) :
            Idx(toCallee[k].bytes) = Idx(toCallee[l].bytes) => k = l
      BY <1>0 DEF Apart
    <3>3. i + 1 = j + 1
      BY <3>1, <3>2, Zenon
    <3> QED BY <3>3
  <2> QED BY SMTT(30), <1>0, <1>1, <1>2, <2>1 DEF Apart
<1>10. HandledApart(pc', backBuf', toCallee', toCaller')
  <2>1. Idx(backBuf'.store) = Idx(c.bytes)
    <3>1. Idx(backBuf'.store) = x.key[2]
      BY <1>0, <1>7, IdxOf
    <3>2. Idx(c.bytes) = x.key[2]
      BY <1>0, <1>3, IdxOf DEF Carries
    <3> QED BY <3>1, <3>2
  <2>2. \A i \in 1 .. Len(t) : Idx(t[i].bytes) # Idx(c.bytes)
    <3> TAKE i \in 1 .. Len(t)
    <3>1. i + 1 \in 1 .. Len(toCallee) /\ t[i] = toCallee[i + 1] /\ i + 1 # 1
      BY <1>1
    <3> QED BY <1>0, <1>1, <3>1 DEF Apart, c
  <2>3. \A j \in 1 .. Len(toCaller) : Idx(toCaller[j]) # Idx(c.bytes)
    BY <1>0, <1>1 DEF Apart, c
  <2> QED BY <1>2, <2>1, <2>2, <2>3 DEF HandledApart
<1> QED BY <1>0, <1>1, <1>2, <1>8, <1>9, <1>10 DEF PackInv

LEMMA HandlerWritesInv ==
  ASSUME PackInv, HandlerWrites
  PROVE  PackInv'
<1> DEFINE q == WriteItems(backBuf, answer)
<1>0. /\ Numbered(response, autoIdx) /\ Handling(pc, backBuf, answer, response)
      /\ HandledApart(pc, backBuf, toCallee, toCaller)
  BY DEF PackInv
<1>1. /\ pc = "read" /\ pc' = "written" /\ backBuf' = q /\ UNCHANGED <<toCallee, toCaller, response, answer>>
      /\ UNCHANGED <<sendBuf, autoIdx, wrong>>
  BY DEF HandlerWrites
<1>2. PICK x \in response : x.items = answer /\ HeadOf(backBuf.store, x.key) /\ backBuf.w = HeaderSize
  BY <1>0, <1>1 DEF Handling
<1>3. backBuf \in PackStates /\ backBuf.store \in Seq(Nat) /\ Len(backBuf.store) = HeaderSize
  BY <1>0, <1>2 DEF Handling, PackStates
<1>4. answer \in Seq(Items)
  BY <1>0, <1>2 DEF Numbered
<1>5. /\ q \in PackStates /\ Len(backBuf.store) <= Len(q.store)
      /\ \A i \in 1 .. Len(backBuf.store) : q.store[i] = backBuf.store[i]
      /\ HoldsItems(q.store, answer, Len(answer), Len(backBuf.store))
  BY <1>3, <1>4, WriteItemsHolds
<1> HIDE DEF q
<1>6. q.store \in Seq(Nat)
  BY <1>5 DEF PackStates
<1>7. HeadOf(q.store, x.key)
  BY <1>2, <1>3, <1>5, <1>6, HeadStays
<1>8. Carries(q.store, x)
  BY <1>2, <1>3, <1>5, <1>7 DEF Carries
<1>9. Handling(pc', backBuf', answer', response')
  BY <1>1, <1>2, <1>5, <1>8 DEF Handling
<1>10. HandledApart(pc', backBuf', toCallee', toCaller')
  <2>1. Idx(q.store) = Idx(backBuf.store)
    BY <1>0, <1>2, <1>7, IdxOf
  <2> QED BY <1>0, <1>1, <2>1 DEF HandledApart
<1> QED BY <1>1, <1>9, <1>10 DEF PackInv

\* An answer goes on its way, or there is none, and the next one begins with no call.
LEMMA SendBackInv ==
  ASSUME PackInv, pc \in {"read", "written"}, SendBackBuffer, pc' \in {"idle", "early"},
         UNCHANGED <<sendBuf, autoIdx, response, toCallee, wrong>>
  PROVE  PackInv'
<1> DEFINE b == backBuf.store
<1>0. /\ Numbered(response, autoIdx) /\ NoCall(sendBuf) /\ sendBuf.w = HeaderSize
      /\ CallsCarried(toCallee, response) /\ AnswersCarried(toCaller, response)
      /\ Handling(pc, backBuf, answer, response) /\ Apart(toCallee, toCaller)
      /\ HandledApart(pc, backBuf, toCallee, toCaller) /\ wrong = FALSE
  BY DEF PackInv
<1>1. backBuf \in PackStates /\ b \in Seq(Nat) /\ backBuf.w \in Nat
  BY <1>0 DEF Handling, PackStates
<1>2. Handling(pc', backBuf', answer', response') /\ HandledApart(pc', backBuf', toCallee', toCaller')
  <2>1. NoCall(backBuf')
    BY <1>1, ClearPackIs DEF SendBackBuffer
  <2> QED BY <2>1 DEF Handling, HandledApart, NoCall
<1>3. CASE toCaller' = toCaller
  BY <1>0, <1>2, <1>3 DEF PackInv
<1>4. CASE toCaller' # toCaller
  <2>1. toCaller' = Append(toCaller, b) /\ BodySize(backBuf) > 0
    BY <1>4 DEF SendBackBuffer
  <2>2. pc = "written"
    <3> SUFFICES ASSUME pc = "read" PROVE FALSE
      OBVIOUS
    <3>1. backBuf.w = HeaderSize
      BY <1>0 DEF Handling
    <3> QED BY <1>1, <2>1, <3>1 DEF BodySize
  <2>3. PICK x \in response : Carries(b, x)
    BY <1>0, <2>2 DEF Handling
  <2> HIDE DEF b
  <2>4. /\ toCaller \in Seq(Seq(Nat)) /\ Len(toCaller) \in Nat
        /\ toCaller' \in Seq(Seq(Nat)) /\ Len(toCaller') = Len(toCaller) + 1
        /\ \A i \in 1 .. Len(toCaller) : toCaller'[i] = toCaller[i]
        /\ toCaller'[Len(toCaller) + 1] = b
        /\ \A i \in 1 .. Len(toCaller) + 1 : i \in 1 .. Len(toCaller) \/ i = Len(toCaller) + 1
    <3>1. toCaller \in Seq(Seq(Nat))
      BY <1>0 DEF AnswersCarried
    <3>2. \A i \in 1 .. Len(toCaller) + 1 : i \in 1 .. Len(toCaller) \/ i = Len(toCaller) + 1
      BY <3>1
    <3> QED BY <1>1, <2>1, <3>1, <3>2, AppendProperties
  <2>5. AnswersCarried(toCaller', response')
    <3>1. \A i \in 1 .. Len(toCaller) : \E y \in response : Carries(toCaller'[i], y)
      BY <1>0, <2>4 DEF AnswersCarried
    <3> QED BY <2>3, <2>4, <3>1 DEF AnswersCarried
  <2>6. /\ \A i \in 1 .. Len(toCallee) : Idx(toCallee[i].bytes) # Idx(b)
        /\ \A j \in 1 .. Len(toCaller) : Idx(toCaller[j]) # Idx(b)
    BY <1>0, <2>2 DEF HandledApart, b
  <2>7. Apart(toCallee', toCaller')
    <3>1. \A i, j \in 1 .. Len(toCaller) + 1 : Idx(toCaller'[i]) = Idx(toCaller'[j]) => i = j
      <4>1. \A i, j \in 1 .. Len(toCaller) : Idx(toCaller[i]) = Idx(toCaller[j]) => i = j
        BY <1>0 DEF Apart
      <4> QED BY <2>4, <2>6, <4>1
    <3>2. \A i \in 1 .. Len(toCallee), j \in 1 .. Len(toCaller) + 1 : Idx(toCallee[i].bytes) # Idx(toCaller'[j])
      <4>1. \A i \in 1 .. Len(toCallee), j \in 1 .. Len(toCaller) : Idx(toCallee[i].bytes) # Idx(toCaller[j])
        BY <1>0 DEF Apart
      <4> QED BY <2>4, <2>6, <4>1
    <3> QED BY <1>0, <2>4, <3>1, <3>2 DEF Apart
  <2> QED BY <1>0, <1>2, <2>5, <2>7 DEF PackInv
<1> QED BY <1>3, <1>4

LEMMA HandlerWritesMoreInv ==
  ASSUME PackInv, HandlerWritesMore
  PROVE  PackInv'
<1> DEFINE item == [str |-> FALSE, n |-> 1, v |-> 1]
           q == WriteItem(backBuf, item)
           t == WrittenBytes(item)
<1>0. Handling(pc, backBuf, answer, response)
  BY DEF PackInv
<1>1. /\ pc = "early" /\ pc' = "more" /\ backBuf' = q
      /\ UNCHANGED <<sendBuf, autoIdx, response, toCallee, answer, toCaller, wrong>>
  BY DEF HandlerWritesMore
<1>2. backBuf \in PackStates /\ backBuf.w >= HeaderSize /\ OpCode(backBuf) = 0 /\ HeaderSize = 7
      /\ backBuf.store \in Seq(Nat) /\ backBuf.w = Len(backBuf.store)
  BY <1>0, <1>1 DEF Handling, NoCall, HeaderSize, PackStates
<1>3. item \in Items
  BY DEF Items
<1> HIDE DEF item
<1>4. q \in PackStates /\ q.store = backBuf.store \o t /\ t \in Seq(Nat)
  BY <1>2, <1>3, WriteItemIs, WrittenType
<1> HIDE DEF q, t
<1>5. Len(backBuf.store) \in Nat /\ Len(t) \in Nat /\ Len(backBuf.store) >= 7 /\ 2 \in 1 .. Len(backBuf.store) + Len(t)
      /\ 2 <= Len(backBuf.store)
  BY <1>2, <1>4
<1>6. Len(q.store) = Len(backBuf.store) + Len(t) /\ q.store[2] = backBuf.store[2]
  BY <1>2, <1>4, <1>5, ConcatProperties
<1>7. q.w >= HeaderSize
  BY <1>2, <1>4, <1>5, <1>6 DEF PackStates
<1>8. OpCode(q) = 0
  BY <1>2, <1>4, <1>6, <1>7, OpCodeIs
<1>9. Handling(pc', backBuf', answer', response')
  BY <1>1, <1>4, <1>7, <1>8 DEF Handling, NoCall
<1>10. HandledApart(pc', backBuf', toCallee', toCaller')
  BY <1>1 DEF HandledApart
<1> QED BY <1>1, <1>9, <1>10 DEF PackInv

LEMMA HandleReturnsInv ==
  ASSUME PackInv, HandleReturns
  PROVE  PackInv'
<1>0. Handling(pc, backBuf, answer, response)
  BY DEF PackInv
<1>1. /\ pc \in {"read", "written", "early", "more"} /\ pc' = "idle"
      /\ UNCHANGED <<sendBuf, autoIdx, response, toCallee, wrong>>
  BY DEF HandleReturns
<1>2. CASE OpCode(backBuf) = 0
  <2>1. UNCHANGED <<backBuf, toCaller>>
    BY <1>2 DEF HandleReturns
  <2>2. Handling(pc', backBuf', answer', response') /\ HandledApart(pc', backBuf', toCallee', toCaller')
    BY <1>0, <1>1, <2>1 DEF Handling, HandledApart
  <2> QED BY <1>1, <2>1, <2>2 DEF PackInv
<1>3. CASE OpCode(backBuf) # 0
  <2>1. SendBackBuffer
    BY <1>3 DEF HandleReturns
  <2>2. pc \in {"read", "written"}
    BY <1>0, <1>1, <1>3 DEF Handling, NoCall
  <2> QED BY <1>1, <2>1, <2>2, SendBackInv
<1> QED BY <1>2, <1>3

LEMMA AnsweredInv ==
  ASSUME PackInv, Answered
  PROVE  PackInv'
<1> DEFINE b == toCaller[1]
           p == PackOf(b)
           t == Tail(toCaller)
           found == {x \in response : x.key = GetReqKey(p)}
<1>0. /\ Numbered(response, autoIdx) /\ NoCall(sendBuf) /\ sendBuf.w = HeaderSize
      /\ CallsCarried(toCallee, response) /\ AnswersCarried(toCaller, response)
      /\ Handling(pc, backBuf, answer, response) /\ Apart(toCallee, toCaller)
      /\ HandledApart(pc, backBuf, toCallee, toCaller) /\ wrong = FALSE
  BY DEF PackInv
<1>1. /\ toCaller \in Seq(Seq(Nat)) /\ 1 \in 1 .. Len(toCaller) /\ Head(toCaller) = b /\ b \in Seq(Nat)
      /\ t \in Seq(Seq(Nat)) /\ Len(t) = Len(toCaller) - 1
      /\ \A i \in 1 .. Len(t) : i + 1 \in 1 .. Len(toCaller) /\ t[i] = toCaller[i + 1]
  <2>1. toCaller \in Seq(Seq(Nat)) /\ toCaller # <<>>
    BY <1>0 DEF AnswersCarried, Answered
  <2> DEFINE B == Seq(Nat)
  <2> HIDE DEF B
  <2>2. toCaller \in Seq(B)
    BY <2>1 DEF B
  <2>3. /\ t \in Seq(B) /\ Len(t) = Len(toCaller) - 1
        /\ \A i \in 1 .. Len(t) : t[i] = toCaller[i + 1]
    BY <2>1, <2>2, HeadTailProperties
  <2>4. Len(toCaller) \in Nat \ {0}
    BY <2>1, <2>2, EmptySeq
  <2>5. \A i \in 1 .. Len(t) : i + 1 \in 1 .. Len(toCaller)
    BY <2>3, <2>4
  <2>6. 1 \in 1 .. Len(toCaller) /\ Head(toCaller) = b
    BY <2>2, <2>4
  <2>7. b \in B
    BY <2>2, <2>6
  <2> QED BY <2>2, <2>3, <2>5, <2>6, <2>7 DEF B
<1>2. /\ toCaller' = t /\ response' = response \ found
      /\ wrong' = \/ wrong
                  \/ Cardinality(found) # 1
                  \/ \E x \in found : LET y == ReadItems(p, x.items)
                                      IN  y.vs # Values(x.items) \/ y.p.r # y.p.w
      /\ UNCHANGED <<sendBuf, autoIdx, toCallee, pc, answer, backBuf>>
  BY <1>1 DEF Answered
<1> HIDE DEF b, t
<1>3. PICK x \in response : Carries(b, x)
  BY <1>0, <1>1 DEF AnswersCarried, b
<1>4. HeadOf(b, x.key) /\ HoldsItems(b, x.items, Len(x.items), HeaderSize)
  BY <1>3 DEF Carries
<1>5. /\ Idx(b) = x.key[2] /\ x \in [key : OpCodes \X (1 .. autoIdx), items : Seq(Items)]
      /\ x.key = <<b[2] \div 8, b[4] \div 8>>
  <2>1. Numbered(response, autoIdx) /\ HeadOf(b, x.key)
    BY <1>0, <1>4
  <2>2. /\ Idx(b) = x.key[2] /\ Idx(b) \in 1 .. autoIdx /\ b[2] \div 8 = x.key[1]
        /\ x \in [key : OpCodes \X (1 .. autoIdx), items : Seq(Items)]
        /\ x.key = <<b[2] \div 8, b[4] \div 8>>
    BY ONLY <2>1, IdxOf, x \in response
  <2> QED BY <2>2
<1>6. p \in PackStates /\ p.store = b /\ p.r = HeaderSize /\ p.w = Len(b)
  BY <1>1, PackOfIs
<1> HIDE DEF p
<1>7. GetReqKey(p) = x.key
  <2>1. p.w >= HeaderSize
    BY <1>4, <1>6 DEF HeadOf
  <2> QED BY <1>5, <1>6, <2>1, OpCodeIs
<1>8. found = {x}
  <2>1. \A y \in response : y.key = x.key => y = x
    BY <1>0 DEF Numbered
  <2> QED BY <1>7, <2>1
<1>9. Cardinality(found) = 1
  BY <1>8, FS_Singleton
<1>10. LET y == ReadItems(p, x.items) IN y.vs = Values(x.items) /\ y.p.r = y.p.w
  <2>1. x.items \in Seq(Items)
    BY <1>5
  <2> QED BY <1>4, <1>6, <2>1, ReadItemsIs
<1> HIDE DEF found
<1>11. wrong' = FALSE
  BY <1>0, <1>2, <1>8, <1>9, <1>10
<1>12. response' = response \ {x} /\ response' \subseteq response
  BY <1>2, <1>8
<1>13. Numbered(response', autoIdx')
  BY <1>0, <1>2, <1>12 DEF Numbered
\* No pack that is left is of the call that was answered.
<1>14. ASSUME NEW y \in response, NEW c, HeadOf(c, y.key), Idx(c) # Idx(b) PROVE y \in response'
  <2>1. Idx(c) = y.key[2]
    BY <1>0, <1>14, IdxOf
  <2>2. y # x
    BY <1>5, <1>14, <2>1
  <2> QED BY <1>12, <2>2
<1>15. CallsCarried(toCallee', response')
  <2>1. \A i \in 1 .. Len(toCallee) : Idx(toCallee[i].bytes) # Idx(b)
    BY <1>0, <1>1 DEF Apart, b
  <2>2. ASSUME NEW i \in 1 .. Len(toCallee)
        PROVE  \E y \in response' : y.items = toCallee[i].items /\ Carries(toCallee[i].bytes, y)
    <3>1. PICK y \in response : y.items = toCallee[i].items /\ Carries(toCallee[i].bytes, y)
      BY <1>0 DEF CallsCarried
    <3>2. HeadOf(toCallee[i].bytes, y.key)
      BY <3>1 DEF Carries
    <3>3. y \in response'
      BY <1>14, <2>1, <3>2
    <3> QED BY <3>1, <3>3
  <2>3. toCallee \in Seq([bytes : Seq(Nat), items : Seq(Items)]) /\ toCallee' = toCallee
    BY <1>0, <1>2 DEF CallsCarried
  <2> QED BY <2>2, <2>3 DEF CallsCarried
<1>16. \A i \in 1 .. Len(t) : Idx(t[i]) # Idx(b)
  <2> TAKE i \in 1 .. Len(t)
  <2>1. i + 1 \in 1 .. Len(toCaller) /\ t[i] = toCaller[i + 1] /\ i + 1 # 1
    BY <1>1
  <2> QED BY <1>0, <1>1, <2>1 DEF Apart, b
<1>17. AnswersCarried(toCaller', response')
  <2>1. ASSUME NEW i \in 1 .. Len(t) PROVE \E y \in response' : Carries(t[i], y)
    <3>1. PICK y \in response : Carries(t[i], y)
      BY <1>0, <1>1 DEF AnswersCarried
    <3>2. HeadOf(t[i], y.key)
      BY <3>1 DEF Carries
    <3>3. y \in response'
      BY <1>14, <1>16, <3>2
    <3> QED BY <3>1, <3>3
  <2> QED BY <1>1, <1>2, <2>1 DEF AnswersCarried
<1>18. Handling(pc', backBuf', answer', response')
  <2>1. pc \in {"read", "written"} => Idx(backBuf.store) # Idx(b)
    BY <1>0, <1>1 DEF HandledApart, b
  <2>2. pc = "read" => \E y \in response' : y.items = answer /\ HeadOf(backBuf.store, y.key) /\ backBuf.w = HeaderSize
    BY <1>0, <1>14, <2>1 DEF Handling
  <2>3. pc = "written" => \E y \in response' : y.items = answer /\ Carries(backBuf.store, y)
    BY <1>0, <1>14, <2>1 DEF Handling, Carries
  <2> QED BY <1>0, <1>2, <2>2, <2>3 DEF Handling
<1>19. Apart(toCallee', toCaller')
  <2>1. \A i \in 1 .. Len(t) : i + 1 \in 1 .. Len(toCaller) /\ t[i] = toCaller[i + 1]
    BY <1>1
  <2>2. \A i, j \in 1 .. Len(toCaller) : Idx(toCaller[i]) = Idx(toCaller[j]) => i = j
    BY <1>0 DEF Apart
  <2>3. \A i, j \in 1 .. Len(t) : Idx(t[i]) = Idx(t[j]) => i = j
    <3> TAKE i, j \in 1 .. Len(t)
    <3> SUFFICES ASSUME Idx(t[i]) = Idx(t[j]) PROVE i = j
      OBVIOUS
    <3>1. i + 1 = j + 1
      BY <2>1, <2>2
    <3> QED BY <3>1
  <2>4. /\ \A i, j \in 1 .. Len(toCallee) : Idx(toCallee[i].bytes) = Idx(toCallee[j].bytes) => i = j
        /\ \A i \in 1 .. Len(toCallee), j \in 1 .. Len(toCaller) : Idx(toCallee[i].bytes) # Idx(toCaller[j])
    BY <1>0 DEF Apart
  <2>5. \A i \in 1 .. Len(toCallee), j \in 1 .. Len(t) : Idx(toCallee[i].bytes) # Idx(t[j])
    BY <2>1, <2>4
  <2>6. toCaller' = t /\ toCallee' = toCallee
    BY <1>2
  <2> QED BY <2>3, <2>4, <2>5, <2>6 DEF Apart
<1>20. HandledApart(pc', backBuf', toCallee', toCaller')
  BY <1>0, <1>1, <1>2 DEF HandledApart
<1> QED BY <1>0, <1>2, <1>11, <1>13, <1>15, <1>17, <1>18, <1>19, <1>20 DEF PackInv

LEMMA PackStep == PackInv /\ [PackNext]_packVars => PackInv'
<1> SUFFICES ASSUME PackInv, [PackNext]_packVars PROVE PackInv'
  OBVIOUS
<1>1. ASSUME NEW op \in OpCodes, NEW items \in Bodies[op], CallPack(op, items) PROVE PackInv'
  BY <1>1, CallPackInv
<1>2. CASE HandlePack
  BY <1>2, HandlePackInv
<1>3. CASE HandlerWrites
  BY <1>3, HandlerWritesInv
<1>4. CASE HandlerAnswersEarly
  BY <1>4, SendBackInv DEF HandlerAnswersEarly
<1>5. CASE HandlerWritesMore
  BY <1>5, HandlerWritesMoreInv
<1>6. CASE HandleReturns
  BY <1>6, HandleReturnsInv
<1>7. CASE Answered
  BY <1>7, AnsweredInv
<1>8. CASE UNCHANGED packVars
  BY <1>8 DEF packVars, PackInv
<1> QED BY <1>1, <1>2, <1>3, <1>4, <1>5, <1>6, <1>7, <1>8 DEF PackNext

\* Packs on their way are those of calls that are registered, of one call each: the head and the
\* items of the call, in the bytes of each (RpcQueue::_CallRpc, RpcServer::_Handle).
THEOREM PackInvariant == PackSpec => []PackInv
<1>1. PackInit => PackInv
  BY PackInitInv
<1>2. PackInv /\ [PackNext]_packVars => PackInv'
  BY PackStep
<1> QED BY <1>1, <1>2, PTL DEF PackSpec

\* A callback gets what was written for it and no more (RpcQueue's m_SendBuffer, m_BackBuffer).
THEOREM PackAnswersMatch == PackSpec => []AnswersMatch
<1>1. PackInv => AnswersMatch
  BY DEF PackInv, AnswersMatch, NoCall
<1> QED BY <1>1, PackInvariant, PTL

-----------------------------------------------------------------------------
(* EventLink: a pass of the loop over packets                              *)

\* Where the frames of the messages end in their stream.
Ends(e, msgs) ==
  /\ e \in [0 .. Len(msgs) -> Nat] /\ e[0] = 0
  /\ \A k \in 1 .. Len(msgs) : e[k] = e[k - 1] + 2 + Len(msgs[k])

\* The bytes s are the frames behind the h-th, up to the t-th.
FramedIn(e, s, msgs, h, t) ==
  /\ h \in 0 .. t /\ t \in 0 .. Len(msgs) /\ s \in Seq(Nat) /\ Len(s) = e[t] - e[h]
  /\ \A k \in h + 1 .. t : \A i \in 1 .. Len(msgs[k]) + 2 : s[e[k - 1] - e[h] + i] = Framed(msgs[k])[i]

\* Messages as they are sent.
Sent(msgs) ==
  /\ msgs \in Seq(Seq(Nat))
  /\ \A k \in 1 .. Len(msgs) : \E size \in BodySizes : msgs[k] = Body(k, size)

LEMMA BodyType ==
  ASSUME NEW k \in Nat, NEW size \in BodySizes
  PROVE  /\ Body(k, size) \in Seq(Nat) /\ Len(Body(k, size)) = size /\ size \in 1 .. 255
         /\ size + 2 <= RecvSize /\ RecvSize \in Nat
         /\ \A i \in 1 .. size : Body(k, size)[i] = 256 * k + i
<1>1. size \in 1 .. 255 /\ size + 2 <= RecvSize /\ RecvSize \in Nat /\ size \in Nat
  BY EventLinkAssumption
<1>2. \A i \in 1 .. size : 256 * k + i \in Nat
  OBVIOUS
<1>3. Body(k, size) \in [1 .. size -> Nat]
  BY <1>2 DEF Body
<1> QED BY <1>1, <1>3 DEF Body

LEMMA FramedType ==
  ASSUME NEW body \in Seq(Nat)
  PROVE  /\ Framed(body) \in Seq(Nat) /\ Len(Framed(body)) = Len(body) + 2
         /\ Framed(body)[1] = Len(body) /\ Framed(body)[2] = 0
         /\ \A i \in 1 .. Len(body) : Framed(body)[2 + i] = body[i]
<1> DEFINE h == <<Len(body), 0>>
           s == h \o body
<1>1. h \in Seq(Nat) /\ Len(h) = 2 /\ h[1] = Len(body) /\ h[2] = 0 /\ Len(body) \in Nat
  OBVIOUS
<1> HIDE DEF h
<1>2. /\ s \in Seq(Nat) /\ Len(s) = Len(h) + Len(body)
      /\ \A i \in 1 .. Len(h) + Len(body) : s[i] = IF i <= Len(h) THEN h[i] ELSE body[i - Len(h)]
  BY <1>1, ConcatProperties
<1> HIDE DEF s
<1>3. 1 \in 1 .. Len(h) + Len(body) /\ 2 \in 1 .. Len(h) + Len(body) /\ 1 <= Len(h) /\ 2 <= Len(h)
      /\ Len(h) + Len(body) = Len(body) + 2
  BY <1>1
<1>4. \A i \in 1 .. Len(body) : 2 + i \in 1 .. Len(h) + Len(body) /\ ~ (2 + i <= Len(h)) /\ 2 + i - Len(h) = i
  BY <1>1
<1>5. Framed(body) = s
  BY DEF Framed, s, h
<1> QED BY <1>1, <1>2, <1>3, <1>4, <1>5

LEMMA EndsAt ==
  ASSUME NEW msgs, msgs \in Seq(Seq(Nat)), NEW e, Ends(e, msgs), NEW k \in 1 .. Len(msgs)
  PROVE  /\ e[k] \in Nat /\ e[k - 1] \in Nat /\ Len(msgs[k]) \in Nat /\ msgs[k] \in Seq(Nat)
         /\ e[k] = e[k - 1] + 2 + Len(msgs[k])
<1>1. k \in 0 .. Len(msgs) /\ k - 1 \in 0 .. Len(msgs)
  OBVIOUS
<1>2. msgs[k] \in Seq(Nat)
  OBVIOUS
<1>3. Len(msgs[k]) \in Nat
  BY <1>2
<1>4. e[k] \in Nat /\ e[k - 1] \in Nat
  BY <1>1 DEF Ends
<1>5. e[k] = e[k - 1] + 2 + Len(msgs[k])
  BY DEF Ends
<1> QED BY <1>2, <1>3, <1>4, <1>5

\* The ends are in order.
LEMMA EndsGrow ==
  ASSUME NEW msgs, msgs \in Seq(Seq(Nat)), NEW e, Ends(e, msgs), NEW a \in 0 .. Len(msgs), NEW b \in a .. Len(msgs)
  PROVE  e[a] \in Nat /\ e[b] \in Nat /\ e[a] <= e[b]
<1>1. /\ e \in [0 .. Len(msgs) -> Nat] /\ Len(msgs) \in Nat
      /\ \A k \in 1 .. Len(msgs) : e[k] = e[k - 1] + 2 + Len(msgs[k])
  BY DEF Ends
<1> DEFINE T == {k \in a .. Len(msgs) : e[k] < e[a]}
<1>2. T = {}
  <2> SUFFICES ASSUME T # {} PROVE FALSE
    OBVIOUS
  <2>1. T \in SUBSET Nat
    BY <1>1
  <2>2. PICK k \in T : \A y \in T : k <= y
    BY <2>1, Least
  <2>3. k \in a .. Len(msgs) /\ e[k] < e[a]
    BY <2>2
  <2>4. k # a /\ k \in Nat /\ a \in Nat /\ e[a] \in Nat
    <3>1. a \in Nat /\ k \in Nat /\ a \in 0 .. Len(msgs)
      BY <1>1, <2>3
    <3>2. e[a] \in Nat
      BY <1>1, <3>1
    <3>3. k # a
      BY <2>3, <3>2
    <3> QED BY <3>1, <3>2, <3>3
  <2>5. k \in 1 .. Len(msgs) /\ k - 1 \in a .. Len(msgs) /\ k - 1 < k /\ k - 1 \in 0 .. Len(msgs)
        /\ k \in 0 .. Len(msgs)
    BY <1>1, <2>3, <2>4
  <2>6. k - 1 \notin T
    BY <2>2, <2>4, <2>5
  <2>7. e[k - 1] \in Nat /\ e[k] \in Nat /\ Len(msgs[k]) \in Nat /\ e[k] = e[k - 1] + 2 + Len(msgs[k])
    BY <2>5, EndsAt
  <2>8. ~ (e[k - 1] < e[a])
    BY <2>5, <2>6
  <2> HIDE DEF T
  <2> QED BY SMTT(30), <2>3, <2>4, <2>7, <2>8
<1>3. a \in 0 .. Len(msgs) /\ b \in 0 .. Len(msgs)
  BY <1>1
<1>4. e[a] \in Nat /\ e[b] \in Nat
  BY <1>1, <1>3
<1>5. ~ (e[b] < e[a])
  BY <1>2
<1> QED BY <1>4, <1>5

\* What a stream that is not empty begins with: the next message, behind its length.
LEMMA FrameFirst ==
  ASSUME NEW msgs, msgs \in Seq(Seq(Nat)), NEW e, Ends(e, msgs), NEW s, NEW h, NEW t,
         FramedIn(e, s, msgs, h, t), Len(s) > 0
  PROVE  /\ h < t /\ h + 1 \in 1 .. Len(msgs) /\ h + 1 \in 0 .. t /\ msgs[h + 1] \in Seq(Nat)
         /\ s[1] = Len(msgs[h + 1]) /\ s[2] = 0 /\ Len(s) >= Len(msgs[h + 1]) + 2
         /\ \A i \in 1 .. Len(msgs[h + 1]) : s[2 + i] = msgs[h + 1][i]
         /\ e[h + 1] = e[h] + 2 + Len(msgs[h + 1]) /\ e[h] \in Nat
<1>1. /\ h \in 0 .. t /\ t \in 0 .. Len(msgs) /\ s \in Seq(Nat) /\ Len(s) = e[t] - e[h]
      /\ \A k \in h + 1 .. t : \A i \in 1 .. Len(msgs[k]) + 2 : s[e[k - 1] - e[h] + i] = Framed(msgs[k])[i]
  BY DEF FramedIn
<1>2. /\ e \in [0 .. Len(msgs) -> Nat] /\ Len(msgs) \in Nat
      /\ \A k \in 1 .. Len(msgs) : e[k] = e[k - 1] + 2 + Len(msgs[k])
  BY DEF Ends
<1>3. h \in Nat /\ t \in Nat /\ h <= t /\ t <= Len(msgs) /\ h \in 0 .. Len(msgs)
  BY <1>1, <1>2
<1>4. e[h] \in Nat /\ e[t] \in Nat
  BY <1>1, <1>2, <1>3
<1>5. h # t
  BY <1>1, <1>4
<1>6. h < t /\ h + 1 \in 1 .. Len(msgs) /\ h + 1 \in h + 1 .. t /\ h + 1 - 1 = h /\ h + 1 \in 0 .. t
      /\ h + 1 \in 0 .. Len(msgs) /\ t \in h + 1 .. Len(msgs)
  BY <1>2, <1>3, <1>5
<1> DEFINE m == msgs[h + 1]
<1>7. m \in Seq(Nat) /\ Len(m) \in Nat
  BY <1>6
<1>8. e[h + 1] = e[h] + 2 + Len(m) /\ e[h + 1] <= e[t] /\ e[h + 1] \in Nat
  <2>1. e[h + 1] <= e[t] /\ e[h + 1] \in Nat
    BY <1>6, EndsGrow
  <2> DEFINE k == h + 1
  <2>3. k \in 1 .. Len(msgs) /\ k - 1 = h
    <3>1. h \in Nat /\ h + 1 \in 1 .. Len(msgs)
      BY <1>3, <1>6
    <3>2. h + 1 - 1 = h
      BY ONLY <3>1
    <3> QED BY <3>1, <3>2
  <2> HIDE DEF k
  <2>2. e[k] = e[k - 1] + 2 + Len(msgs[k])
    BY <2>3, EndsAt
  <2>4. e[k] = e[h] + 2 + Len(msgs[k])
    BY <2>2, <2>3
  <2> HIDE DEF m
  <2> QED BY <2>1, <2>4 DEF k, m
<1>9. Len(s) >= Len(m) + 2
  <2> HIDE DEF m
  <2> QED BY SMTT(30), <1>1, <1>4, <1>7, <1>8
<1>10. \A i \in 1 .. Len(m) + 2 : s[i] = Framed(m)[i]
  <2> TAKE i \in 1 .. Len(m) + 2
  <2>1. s[e[h + 1 - 1] - e[h] + i] = Framed(m)[i]
    BY <1>1, <1>6
  <2>2. e[h + 1 - 1] - e[h] + i = i
    BY <1>4, <1>6, <1>7
  <2> QED BY <2>1, <2>2
<1> HIDE DEF m
<1>11. 1 \in 1 .. Len(m) + 2 /\ 2 \in 1 .. Len(m) + 2 /\ \A i \in 1 .. Len(m) : 2 + i \in 1 .. Len(m) + 2
  BY <1>7
<1>12. s[1] = Len(m) /\ s[2] = 0 /\ \A i \in 1 .. Len(m) : s[2 + i] = m[i]
  BY <1>7, <1>10, <1>11, FramedType
<1> QED BY <1>4, <1>6, <1>7, <1>8, <1>9, <1>12 DEF m

\* What is left of it behind that message.
LEMMA FrameNext ==
  ASSUME NEW msgs, msgs \in Seq(Seq(Nat)), NEW e, Ends(e, msgs), NEW s, NEW h, NEW t,
         FramedIn(e, s, msgs, h, t), Len(s) > 0, NEW z, z \in Seq(Nat), NEW n, n = Len(msgs[h + 1]) + 2,
         Len(z) = Len(s) - n, \A i \in 1 .. Len(z) : z[i] = s[n + i]
  PROVE  FramedIn(e, z, msgs, h + 1, t)
<1>1. /\ h \in 0 .. t /\ t \in 0 .. Len(msgs) /\ s \in Seq(Nat) /\ Len(s) = e[t] - e[h]
      /\ \A k \in h + 1 .. t : \A i \in 1 .. Len(msgs[k]) + 2 : s[e[k - 1] - e[h] + i] = Framed(msgs[k])[i]
  BY DEF FramedIn
<1>2. /\ h < t /\ h + 1 \in 1 .. Len(msgs) /\ h + 1 \in 0 .. t /\ msgs[h + 1] \in Seq(Nat)
      /\ e[h + 1] = e[h] + 2 + Len(msgs[h + 1]) /\ e[h] \in Nat
  BY FrameFirst
<1>3. n \in Nat /\ e[h + 1] = e[h] + n /\ e[t] \in Nat /\ h \in Nat /\ t \in Nat /\ Len(msgs) \in Nat
      /\ t <= Len(msgs)
  <2>1. e[t] \in Nat
    BY <1>1 DEF Ends
  <2>2. h \in Nat /\ t \in Nat /\ Len(msgs) \in Nat /\ t <= Len(msgs)
    BY <1>1
  <2> DEFINE L == Len(msgs[h + 1])
  <2>3. L \in Nat /\ n = L + 2 /\ e[h + 1] = e[h] + 2 + L /\ e[h] \in Nat
    BY <1>2
  <2> HIDE DEF L
  <2>4. n \in Nat /\ e[h + 1] = e[h] + n
    BY ONLY <2>3
  <2> QED BY <2>1, <2>2, <2>4
<1>4. Len(z) = e[t] - e[h + 1]
  <2>1. Len(s) = e[t] - e[h] /\ Len(z) = Len(s) - n /\ e[h] \in Nat
    BY <1>1, <1>2
  <2> QED BY ONLY <1>3, <2>1
<1>5. ASSUME NEW k \in h + 1 + 1 .. t, NEW i \in 1 .. Len(msgs[k]) + 2
      PROVE  z[e[k - 1] - e[h + 1] + i] = Framed(msgs[k])[i]
  <2>1. k \in h + 1 .. t /\ k \in 1 .. Len(msgs) /\ k - 1 \in h + 1 .. Len(msgs) /\ k - 1 \in 0 .. Len(msgs)
        /\ t \in k .. Len(msgs) /\ k \in 0 .. Len(msgs) /\ h + 1 \in 0 .. Len(msgs)
    <3>1. h \in Nat /\ t \in Nat /\ Len(msgs) \in Nat /\ t <= Len(msgs) /\ k \in h + 1 + 1 .. t
      BY <1>3
    <3> QED BY ONLY <3>1
  <2>2. e[h + 1] \in Nat /\ e[k - 1] \in Nat /\ e[h + 1] <= e[k - 1]
    BY <2>1, EndsGrow
  <2>3. e[k] <= e[t] /\ e[k] \in Nat
    BY <2>1, EndsGrow
  <2>4. e[k] = e[k - 1] + 2 + Len(msgs[k]) /\ Len(msgs[k]) \in Nat
    BY SMTT(30), <2>1 DEF Ends
  <2> DEFINE L == Len(msgs[k])
             a == e[k - 1]
             b == e[h + 1]
             j == a - b + i
  <2>5. j \in 1 .. Len(z)
    <3>1. a \in Nat /\ b \in Nat /\ b <= a /\ L \in Nat /\ a + 2 + L <= e[t] /\ Len(z) = e[t] - b
          /\ i \in 1 .. L + 2
      BY <1>4, <2>2, <2>3, <2>4
    <3> HIDE DEF a, b, L
    <3> QED BY ONLY SMTT(30), <1>3, <3>1
  <2>6. z[j] = s[n + j]
    BY <2>5
  <2>7. n + j = e[k - 1] - e[h] + i
    <3>1. a \in Nat /\ b = e[h] + n /\ e[h] \in Nat /\ i \in Int
      BY <1>2, <1>3, <2>2
    <3>3. n \in Nat
      BY <1>3
    <3> HIDE DEF a, b
    <3>2. n + j = a - e[h] + i
      BY ONLY SMTT(30), <3>1, <3>3
    <3> QED BY <3>2 DEF a
  <2>8. s[e[k - 1] - e[h] + i] = Framed(msgs[k])[i]
    BY <1>1, <2>1
  <2> QED BY <2>6, <2>7, <2>8
<1> QED BY <1>1, <1>2, <1>4, <1>5 DEF FramedIn

\* A message more is sent: its frame comes behind.
LEMMA FrameMore ==
  ASSUME NEW msgs, msgs \in Seq(Seq(Nat)), NEW e, Ends(e, msgs), NEW s, NEW h, NEW t,
         FramedIn(e, s, msgs, h, t), t < Len(msgs)
  PROVE  FramedIn(e, s \o Framed(msgs[t + 1]), msgs, h, t + 1)
<1>1. /\ h \in 0 .. t /\ t \in 0 .. Len(msgs) /\ s \in Seq(Nat) /\ Len(s) = e[t] - e[h]
      /\ \A k \in h + 1 .. t : \A i \in 1 .. Len(msgs[k]) + 2 : s[e[k - 1] - e[h] + i] = Framed(msgs[k])[i]
  BY DEF FramedIn
<1>2. /\ e \in [0 .. Len(msgs) -> Nat] /\ Len(msgs) \in Nat
      /\ \A k \in 1 .. Len(msgs) : e[k] = e[k - 1] + 2 + Len(msgs[k])
  BY DEF Ends
<1>3. t + 1 \in 1 .. Len(msgs) /\ t + 1 \in 0 .. Len(msgs) /\ h \in 0 .. Len(msgs) /\ h \in 0 .. t + 1 /\ t + 1 - 1 = t
      /\ h \in Nat /\ t \in Nat
  BY <1>1, <1>2
<1> DEFINE m == msgs[t + 1]
           f == Framed(m)
           u == s \o f
<1>4. m \in Seq(Nat) /\ Len(m) \in Nat
  BY <1>3
<1>5. f \in Seq(Nat) /\ Len(f) = Len(m) + 2
  BY <1>4, FramedType
<1>6. e[t + 1] = e[t] + 2 + Len(m) /\ e[t] \in Nat /\ e[h] \in Nat /\ e[t + 1] \in Nat
  <2>1. /\ e[t + 1] \in Nat /\ e[t + 1 - 1] \in Nat
        /\ e[t + 1] = e[t + 1 - 1] + 2 + Len(m)
    BY <1>3, EndsAt
  <2>2. e[t + 1 - 1] = e[t] /\ e[h] \in Nat
    BY <1>2, <1>3
  <2> HIDE DEF m
  <2> QED BY ONLY <2>1, <2>2
<1> HIDE DEF m, f
<1>7. /\ u \in Seq(Nat) /\ Len(u) = Len(s) + Len(f)
      /\ \A i \in 1 .. Len(s) + Len(f) : u[i] = IF i <= Len(s) THEN s[i] ELSE f[i - Len(s)]
  BY <1>1, <1>5, ConcatProperties
<1> HIDE DEF u
<1>8. Len(u) = e[t + 1] - e[h]
  <2>1. Len(s) = e[t] - e[h]
    BY <1>1
  <2>2. Len(u) = Len(s) + Len(f)
    BY <1>7
  <2>3. Len(f) = Len(m) + 2
    BY <1>5
  <2>4. Len(m) \in Nat
    BY <1>4
  <2>5. Len(u) = e[t] - e[h] + (Len(m) + 2)
    BY ONLY <2>1, <2>2, <2>3
  <2> QED BY ONLY <1>6, <2>4, <2>5
<1>9. ASSUME NEW k \in h + 1 .. t + 1, NEW i \in 1 .. Len(msgs[k]) + 2
      PROVE  u[e[k - 1] - e[h] + i] = Framed(msgs[k])[i]
  <2>1. CASE k = t + 1
    <3>1. i \in 1 .. Len(f) /\ e[k - 1] - e[h] = Len(s) /\ Len(s) \in Nat
      BY <1>1, <1>3, <1>5, <2>1 DEF m
    <3> DEFINE p == Len(s) + i
    <3>2. p \in 1 .. Len(s) + Len(f) /\ ~ (p <= Len(s)) /\ p - Len(s) = i
      BY <1>4, <1>5, <3>1
    <3>3. \A j \in 1 .. Len(s) + Len(f) : u[j] = IF j <= Len(s) THEN s[j] ELSE f[j - Len(s)]
      BY <1>7
    <3> HIDE DEF p
    <3>4. u[p] = IF p <= Len(s) THEN s[p] ELSE f[p - Len(s)]
      BY ONLY <3>2, <3>3, Zenon
    <3>5. u[p] = f[i]
      BY ONLY <3>2, <3>4, Zenon
    <3> QED BY <2>1, <3>1, <3>5 DEF f, m, p
  <2>2. CASE k # t + 1
    <3>1. k \in h + 1 .. t /\ k \in 1 .. Len(msgs) /\ k - 1 \in h .. Len(msgs) /\ k - 1 \in 0 .. Len(msgs)
          /\ t \in k .. Len(msgs) /\ k \in 0 .. Len(msgs)
      BY <1>2, <1>3, <2>2
    <3>2. e[h] <= e[k - 1] /\ e[k - 1] \in Nat
      BY <1>3, <3>1, EndsGrow
    <3>3. e[k] <= e[t] /\ e[k] \in Nat
      BY <3>1, EndsGrow
    <3>4. e[k] = e[k - 1] + 2 + Len(msgs[k]) /\ Len(msgs[k]) \in Nat
      BY <1>2, <3>1
    <3> DEFINE L == Len(msgs[k])
               a == e[k - 1]
               j == a - e[h] + i
    <3>5. j \in 1 .. Len(s)
      <4>1. a \in Nat /\ L \in Nat /\ e[h] <= a /\ a + 2 + L <= e[t] /\ i \in 1 .. L + 2
        BY <3>2, <3>3, <3>4
      <4> HIDE DEF a, L
      <4>2. Len(s) = e[t] - e[h]
        BY <1>1
      <4>3. e[t] \in Nat /\ e[h] \in Nat
        BY <1>6
      <4> QED BY ONLY SMTT(30), <4>1, <4>2, <4>3
    <3> HIDE DEF j
    <3>6. j \in 1 .. Len(s) + Len(f) /\ j <= Len(s)
      BY <1>1, <1>4, <1>5, <3>5
    <3>7. u[j] = s[j]
      BY <1>7, <3>6
    <3>8. s[e[k - 1] - e[h] + i] = Framed(msgs[k])[i]
      BY <1>1, <3>1
    <3> QED BY <3>7, <3>8 DEF j
  <2> QED BY <2>1, <2>2
<1> QED BY <1>3, <1>7, <1>8, <1>9 DEF FramedIn, u, f, m

\* The ends of one message more.
LEMMA EndsMore ==
  ASSUME NEW msgs, msgs \in Seq(Seq(Nat)), NEW e, Ends(e, msgs), NEW m, m \in Seq(Nat)
  PROVE  \E d : Ends(d, Append(msgs, m)) /\ \A k \in 0 .. Len(msgs) : d[k] = e[k]
<1> DEFINE n == Len(msgs)
           q == Append(msgs, m)
           d == [k \in 0 .. n + 1 |-> IF k = n + 1 THEN e[n] + 2 + Len(m) ELSE e[k]]
<1>1. /\ e \in [0 .. n -> Nat] /\ n \in Nat /\ e[0] = 0
      /\ \A k \in 1 .. n : e[k] = e[k - 1] + 2 + Len(msgs[k])
  BY DEF Ends
<1>2. /\ Len(q) = n + 1 /\ (\A k \in 1 .. n : q[k] = msgs[k]) /\ q[n + 1] = m
  BY AppendProperties
<1>3. e[n] \in Nat /\ Len(m) \in Nat /\ e[n] + 2 + Len(m) \in Nat
  <2>1. n \in 0 .. n /\ Len(m) \in Nat
    BY <1>1
  <2>2. e[n] \in Nat
    BY <1>1, <2>1
  <2> HIDE DEF n
  <2> QED BY ONLY <2>1, <2>2
<1>4. \A k \in 0 .. n + 1 : k # n + 1 => k \in 0 .. n
  BY <1>1
<1>5. d \in [0 .. n + 1 -> Nat] /\ \A k \in 0 .. n : d[k] = e[k]
  <2>1. \A k \in 0 .. n : k \in 0 .. n + 1 /\ k # n + 1
    BY <1>1
  <2> QED BY <1>1, <1>3, <1>4, <2>1
<1>6. d[n + 1] = e[n] + 2 + Len(m)
  BY <1>1
<1> HIDE DEF d, q
<1>7. d[0] = 0
  BY <1>1, <1>5
<1>8. \A k \in 1 .. n + 1 : d[k] = d[k - 1] + 2 + Len(q[k])
  <2> TAKE k \in 1 .. n + 1
  <2>1. CASE k = n + 1
    <3>1. k - 1 = n /\ n \in 0 .. n
      BY <1>1, <2>1
    <3> QED BY <1>2, <1>5, <1>6, <2>1, <3>1
  <2>2. CASE k # n + 1
    <3>1. k \in 1 .. n /\ k \in 0 .. n /\ k - 1 \in 0 .. n
      BY <1>1, <2>2
    <3> QED BY <1>1, <1>2, <1>5, <3>1
  <2> QED BY <2>1, <2>2
<1>9. Ends(d, q)
  BY <1>2, <1>5, <1>7, <1>8 DEF Ends
<1> QED BY <1>5, <1>9 DEF q

\* The stream of the messages before is not about one more.
LEMMA FrameOther ==
  ASSUME NEW msgs, msgs \in Seq(Seq(Nat)), NEW e, NEW d, NEW m, m \in Seq(Nat), NEW s, NEW h, NEW t,
         FramedIn(e, s, msgs, h, t), \A k \in 0 .. Len(msgs) : d[k] = e[k]
  PROVE  FramedIn(d, s, Append(msgs, m), h, t)
<1> DEFINE q == Append(msgs, m)
<1>1. /\ h \in 0 .. t /\ t \in 0 .. Len(msgs) /\ s \in Seq(Nat) /\ Len(s) = e[t] - e[h]
      /\ \A k \in h + 1 .. t : \A i \in 1 .. Len(msgs[k]) + 2 : s[e[k - 1] - e[h] + i] = Framed(msgs[k])[i]
  BY DEF FramedIn
<1>2. Len(q) = Len(msgs) + 1 /\ Len(msgs) \in Nat /\ \A k \in 1 .. Len(msgs) : q[k] = msgs[k]
  BY AppendProperties
<1> HIDE DEF q
<1>3. h \in 0 .. Len(msgs) /\ t \in 0 .. Len(q)
      /\ \A k \in h + 1 .. t : k - 1 \in 0 .. Len(msgs) /\ k \in 1 .. Len(msgs)
  BY <1>1, <1>2
<1>4. d[h] = e[h] /\ d[t] = e[t]
  BY <1>1, <1>3
<1>5. \A k \in h + 1 .. t : \A i \in 1 .. Len(q[k]) + 2 : s[d[k - 1] - d[h] + i] = Framed(q[k])[i]
  <2> TAKE k \in h + 1 .. t
  <2> TAKE i \in 1 .. Len(q[k]) + 2
  <2>1. q[k] = msgs[k] /\ d[k - 1] = e[k - 1]
    BY <1>2, <1>3
  <2> QED BY <1>1, <1>4, <2>1
<1>6. FramedIn(d, s, q, h, t)
  BY <1>1, <1>3, <1>4, <1>5 DEF FramedIn
<1> QED BY <1>6 DEF q

\* d is c without its first n bytes.
Drops(d, c, n) ==
  /\ d \in Seq(Nat) /\ Len(d) = Len(c) - n /\ \A i \in 1 .. Len(d) : d[i] = c[n + i]

\* What follows n bytes of the content, in the stream.
LEMMA DropConcat ==
  ASSUME NEW c, c \in Seq(Nat), NEW rest, rest \in Seq(Nat), NEW n \in Nat, n <= Len(c),
         NEW d, Drops(d, c, n)
  PROVE  Drops(d \o rest, c \o rest, n)
<1>a. d \in Seq(Nat) /\ Len(d) = Len(c) - n /\ \A i \in 1 .. Len(d) : d[i] = c[n + i]
  BY DEF Drops
<1> DEFINE s == c \o rest
           z == d \o rest
<1>0. Len(c) \in Nat /\ Len(rest) \in Nat /\ Len(d) \in Nat
  BY <1>a
<1>1. /\ s \in Seq(Nat) /\ Len(s) = Len(c) + Len(rest)
      /\ \A i \in 1 .. Len(c) + Len(rest) : s[i] = IF i <= Len(c) THEN c[i] ELSE rest[i - Len(c)]
  BY ConcatProperties
<1>2. /\ z \in Seq(Nat) /\ Len(z) = Len(d) + Len(rest)
      /\ \A i \in 1 .. Len(d) + Len(rest) : z[i] = IF i <= Len(d) THEN d[i] ELSE rest[i - Len(d)]
  BY <1>a, ConcatProperties
<1> HIDE DEF s, z
<1>3. Len(s) = Len(c) + Len(rest) /\ Len(z) = Len(d) + Len(rest) /\ Len(d) = Len(c) - n /\ n <= Len(c)
  BY <1>a, <1>1, <1>2
<1>4. Len(z) = Len(s) - n
  BY ONLY <1>0, <1>3, n \in Nat
<1>5. \A i \in 1 .. Len(z) : z[i] = s[n + i]
  <2> TAKE i \in 1 .. Len(z)
  <2>1. i \in Nat /\ i >= 1 /\ i <= Len(d) + Len(rest) /\ i \in 1 .. Len(d) + Len(rest)
    BY <1>0, <1>3
  <2>2. CASE i <= Len(d)
    <3>1. /\ n + i \in 1 .. Len(c) + Len(rest) /\ n + i <= Len(c) /\ i \in 1 .. Len(d)
      BY ONLY <1>0, <1>3, <2>1, <2>2, n \in Nat
    <3> QED BY <1>a, <1>1, <1>2, <2>1, <2>2, <3>1
  <2>3. CASE ~ (i <= Len(d))
    <3>1. /\ n + i \in 1 .. Len(c) + Len(rest) /\ ~ (n + i <= Len(c)) /\ n + i - Len(c) = i - Len(d)
      BY ONLY <1>0, <1>3, <2>1, <2>3, n \in Nat
    <3>2. s[n + i] = rest[n + i - Len(c)]
      BY ONLY <1>1, <3>1
    <3>3. z[i] = rest[i - Len(d)]
      BY ONLY <1>2, <2>1, <2>3
    <3> QED BY ONLY <3>1, <3>2, <3>3
  <2> QED BY <2>2, <2>3
<1>6. Drops(z, s, n)
  BY <1>2, <1>4, <1>5 DEF Drops
<1> QED BY <1>6 DEF s, z

\* readerMove over len of the bytes of the content.
LEMMA ReaderMoveDrops ==
  ASSUME NEW b, Buf(b), NEW len \in Nat, len >= 1, len <= Readable(b)
  PROVE  LET u == ReaderMove(b, len)
         IN  /\ Buf(u) /\ u.mem = b.mem /\ Readable(u) = Readable(b) - len
             /\ Len(Content(u)) = Len(Content(b)) - len
             /\ \A i \in 1 .. Len(Content(u)) : Content(u)[i] = Content(b)[len + i]
             /\ IF len < Readable(b) THEN u.r = b.r + len
                ELSE u.r = CheapPrepend /\ u.w = CheapPrepend
<1> DEFINE u == ReaderMove(b, len)
           c == Content(b)
           R == Readable(b)
<1>0. /\ b = [mem |-> b.mem, r |-> b.r, w |-> b.w] /\ b.r \in Nat /\ b.w \in Nat /\ b.r <= b.w
      /\ CheapPrepend \in Nat
  BY NetBufferAssumption DEF Buf
<1>1. c \in Seq(Nat) /\ Len(c) = b.w - b.r
  BY ContentType
<1>2. R = b.w - b.r /\ R \in Nat
  BY <1>0 DEF Readable
<1>3. /\ Buf(u) /\ Content(u) = IF len < Len(c) THEN SubSeq(c, len + 1, Len(c)) ELSE <<>>
  BY ReaderMoveKeeps
<1>4. CASE len < R
  <2>1. u = [mem |-> b.mem, r |-> b.r + len, w |-> b.w]
    BY <1>0, <1>4 DEF ReaderMove
  <2> DEFINE d == SubSeq(c, len + 1, Len(c))
  <2>2. Content(u) = d
    BY <1>1, <1>2, <1>3, <1>4
  <2>3. Readable(u) = R - len
    <3> HIDE DEF u
    <3>1. Readable(u) = b.w - (b.r + len)
      BY <2>1 DEF Readable
    <3> QED BY <1>0, <1>2, <3>1
  <2> HIDE DEF u, c
  <2>4. \A i \in len + 1 .. Len(c) : c[i] \in Nat
    BY <1>1
  <2>5. len + 1 \in Int /\ Len(c) \in Int
    BY <1>1
  <2>6. /\ Len(d) = IF len + 1 <= Len(c) THEN Len(c) - (len + 1) + 1 ELSE 0
        /\ \A i \in 1 .. Len(c) - (len + 1) + 1 : d[i] = c[len + 1 + i - 1]
    BY <2>4, <2>5, SubSeqProperties
  <2> HIDE DEF d
  <2>7. Len(c) = R /\ Len(c) \in Nat /\ len < Len(c)
    BY <1>1, <1>2, <1>4
  <2>8. Len(d) = Len(c) - len /\ Len(c) - (len + 1) + 1 = Len(c) - len
    BY <2>6, <2>7
  <2>9. \A i \in 1 .. Len(d) : d[i] = c[len + i]
    <3> TAKE i \in 1 .. Len(d)
    <3>1. len + 1 + i - 1 = len + i /\ i \in 1 .. Len(c) - (len + 1) + 1
      BY <2>7, <2>8
    <3> QED BY <2>6, <3>1
  <2>10. u.mem = b.mem /\ u.r = b.r + len
    BY <2>1
  <2> QED BY <1>3, <1>4, <2>2, <2>3, <2>8, <2>9, <2>10 DEF u, c
<1>5. CASE ~ (len < R)
  <2>1. u = [mem |-> b.mem, r |-> CheapPrepend, w |-> CheapPrepend]
    BY <1>0, <1>5 DEF ReaderMove
  <2>2. len = R /\ ~ (len < Len(c)) /\ Len(c) = len
    BY <1>1, <1>2, <1>5
  <2>3. Len(Content(u)) = 0
    BY <1>3, <2>2
  <2>4. u.mem = b.mem /\ u.r = CheapPrepend /\ u.w = CheapPrepend
    BY <2>1
  <2> HIDE DEF u, c
  <2>5. Readable(u) = R - len
    BY <1>0, <1>2, <2>2, <2>4 DEF Readable
  <2>6. Len(Content(u)) = Len(c) - len
    BY <2>2, <2>3
  <2> QED BY <1>3, <1>5, <2>3, <2>4, <2>5, <2>6 DEF u, c
<1> QED BY <1>4, <1>5

\* The bytes from p on that are those of m.
LEMMA BytesAre ==
  ASSUME NEW mem, NEW p \in Nat, NEW m, m \in Seq(Nat), \A i \in 1 .. Len(m) : mem[p + i] = m[i]
  PROVE  SubSeq(mem, p + 1, p + Len(m)) = m
<1> DEFINE l == Len(m)
           a == p + 1
           b == p + l
           body == SubSeq(mem, a, b)
<1>0. l \in Nat
  OBVIOUS
<1>1. \A i \in 1 .. l : mem[p + i] = m[i] /\ m[i] \in Nat
  OBVIOUS
<1> HIDE DEF l
<1>2. a \in Int /\ b \in Int /\ p \in Nat
  BY <1>0
<1>3. \A i \in a .. b : mem[i] \in Nat
  <2> TAKE i \in a .. b
  <2> DEFINE j == i - p
  <2>1. j \in 1 .. l /\ p + j = i
    BY ONLY <1>0, <1>2, i \in a .. b
  <2> HIDE DEF j
  <2> QED BY <1>1, <2>1
<1>4. (IF a <= b THEN b - a + 1 ELSE 0) = l /\ b - a + 1 = l
  BY <1>0
<1>5. \A i \in 1 .. l : a + i - 1 = p + i
  BY <1>0
<1> HIDE DEF a, b
<1>6. /\ body \in Seq(Nat) /\ Len(body) = IF a <= b THEN b - a + 1 ELSE 0
      /\ \A i \in 1 .. b - a + 1 : body[i] = mem[a + i - 1]
  BY ONLY <1>2, <1>3, SubSeqProperties
<1> HIDE DEF body
<1>7. Len(body) = l /\ \A i \in 1 .. l : body[i] = m[i]
  BY ONLY <1>1, <1>4, <1>5, <1>6
<1>8. body = m
  BY <1>6, <1>7, SeqEqual DEF l
<1> QED BY <1>8 DEF body, a, b, l

PassStates == [b : [mem : Seq(Nat), r : Nat, w : Nat], pPack : Nat, msgs : Seq(Seq(Nat))]

\* The loop of a read callback, which began behind the h-th of the messages: it has those that
\* it has read, the content and the rest are what follows them up to the t-th, and pPack is
\* where the next begins. Where the content ends with a message m, it is all of it.
Passed(x, e, msgs, rest, h, t, M, size) ==
  /\ x \in PassStates /\ Buf(x.b) /\ Len(x.b.mem) = size
  /\ h + Len(x.msgs) <= t /\ \A i \in 1 .. Len(x.msgs) : x.msgs[i] = msgs[h + i]
  /\ FramedIn(e, Content(x.b) \o rest, msgs, h + Len(x.msgs), t)
  /\ Readable(x.b) = 0 \/ x.pPack = x.b.r
  /\ \A m \in M : h + Len(x.msgs) <= m /\ Readable(x.b) = e[m] - e[h + Len(x.msgs)]
  /\ Readable(x.b) = 0 /\ Len(x.msgs) > 0 => x.b.r = CheapPrepend /\ x.b.w = CheapPrepend

\* Where the content may be known to end.
Marks(M, msgs) == M \subseteq Nat /\ \A m \in M : m <= Len(msgs)

\* How far the loop moves: by the packet, or by what is the only packet.
Moves(move, e, h, M) == move = 0 \/ (h + 1 \in M /\ move = e[h + 1] - e[h])

\* The loop over the stream of these messages, at x.
Loop(x, e, msgs, rest, h, t, M, size, move) ==
  /\ msgs \in Seq(Seq(Nat)) /\ Ends(e, msgs) /\ rest \in Seq(Nat) /\ h \in Nat
  /\ Marks(M, msgs) /\ Moves(move, e, h, M) /\ Passed(x, e, msgs, rest, h, t, M, size)

\* What the loop sees at pPack when there is something left.
LEMMA PassSees ==
  ASSUME NEW msgs, msgs \in Seq(Seq(Nat)), NEW e, Ends(e, msgs), NEW rest, rest \in Seq(Nat),
         NEW h \in Nat, NEW t, NEW M, NEW size, NEW x, Passed(x, e, msgs, rest, h, t, M, size),
         Readable(x.b) > 0
  PROVE  LET g == h + Len(x.msgs)
             l == Len(msgs[g + 1])
         IN  /\ g \in Nat /\ g < t /\ g + 1 \in 1 .. Len(msgs) /\ msgs[g + 1] \in Seq(Nat) /\ l \in Nat
             /\ e[g + 1] = e[g] + 2 + l /\ e[g] \in Nat
             /\ Readable(x.b) >= 2 => PackSize(x) = l
             /\ Readable(x.b) >= l + 2 =>
                  \A i \in 1 .. l : x.b.mem[x.pPack + 2 + i] = msgs[g + 1][i]
<1> DEFINE g == h + Len(x.msgs)
           l == Len(msgs[g + 1])
           c == Content(x.b)
           s == c \o rest
           R == Readable(x.b)
<1>1. /\ x \in PassStates /\ Buf(x.b) /\ FramedIn(e, s, msgs, g, t) /\ x.pPack = x.b.r
  BY DEF Passed
<1>2. x.msgs \in Seq(Seq(Nat)) /\ x.b.r \in Nat /\ x.b.w \in Nat /\ x.b.r <= x.b.w
  BY <1>1 DEF PassStates, Buf
<1>3. g \in Nat /\ R \in Nat /\ R = x.b.w - x.b.r
  <2>1. Len(x.msgs) \in Nat
    BY <1>2
  <2> QED BY ONLY <1>2, <2>1, h \in Nat DEF Readable
<1>4. /\ c \in Seq(Nat) /\ Len(c) = R /\ \A i \in 1 .. R : c[i] = x.b.mem[x.b.r + i]
  BY <1>1, <1>3, ContentType
<1> HIDE DEF c, R, g
<1>5. /\ Len(s) = Len(c) + Len(rest) /\ Len(rest) \in Nat
      /\ \A i \in 1 .. Len(c) + Len(rest) : s[i] = IF i <= Len(c) THEN c[i] ELSE rest[i - Len(c)]
  <2>1. rest \in Seq(Nat) /\ c \in Seq(Nat)
    BY <1>4
  <2> QED BY ONLY <2>1, ConcatProperties
<1>6. R > 0
  BY DEF R
<1> HIDE DEF s
<1>7. Len(s) > 0 /\ \A i \in 1 .. R : s[i] = x.b.mem[x.pPack + i]
  <2>1. Len(s) > 0
    BY <1>3, <1>4, <1>5, <1>6
  <2>2. \A i \in 1 .. R : i \in 1 .. Len(c) + Len(rest) /\ i <= Len(c)
    BY ONLY <1>3, <1>4, <1>5
  <2> QED BY <1>1, <1>4, <1>5, <2>1, <2>2
<1>8. /\ g < t /\ g + 1 \in 1 .. Len(msgs) /\ msgs[g + 1] \in Seq(Nat)
      /\ s[1] = Len(msgs[g + 1]) /\ s[2] = 0 /\ Len(s) >= Len(msgs[g + 1]) + 2
      /\ \A i \in 1 .. Len(msgs[g + 1]) : s[2 + i] = msgs[g + 1][i]
      /\ e[g + 1] = e[g] + 2 + Len(msgs[g + 1]) /\ e[g] \in Nat
  BY <1>1, <1>7, FrameFirst
<1>9. l \in Nat
  BY <1>8
<1>10. R >= 2 => PackSize(x) = l
  <2> SUFFICES ASSUME R >= 2 PROVE PackSize(x) = l
    OBVIOUS
  <2>1. 1 \in 1 .. R /\ 2 \in 1 .. R
    BY <1>3
  <2>2. x.b.mem[x.pPack + 1] = l /\ x.b.mem[x.pPack + 2] = 0
    BY <1>7, <1>8, <2>1
  <2> HIDE DEF l
  <2>3. PackSize(x) = l + 256 * 0
    BY ONLY <2>2 DEF PackSize
  <2> QED BY ONLY <1>9, <2>3
<1>11. R >= l + 2 => \A i \in 1 .. l : x.b.mem[x.pPack + 2 + i] = msgs[g + 1][i]
  <2> SUFFICES ASSUME R >= l + 2, NEW i \in 1 .. l PROVE x.b.mem[x.pPack + 2 + i] = msgs[g + 1][i]
    OBVIOUS
  <2>1. s[2 + i] = msgs[g + 1][i]
    BY <1>8
  <2> HIDE DEF l
  <2>2. 2 + i \in 1 .. R /\ x.pPack + 2 + i = x.pPack + (2 + i)
    <3>1. i \in 1 .. l /\ R >= l + 2 /\ x.pPack \in Nat
      BY <1>1, <1>2
    <3> QED BY ONLY <1>3, <1>9, <3>1
  <2> QED BY <1>7, <2>1, <2>2
<1> QED BY <1>3, <1>8, <1>9, <1>10, <1>11 DEF R, g

\* A pass of the loop: it takes the next message if all of it is there.
LEMMA PassKeeps ==
  ASSUME NEW msgs, NEW e, NEW rest, NEW h, NEW t, NEW M, NEW size, NEW x, NEW move,
         Loop(x, e, msgs, rest, h, t, M, size, move)
  PROVE  /\ Passed(OnePack(x, move), e, msgs, rest, h, t, M, size)
         /\ Readable(x.b) > 0 /\ M # {} => Len(OnePack(x, move).msgs) = Len(x.msgs) + 1
         /\ Readable(x.b) = 0 => OnePack(x, move) = x
<1> DEFINE g == h + Len(x.msgs)
           msg == msgs[g + 1]
           l == Len(msg)
           R == Readable(x.b)
           y == OnePack(x, move)
<1>a. /\ msgs \in Seq(Seq(Nat)) /\ Ends(e, msgs) /\ rest \in Seq(Nat) /\ h \in Nat
      /\ Marks(M, msgs) /\ Moves(move, e, h, M) /\ Passed(x, e, msgs, rest, h, t, M, size)
  BY DEF Loop
<1> USE <1>a
<1>1. /\ x \in PassStates /\ Buf(x.b) /\ Len(x.b.mem) = size
      /\ g <= t /\ \A i \in 1 .. Len(x.msgs) : x.msgs[i] = msgs[h + i]
      /\ FramedIn(e, Content(x.b) \o rest, msgs, g, t)
      /\ R = 0 \/ x.pPack = x.b.r
      /\ \A m \in M : g <= m /\ R = e[m] - e[g]
  BY DEF Passed
<1>2. x.msgs \in Seq(Seq(Nat)) /\ x.b.r \in Nat /\ x.b.w \in Nat /\ x.b.r <= x.b.w /\ x.pPack \in Nat
  BY <1>1 DEF PassStates, Buf
<1>3. g \in Nat /\ R \in Nat /\ Len(x.msgs) \in Nat /\ R = x.b.w - x.b.r
  <2>1. Len(x.msgs) \in Nat
    BY <1>2
  <2> QED BY ONLY <1>2, <2>1, h \in Nat DEF Readable
<1>4. CASE R = 0
  <2>1. y = x
    <3>1. Readable(x.b) < 2
      BY <1>4
    <3> QED BY <3>1 DEF OnePack
  <2> QED BY <1>4, <2>1
<1>5. CASE R > 0
  <2>1. /\ g < t /\ g + 1 \in 1 .. Len(msgs) /\ msg \in Seq(Nat) /\ l \in Nat
        /\ e[g + 1] = e[g] + 2 + l /\ e[g] \in Nat
        /\ R >= 2 => PackSize(x) = l
        /\ R >= l + 2 => \A i \in 1 .. l : x.b.mem[x.pPack + 2 + i] = msg[i]
    BY <1>5, PassSees
  <2> HIDE DEF R, msg, g
  <2>2. \A m \in M : g + 1 <= m /\ R >= l + 2
    <3> TAKE m \in M
    <3>1. m \in Nat /\ m <= Len(msgs) /\ g <= m /\ R = e[m] - e[g]
      BY <1>1 DEF Marks
    <3>2. m # g
      BY <1>5, <2>1, <3>1
    <3>3. m \in Nat /\ g < m /\ m \in g + 1 .. Len(msgs) /\ g + 1 \in 0 .. Len(msgs) /\ g + 1 <= m
      <4>1. m \in Nat /\ m <= Len(msgs) /\ g <= m /\ Len(msgs) \in Nat
        BY <3>1
      <4> QED BY ONLY <1>3, <3>2, <4>1
    <3>4. e[g + 1] \in Nat /\ e[m] \in Nat /\ e[g + 1] <= e[m]
      BY <3>3, EndsGrow
    <3>5. R = e[m] - e[g]
      BY <3>1
    <3>6. l \in Nat /\ e[g + 1] = e[g] + 2 + l /\ e[g] \in Nat
      BY <2>1
    <3> HIDE DEF l
    <3>7. R >= l + 2
      BY ONLY <3>4, <3>5, <3>6
    <3> QED BY <3>3, <3>7
  <2>0. \A n \in Nat : n <= R => Within(x, n)
    <3> TAKE n \in Nat
    <3> HAVE n <= R
    <3> DEFINE r == x.b.r
               w == x.b.w
               s == MemSize(x.b)
    <3>1. x.pPack = r
      BY <1>1, <1>5 DEF R
    <3>2. r \in Nat /\ w \in Nat /\ s \in Nat /\ w <= s
      BY <1>1, <1>2 DEF Buf, MemSize
    <3>3. R = w - r
      BY <1>3
    <3> HIDE DEF r, w, s
    <3>4. r + n <= s
      BY ONLY <3>2, <3>3, n \in Nat, n <= R
    <3> QED BY <3>1, <3>4 DEF Within, s
  <2> DEFINE Stop == R < 2 \/ ~Within(x, 2) \/ PackSize(x) + 2 > R \/ ~Within(x, PackSize(x) + 2)
  <2>3. CASE Stop
    <3>1. y = x
      BY <2>3 DEF OnePack, R
    <3>2. M = {}
      <4> SUFFICES ASSUME NEW m \in M PROVE FALSE
        OBVIOUS
      <4>1. R >= l + 2
        BY <2>2
      <4>2. l \in Nat
        BY <2>1
      <4> HIDE DEF l
      <4>3. R >= 2
        BY ONLY <1>3, <4>1, <4>2
      <4>4. PackSize(x) = l
        BY <2>1, <4>3
      <4>5. 2 \in Nat /\ l + 2 \in Nat /\ 2 <= R /\ l + 2 <= R /\ ~ (R < 2) /\ ~ (l + 2 > R)
        BY ONLY <1>3, <4>1, <4>2, <4>3
      <4>6. Within(x, 2) /\ Within(x, l + 2)
        BY <2>0, <4>5
      <4> QED BY ONLY <2>3, <4>4, <4>5, <4>6
    <3> QED BY <1>5, <3>1, <3>2 DEF R
  <2>4. CASE ~Stop
    <3>1. R >= 2 /\ PackSize(x) = l /\ R >= l + 2
      <4>1. R >= 2
        BY ONLY <1>3, <2>4
      <4>2. PackSize(x) = l /\ l \in Nat
        BY <2>1, <4>1
      <4> HIDE DEF l
      <4> QED BY ONLY <1>3, <2>4, <4>1, <4>2
    <3>2. (IF move = 0 THEN l + 2 ELSE move) = l + 2
      <4>1. CASE move = 0
        BY <4>1
      <4>2. CASE move # 0
        <5>1. h + 1 \in M /\ move = e[h + 1] - e[h]
          BY <4>2 DEF Moves
        <5>2. g + 1 <= h + 1
          BY <2>2, <5>1
        <5>3. g = h
          <6>1. g = h + Len(x.msgs)
            BY DEF g
          <6> QED BY ONLY <1>3, <5>2, <6>1, h \in Nat
        <5>4. move = e[g + 1] - e[g]
          BY <5>1, <5>3
        <5>5. l \in Nat /\ e[g + 1] = e[g] + 2 + l /\ e[g] \in Nat
          BY <2>1
        <5> HIDE DEF l
        <5>6. move = l + 2
          BY ONLY <5>4, <5>5
        <5> QED BY <4>2, <5>6
      <4> QED BY <4>1, <4>2
    <3> DEFINE b == x.b
               n == l + 2
               u == ReaderMove(b, n)
               body == SubSeq(b.mem, x.pPack + 3, x.pPack + 2 + l)
    <3>3. y = [b |-> u, pPack |-> x.pPack + l + 2, msgs |-> Append(x.msgs, body)]
      <4>1. ~ (\/ Readable(x.b) < 2 \/ ~Within(x, 2)
               \/ PackSize(x) + 2 > Readable(x.b) \/ ~Within(x, PackSize(x) + 2))
        BY <2>4 DEF R
      <4>2. y = [b |-> ReaderMove(b, IF move = 0 THEN l + 2 ELSE move),
                 pPack |-> x.pPack + l + 2, msgs |-> Append(x.msgs, body)]
        BY <3>1, <4>1 DEF OnePack
      <4> QED BY <3>2, <4>2
    <3>4. n \in Nat /\ n >= 1 /\ n <= Readable(b)
      <4>1. l \in Nat /\ l + 2 <= R
        BY <2>1, <3>1, <1>3
      <4> HIDE DEF l
      <4> QED BY ONLY <4>1 DEF R
    <3>5. /\ Buf(u) /\ u.mem = b.mem /\ Readable(u) = R - n
          /\ Len(Content(u)) = Len(Content(b)) - n
          /\ \A i \in 1 .. Len(Content(u)) : Content(u)[i] = Content(b)[n + i]
          /\ IF n < R THEN u.r = b.r + n ELSE u.r = CheapPrepend /\ u.w = CheapPrepend
      BY <1>1, <3>4, ReaderMoveDrops DEF R
    <3> HIDE DEF u
    <3>6. body = msg
      <4>1. \A i \in 1 .. l : b.mem[x.pPack + 2 + i] = msg[i]
        BY <2>1, <3>1
      <4>2. l \in Nat /\ msg \in Seq(Nat) /\ Len(msg) = l
        BY <2>1
      <4> DEFINE p == x.pPack + 2
      <4>3. p \in Nat /\ p + 1 = x.pPack + 3 /\ \A i \in 1 .. Len(msg) : b.mem[p + i] = msg[i]
        <5>1. x.pPack \in Nat
          BY <1>2
        <5>2. p \in Nat /\ p + 1 = x.pPack + 3
          BY ONLY <5>1
        <5>3. \A i \in 1 .. Len(msg) : b.mem[p + i] = msg[i]
          BY ONLY <4>1, <4>2, Zenon DEF p
        <5> QED BY ONLY <5>2, <5>3, Zenon
      <4>4. SubSeq(b.mem, p + 1, p + Len(msg)) = msg
        <5> HIDE DEF p
        <5>1. msg \in Seq(Nat) /\ p \in Nat /\ \A i \in 1 .. Len(msg) : b.mem[p + i] = msg[i]
          BY ONLY <4>2, <4>3, Zenon
        <5> QED BY ONLY <5>1, BytesAre, Zenon
      <4> QED BY <4>3, <4>4
    <3> HIDE DEF body
    <3> DEFINE q == Append(x.msgs, msg)
    <3>7. /\ q \in Seq(Seq(Nat)) /\ Len(q) = Len(x.msgs) + 1
          /\ (\A i \in 1 .. Len(x.msgs) : q[i] = x.msgs[i]) /\ q[Len(x.msgs) + 1] = msg
      BY SMTT(30), <1>2, <2>1, AppendProperties
    <3> HIDE DEF q
    <3>8. y = [b |-> u, pPack |-> x.pPack + l + 2, msgs |-> q]
      BY <3>3, <3>6 DEF q
    <3>9. y.b = u /\ y.pPack = x.pPack + n /\ y.msgs = q
      <4>1. x.pPack + l + 2 = x.pPack + n
        <5>1. l \in Nat /\ x.pPack \in Nat
          BY <1>2, <2>1
        <5> HIDE DEF l
        <5> QED BY ONLY <5>1
      <4> QED BY <3>8, <4>1
    <3>10. y \in PassStates
      <4>1. u \in [mem : Seq(Nat), r : Nat, w : Nat]
        BY <3>5 DEF Buf
      <4>2. x.pPack + l + 2 \in Nat
        <5>1. l \in Nat /\ x.pPack \in Nat
          BY <1>2, <2>1
        <5> HIDE DEF l
        <5> QED BY ONLY <5>1
      <4> QED BY <3>7, <3>8, <4>1, <4>2 DEF PassStates
    <3> HIDE DEF y
    <3> DEFINE gg == h + Len(y.msgs)
    <3>11. gg = g + 1 /\ Len(y.msgs) = Len(x.msgs) + 1
      <4>1. Len(y.msgs) = Len(x.msgs) + 1
        BY <3>7, <3>9
      <4>2. h + (Len(x.msgs) + 1) = h + Len(x.msgs) + 1
        BY ONLY <1>3, h \in Nat
      <4> QED BY <4>1, <4>2 DEF g
    <3>12. FramedIn(e, Content(u) \o rest, msgs, g + 1, t)
      <4> DEFINE c == Content(b)
                 d == Content(u)
                 s == c \o rest
                 z == d \o rest
      <4>1. c \in Seq(Nat) /\ Len(c) = R /\ d \in Seq(Nat) /\ Len(d) = Len(c) - n
            /\ \A i \in 1 .. Len(d) : d[i] = c[n + i]
        BY <1>1, <1>3, <3>5, ContentType
      <4> HIDE DEF c, d
      <4>2. n <= Len(c)
        BY <3>4, <4>1 DEF R
      <4> HIDE DEF n
      <4>3. /\ z \in Seq(Nat) /\ Len(z) = Len(s) - n /\ \A i \in 1 .. Len(z) : z[i] = s[n + i]
        <5>1. n \in Nat /\ rest \in Seq(Nat)
          BY <3>4
        <5>2. c \in Seq(Nat) /\ Drops(d, c, n)
          BY <4>1 DEF Drops
        <5>3. Drops(d \o rest, c \o rest, n)
          BY ONLY <4>2, <5>1, <5>2, DropConcat
        <5> QED BY ONLY <5>3 DEF Drops
      <4>4. Len(s) > 0
        <5>1. Len(s) = Len(c) + Len(rest) /\ Len(rest) \in Nat
          <6>1. c \in Seq(Nat) /\ rest \in Seq(Nat)
            BY <4>1
          <6> QED BY ONLY <6>1, ConcatProperties
        <5>2. Len(c) = R
          BY <4>1
        <5> QED BY ONLY <1>3, <1>5, <5>1, <5>2
      <4>5. FramedIn(e, s, msgs, g, t)
        BY <1>1 DEF c
      <4> HIDE DEF s, z
      <4>6. FramedIn(e, z, msgs, g + 1, t)
        <5>1. n = Len(msgs[g + 1]) + 2
          BY DEF n, msg
        <5>2. msgs \in Seq(Seq(Nat)) /\ Ends(e, msgs)
          OBVIOUS
        <5> QED BY ONLY <4>3, <4>4, <4>5, <5>1, <5>2, FrameNext
      <4> QED BY <4>6 DEF z, d
    <3>13. Readable(u) = 0 \/ y.pPack = u.r
      <4>1. CASE n < R
        <5>1. u.r = b.r + n /\ x.pPack = b.r
          BY <1>1, <1>5, <3>5, <4>1 DEF R
        <5> QED BY <3>9, <5>1
      <4>2. CASE ~ (n < R)
        <5>1. n \in Nat /\ n <= R /\ Readable(u) = R - n
          BY <3>4, <3>5 DEF R
        <5> HIDE DEF n
        <5> QED BY ONLY <1>3, <4>2, <5>1
      <4> QED BY <4>1, <4>2
    <3>14. Readable(u) = 0 => u.r = CheapPrepend /\ u.w = CheapPrepend
      <4> SUFFICES ASSUME Readable(u) = 0 PROVE u.r = CheapPrepend /\ u.w = CheapPrepend
        OBVIOUS
      <4>1. ~ (n < R)
        <5>1. n \in Nat /\ Readable(u) = 0 /\ Readable(u) = R - n
          BY <3>4, <3>5
        <5> HIDE DEF n
        <5> QED BY ONLY <1>3, <5>1
      <4> QED BY <3>5, <4>1
    <3>15. \A m \in M : g + 1 <= m /\ Readable(u) = e[m] - e[g + 1]
      <4> TAKE m \in M
      <4>1. g + 1 <= m /\ R = e[m] - e[g]
        BY <1>1, <2>2
      <4>2. e[g + 1] = e[g] + n /\ e[g] \in Nat /\ n \in Nat
        <5>1. l \in Nat /\ e[g + 1] = e[g] + 2 + l /\ e[g] \in Nat
          BY <2>1
        <5> HIDE DEF l
        <5> QED BY ONLY <5>1
      <4>3. Readable(u) = R - n /\ e[m] \in Nat
        <5>1. m \in 0 .. Len(msgs)
          BY DEF Marks
        <5>2. e[m] \in Nat
          BY <5>1 DEF Ends
        <5> QED BY <3>5, <5>2
      <4> HIDE DEF n
      <4>4. Readable(u) = e[m] - e[g + 1]
        BY ONLY <4>1, <4>2, <4>3
      <4> QED BY <4>1, <4>4
    <3>16. g + 1 <= t
      <4>1. t \in Nat
        BY <1>1 DEF FramedIn
      <4>2. g < t
        BY <2>1
      <4> QED BY ONLY <1>3, <4>1, <4>2
    <3>17. \A i \in 1 .. Len(q) : q[i] = msgs[h + i]
      <4> TAKE i \in 1 .. Len(q)
      <4>1. i \in 1 .. Len(x.msgs) \/ i = Len(x.msgs) + 1
        BY <1>3, <3>7
      <4>2. h + (Len(x.msgs) + 1) = g + 1
        BY ONLY <1>3, h \in Nat DEF g
      <4>3. CASE i \in 1 .. Len(x.msgs)
        BY <1>1, <3>7, <4>3
      <4>4. CASE i = Len(x.msgs) + 1
        BY <3>7, <4>2, <4>4 DEF msg
      <4> QED BY <4>1, <4>3, <4>4
    <3> HIDE DEF gg
    <3>18. Passed(y, e, msgs, rest, h, t, M, size)
      <4>1. h + Len(y.msgs) = g + 1
        BY <3>11 DEF gg
      <4>2. Len(y.b.mem) = size
        BY <1>1, <3>5, <3>9
      <4> QED BY <3>5, <3>9, <3>10, <3>12, <3>13, <3>14, <3>15, <3>16, <3>17, <4>1, <4>2 DEF Passed
    <3> QED BY <1>5, <3>11, <3>18 DEF R, y
  <2> QED BY <2>3, <2>4
<1> QED BY <1>3, <1>4, <1>5

\* The loop: it keeps what a pass keeps, and leaves nothing of whole messages.
LEMMA PacksKeeps ==
  ASSUME NEW msgs, NEW e, NEW rest, NEW h, NEW t, NEW M, NEW size, NEW b, NEW pPack, NEW move,
         Loop([b |-> b, pPack |-> pPack, msgs |-> <<>>], e, msgs, rest, h, t, M, size, move),
         Len(msgs) <= MaxMsgs
  PROVE  LET x == Packs(b, pPack, move)
         IN  Passed(x, e, msgs, rest, h, t, M, size) /\ (M # {} => Readable(x.b) = 0)
<1> DEFINE N == MaxMsgs
           P(x) == Passed(x, e, msgs, rest, h, t, M, size)
           S == {x \in PassStates : P(x)}
           o == [b |-> b, pPack |-> pPack, msgs |-> <<>>]
           G == [x \in (1 .. N) \X S |-> OnePack(x[2], move)]
<1>a. /\ msgs \in Seq(Seq(Nat)) /\ Ends(e, msgs) /\ rest \in Seq(Nat) /\ h \in Nat
      /\ Marks(M, msgs) /\ Moves(move, e, h, M) /\ P(o)
  BY DEF Loop
<1> USE <1>a
<1>1. N \in Nat /\ (\A k \in 1 .. N : k - 1 \in 0 .. N /\ k \in 0 .. N) /\ Len(msgs) \in Nat
  BY EventLinkAssumption
<1>2. \A x : P(x) => x \in PassStates
  BY DEF Passed
<1>3. ASSUME NEW x, P(x)
      PROVE  /\ P(OnePack(x, move))
             /\ Readable(x.b) > 0 /\ M # {} => Len(OnePack(x, move).msgs) = Len(x.msgs) + 1
             /\ Readable(x.b) = 0 => OnePack(x, move) = x
  <2>1. Passed(x, e, msgs, rest, h, t, M, size)
    BY <1>3
  <2>2. /\ msgs \in Seq(Seq(Nat)) /\ Ends(e, msgs) /\ rest \in Seq(Nat) /\ h \in Nat
        /\ Marks(M, msgs) /\ Moves(move, e, h, M)
    OBVIOUS
  <2>3. Loop(x, e, msgs, rest, h, t, M, size, move)
    BY ONLY <2>1, <2>2 DEF Loop
  <2> QED BY ONLY <2>3, PassKeeps
<1>4. P(o)
  OBVIOUS
<1>5. ASSUME NEW x, P(x) PROVE Readable(x.b) \in Nat /\ Len(x.msgs) \in Nat
  <2>1. x \in PassStates /\ Buf(x.b)
    BY <1>5 DEF Passed
  <2>2. x.b.r \in Nat /\ x.b.w \in Nat /\ x.b.r <= x.b.w /\ x.msgs \in Seq(Seq(Nat))
    BY <2>1 DEF PassStates, Buf
  <2>3. Len(x.msgs) \in Nat
    BY <2>2
  <2> QED BY ONLY <2>2, <2>3 DEF Readable
<1> HIDE DEF P
<1>6. o \in S /\ \A x \in S : P(x) /\ OnePack(x, move) \in S
  BY <1>2, <1>3, <1>4
<1>7. \A x : x \in S <=> P(x)
  BY <1>2
<1> HIDE DEF S
<1>8. G \in [(1 .. N) \X S -> S]
  BY <1>6
<1> HIDE DEF G, N, o
<1>9. PICK f : Runs(f, N, S, o, G)
  BY ONLY <1>1, <1>6, <1>8, Passes
<1>10. f \in [0 .. N -> S] /\ f[0] = o /\ \A k \in 1 .. N : f[k] = OnePack(f[k - 1], move)
  BY <1>1, <1>9 DEF Runs, G
<1>11. f = [k \in 0 .. N |-> IF k = 0 THEN o ELSE OnePack(f[k - 1], move)]
  BY <1>1, <1>10
<1> DEFINE u == CHOOSE g : g = [k \in 0 .. N |-> IF k = 0 THEN o ELSE OnePack(g[k - 1], move)]
<1>12. u = [k \in 0 .. N |-> IF k = 0 THEN o ELSE OnePack(u[k - 1], move)]
  BY <1>11
<1>13. Packs(b, pPack, move) = u[N]
  BY DEF Packs, N, o
<1> HIDE DEF u
<1>14. u[0] = o /\ \A k \in 1 .. N : u[k] = OnePack(u[k - 1], move)
  BY <1>1, <1>12
<1> DEFINE Q(x, k) == P(x) /\ (M # {} => Len(x.msgs) = k \/ Readable(x.b) = 0)
           C == [k \in 0 .. N |-> {x \in S : Q(x, k)}]
<1>15. u[0] \in C[0]
  <2>1. Len(o.msgs) = 0
    BY DEF o
  <2> QED BY <1>1, <1>4, <1>6, <1>14, <2>1
<1>16. \A k \in 1 .. N : u[k - 1] \in C[k - 1] => u[k] \in C[k]
  <2> TAKE k \in 1 .. N
  <2> DEFINE v == u[k - 1]
             w == u[k]
  <2> SUFFICES ASSUME v \in C[k - 1] PROVE w \in C[k]
    OBVIOUS
  <2>1. P(v) /\ (M # {} => Len(v.msgs) = k - 1 \/ Readable(v.b) = 0)
    BY <1>1
  <2>2. w = OnePack(v, move)
    BY <1>14
  <2> HIDE DEF v, w
  <2>3. P(w)
    BY <1>3, <2>1, <2>2
  <2>4. M # {} => Len(w.msgs) = k \/ Readable(w.b) = 0
    <3> SUFFICES ASSUME M # {} PROVE Len(w.msgs) = k \/ Readable(w.b) = 0
      OBVIOUS
    <3>1. CASE Readable(v.b) = 0
      BY <1>3, <2>1, <2>2, <3>1
    <3>2. CASE Readable(v.b) # 0
      <4>1. Readable(v.b) > 0
        <5>1. Readable(v.b) \in Nat
          BY <1>5, <2>1
        <5> QED BY ONLY <3>2, <5>1
      <4>2. Len(w.msgs) = Len(v.msgs) + 1 /\ Len(v.msgs) = k - 1
        BY <1>3, <2>1, <2>2, <3>2, <4>1
      <4>3. Len(w.msgs) = k
        BY ONLY <4>2, k \in 1 .. N, <1>1
      <4> QED BY <4>3
    <3> QED BY <3>1, <3>2
  <2>5. w \in S
    BY <1>7, <2>3
  <2> QED BY <1>1, <2>3, <2>4, <2>5
<1> HIDE DEF Q, C
<1>17. \A k \in 0 .. N : u[k] \in C[k]
  BY ONLY <1>1, <1>15, <1>16, KeptAt
<1> DEFINE x == u[N]
<1>18. P(x) /\ (M # {} => Len(x.msgs) = N \/ Readable(x.b) = 0)
  <2>1. Q(x, N)
    BY <1>1, <1>17 DEF C
  <2> QED BY <2>1 DEF Q
<1> HIDE DEF x
<1>19. M # {} => Readable(x.b) = 0
  <2> SUFFICES ASSUME NEW m \in M, Len(x.msgs) = N PROVE Readable(x.b) = 0
    BY <1>18
  <2> DEFINE g == h + Len(x.msgs)
  <2>1. g <= m /\ Readable(x.b) = e[m] - e[g]
    BY <1>18 DEF P, Passed
  <2>2. m \in Nat /\ m <= Len(msgs) /\ Len(msgs) <= N
    BY DEF N, Marks
  <2>3. g = m /\ m \in 0 .. Len(msgs)
    BY ONLY <1>1, <2>1, <2>2, h \in Nat, Len(x.msgs) = N
  <2>4. e[m] \in Nat
    BY <2>3 DEF Ends
  <2> HIDE DEF g
  <2> QED BY ONLY <2>1, <2>3, <2>4
<1> QED BY <1>13, <1>18, <1>19 DEF P, x

-----------------------------------------------------------------------------
(* EventLink: callbacks and requests                                       *)

\* A stream is its first n bytes and the rest.
LEMMA SplitAt ==
  ASSUME NEW s, s \in Seq(Nat), NEW n \in 0 .. Len(s)
  PROVE  /\ SubSeq(s, 1, n) \in Seq(Nat) /\ Len(SubSeq(s, 1, n)) = n
         /\ SubSeq(s, n + 1, Len(s)) \in Seq(Nat)
         /\ SubSeq(s, 1, n) \o SubSeq(s, n + 1, Len(s)) = s
<1>1. Len(s) \in Nat /\ \A i \in 1 .. Len(s) : s[i] \in Nat
  OBVIOUS
<1>2. /\ 1 \in Int /\ n \in Int /\ n + 1 \in Int /\ Len(s) \in Int /\ n \in Nat
      /\ (\A i \in 1 .. n : s[i] \in Nat) /\ \A i \in n + 1 .. Len(s) : s[i] \in Nat
  BY <1>1
<1>3. /\ SubSeq(s, 1, n) \in Seq(Nat)
      /\ Len(SubSeq(s, 1, n)) = IF 1 <= n THEN n - 1 + 1 ELSE 0
  BY ONLY <1>2, SubSeqProperties
<1>4. SubSeq(s, n + 1, Len(s)) \in Seq(Nat)
  BY ONLY <1>2, SubSeqProperties
<1>5. Len(SubSeq(s, 1, n)) = n
  BY ONLY <1>2, <1>3
<1>6. SubSeq(s, 1, n) \o SubSeq(s, n + 1, Len(s)) = SubSeq(s, 1, Len(s))
  <2>1. 1 \in 1 .. Len(s) + 1 /\ n \in 1 - 1 .. Len(s) /\ Len(s) \in n .. Len(s)
    BY <1>1
  <2> QED BY ONLY <2>1, s \in Seq(Nat), ConcatAdjacentSubSeq
<1> QED BY <1>3, <1>4, <1>5, <1>6, SubSeqFull

\* What a callback gets is behind the content.
LEMMA ReceivedIs ==
  ASSUME NEW b, Buf(b), NEW s, s \in Seq(Nat), Len(s) <= Writable(b)
  PROVE  LET v == Received(b, s)
         IN  /\ Buf(v) /\ Content(v) = Content(b) \o s
             /\ Len(v.mem) = Len(b.mem) /\ v.r = b.r /\ v.w = b.w + Len(s)
<1> DEFINE x == [b EXCEPT !.mem = Write(@, b.w, s)]
<1>1. Received(b, s) = WriterMove(x, Len(s))
  BY DEF Received
<1>2. Buf(WriterMove(x, Len(s))) /\ Content(WriterMove(x, Len(s))) = Content(b) \o s
  BY RecvKeeps
<1>3. /\ b.mem \in Seq(Nat) /\ b.w \in Nat /\ Len(b.mem) \in Nat /\ Len(s) \in Nat
      /\ b \in [mem : Seq(Nat), r : Nat, w : Nat]
  BY DEF Buf
<1>4. Len(Write(b.mem, b.w, s)) = Len(b.mem)
  BY <1>3, WriteType
<1>5. x = [mem |-> Write(b.mem, b.w, s), r |-> b.r, w |-> b.w]
  BY SMTT(30), <1>3
<1> HIDE DEF x
<1>6. Writable(x) = Writable(b)
  BY ONLY <1>4, <1>5 DEF Writable, MemSize
<1>7. Writable(x) >= Len(s)
  <2>1. Writable(b) \in Int
    BY ONLY <1>3 DEF Writable, MemSize
  <2> QED BY ONLY <1>3, <1>6, <2>1, Len(s) <= Writable(b)
<1>8. MakeSpace(x, Len(s)) = x
  BY <1>7 DEF MakeSpace
<1>9. WriterMove(x, Len(s)) = [mem |-> Write(b.mem, b.w, s), r |-> b.r, w |-> b.w + Len(s)]
  BY ONLY <1>5, <1>8 DEF WriterMove
<1> QED BY <1>1, <1>2, <1>4, <1>9

\* What was handled is what was sent first.
Came(handled, sent) ==
  /\ handled \in Seq(Seq(Nat)) /\ Len(handled) <= Len(sent)
  /\ \A i \in 1 .. Len(handled) : handled[i] = sent[i]

\* What was sent behind the first n.
Follow(k, n, sent) ==
  k \in Seq(Seq(Nat)) /\ n + Len(k) <= Len(sent) /\ \A i \in 1 .. Len(k) : k[i] = sent[n + i]

LEMMA CameMore ==
  ASSUME NEW handled, NEW sent, sent \in Seq(Seq(Nat)), Came(handled, sent),
         NEW k, Follow(k, Len(handled), sent)
  PROVE  Came(handled \o k, sent) /\ Len(handled \o k) = Len(handled) + Len(k)
<1> DEFINE u == handled \o k
           H == Len(handled)
           K == Len(k)
<1>1. handled \in Seq(Seq(Nat)) /\ \A i \in 1 .. H : handled[i] = sent[i]
  BY DEF Came
<1>a. k \in Seq(Seq(Nat)) /\ H + K <= Len(sent) /\ \A i \in 1 .. K : k[i] = sent[H + i]
  BY DEF Follow
<1>2. H \in Nat /\ K \in Nat /\ H + K <= Len(sent) /\ Len(sent) \in Nat
  BY <1>a, <1>1
<1>3. u \in Seq(Seq(Nat)) /\ Len(u) = H + K
      /\ \A i \in 1 .. H + K : u[i] = IF i <= H THEN handled[i] ELSE k[i - H]
  BY <1>a, <1>1, ConcatProperties
<1>4. \A i \in 1 .. K : k[i] = sent[H + i]
  BY <1>a
<1> HIDE DEF u, H, K
<1>5. \A i \in 1 .. Len(u) : u[i] = sent[i]
  <2> TAKE i \in 1 .. Len(u)
  <2>1. CASE i \in 1 .. H
    <3>1. i \in 1 .. H + K /\ i <= H
      BY ONLY <1>2, <2>1
    <3> QED BY <1>1, <1>3, <2>1, <3>1
  <2>2. CASE i \notin 1 .. H
    <3>1. i \in 1 .. H + K /\ ~ (i <= H) /\ i - H \in 1 .. K /\ H + (i - H) = i
      BY ONLY <1>2, <1>3, <2>2, i \in 1 .. Len(u)
    <3> QED BY <1>3, <1>4, <3>1
  <2> QED BY <2>1, <2>2
<1> QED BY <1>2, <1>3, <1>5 DEF Came, u, H, K

LEMMA CamePrefix ==
  ASSUME NEW handled, NEW sent, sent \in Seq(Seq(Nat)), Came(handled, sent)
  PROVE  IsPrefix(handled, sent)
<1> DEFINE n == Len(handled)
           a == SubSeq(handled, 1, n)
           b == SubSeq(sent, 1, n)
<1>1. /\ handled \in Seq(Seq(Nat)) /\ n <= Len(sent) /\ n \in Nat /\ Len(sent) \in Nat
      /\ \A i \in 1 .. n : handled[i] = sent[i]
  BY DEF Came
<1>2. 1 \in Int /\ n \in Int /\ \A i \in 1 .. n : sent[i] \in Seq(Nat)
  <2>1. \A i \in 1 .. n : i \in 1 .. Len(sent)
    BY <1>1
  <2> QED BY <1>1, <2>1
<1>3. a = handled
  BY <1>1, SubSeqFull
<1>4. b \in Seq(Seq(Nat)) /\ Len(b) = (IF 1 <= n THEN n - 1 + 1 ELSE 0)
      /\ \A i \in 1 .. n - 1 + 1 : b[i] = sent[1 + i - 1]
  BY ONLY <1>2, SubSeqProperties
<1> HIDE DEF b, n
<1>5. Len(b) = n /\ \A i \in 1 .. n : i \in 1 .. n - 1 + 1 /\ 1 + i - 1 = i
  BY ONLY <1>1, <1>4
<1>6. \A i \in 1 .. Len(handled) : handled[i] = b[i]
  BY <1>1, <1>4, <1>5 DEF n
<1>7. handled = b
  <2>1. handled \in Seq(Seq(Nat)) /\ b \in Seq(Seq(Nat)) /\ Len(handled) = Len(b)
    BY <1>1, <1>4, <1>5 DEF n
  <2> QED BY ONLY <1>6, <2>1, SeqEqual
<1> QED BY <1>1, <1>3, <1>7 DEF IsPrefix, b, n

LEMMA ConcatBytes ==
  ASSUME NEW c \in Seq(Nat), NEW a \in Seq(Nat), NEW z \in Seq(Nat)
  PROVE  (c \o a) \o z = c \o (a \o z)
BY ONLY SMTT(30), ConcatAssociative, c \in Seq(Nat), a \in Seq(Nat), z \in Seq(Nat)

\* A link's way: what the buffer b and the bytes s on their way to it hold are the messages
\* behind the h-th, up to the t-th; e is where they end.
Reading(b, s, e, msgs, h, t) ==
  /\ msgs \in Seq(Seq(Nat)) /\ Len(msgs) <= MaxMsgs /\ Ends(e, msgs)
  /\ Buf(b) /\ s \in Seq(Nat) /\ FramedIn(e, Content(b) \o s, msgs, h, t)

\* Where the content and a piece of n bytes may be known to end.
Ending(M, b, n, e, msgs, h) ==
  Marks(M, msgs) /\ \A m \in M : h <= m /\ Readable(b) + n = e[m] - e[h]

\* A read callback gets n bytes.
Callback(b, s, e, msgs, h, t, n, M, move) ==
  /\ Reading(b, s, e, msgs, h, t) /\ n \in 1 .. Len(s) /\ n <= Writable(b)
  /\ Ending(M, b, n, e, msgs, h) /\ Moves(move, e, h, M)

\* The loop over the content and the piece.
LEMMA ReadKeeps ==
  ASSUME NEW b, NEW s, NEW e, NEW msgs, NEW h, NEW t, NEW n, NEW M, NEW move,
         Callback(b, s, e, msgs, h, t, n, M, move)
  PROVE  LET x == Packs(Received(b, SubSeq(s, 1, n)), b.r, move)
             z == SubSeq(s, n + 1, Len(s))
         IN  Passed(x, e, msgs, z, h, t, M, Len(b.mem)) /\ (M # {} => Readable(x.b) = 0)
<1> DEFINE a == SubSeq(s, 1, n)
           z == SubSeq(s, n + 1, Len(s))
           v == Received(b, a)
           o == [b |-> v, pPack |-> b.r, msgs |-> <<>>]
           size == Len(b.mem)
<1>a. /\ Reading(b, s, e, msgs, h, t) /\ n \in 1 .. Len(s) /\ n <= Writable(b)
      /\ Ending(M, b, n, e, msgs, h) /\ Moves(move, e, h, M)
  BY DEF Callback
<1> USE <1>a
<1>1. /\ msgs \in Seq(Seq(Nat)) /\ Len(msgs) <= MaxMsgs /\ Ends(e, msgs)
      /\ Buf(b) /\ s \in Seq(Nat) /\ FramedIn(e, Content(b) \o s, msgs, h, t)
  BY DEF Reading
<1>2. /\ a \in Seq(Nat) /\ Len(a) = n /\ z \in Seq(Nat) /\ a \o z = s
  <2>1. n \in 0 .. Len(s)
    BY <1>1
  <2> QED BY ONLY <1>1, <2>1, SplitAt
<1> HIDE DEF a, z
<1>3. /\ Buf(v) /\ Content(v) = Content(b) \o a /\ Len(v.mem) = size /\ v.r = b.r /\ v.w = b.w + n
  <2>1. Len(a) <= Writable(b)
    BY <1>2
  <2>2. /\ Buf(v) /\ Content(v) = Content(b) \o a /\ Len(v.mem) = size /\ v.r = b.r
        /\ v.w = b.w + Len(a)
    BY ONLY <1>1, <1>2, <2>1, ReceivedIs
  <2> QED BY <1>2, <2>2
<1> HIDE DEF v
<1>4. Content(v) \o z = Content(b) \o s
  <2> DEFINE c == Content(b)
  <2>1. c \in Seq(Nat)
    BY <1>1, ContentType
  <2> HIDE DEF c
  <2>2. (c \o a) \o z = c \o (a \o z)
    <3>1. a \in Seq(Nat) /\ z \in Seq(Nat)
      BY <1>2
    <3> QED BY ONLY <2>1, <3>1, ConcatBytes
  <2> QED BY <1>2, <1>3, <2>2 DEF c
<1>5. FramedIn(e, Content(v) \o z, msgs, h, t)
  BY <1>1, <1>4
<1>6. h \in Nat /\ h <= t /\ t \in Nat
  BY <1>5 DEF FramedIn
<1>7. o \in PassStates
  BY <1>1, <1>3 DEF PassStates, Buf
<1>8. Readable(v) = Readable(b) + n /\ Readable(v) > 0
  <2>1. b.r \in Nat /\ b.w \in Nat /\ b.r <= b.w /\ n \in Nat /\ n >= 1
    BY <1>1 DEF Buf
  <2> QED BY ONLY <1>3, <2>1 DEF Readable
<1>9. Passed(o, e, msgs, z, h, t, M, size)
  <2>1. o.b = v /\ o.pPack = v.r /\ o.msgs = <<>> /\ Len(o.msgs) = 0
    BY <1>3
  <2> HIDE DEF o
  <2>2. h + Len(o.msgs) = h
    BY ONLY <1>6, <2>1
  <2>3. \A m \in M : h <= m /\ Readable(v) = e[m] - e[h]
    BY <1>8 DEF Ending
  <2>4. \A i \in 1 .. Len(o.msgs) : o.msgs[i] = msgs[h + i]
    BY <2>1
  <2>5. ~ (Readable(v) = 0 /\ Len(o.msgs) > 0)
    BY ONLY <2>1
  <2>6. /\ o \in PassStates /\ Buf(o.b) /\ Len(o.b.mem) = size /\ h + Len(o.msgs) <= t
        /\ FramedIn(e, Content(o.b) \o z, msgs, h + Len(o.msgs), t)
        /\ o.pPack = o.b.r
        /\ \A m \in M : h + Len(o.msgs) <= m /\ Readable(o.b) = e[m] - e[h + Len(o.msgs)]
    BY ONLY <1>3, <1>5, <1>6, <1>7, <2>1, <2>2, <2>3
  <2>7. ~ (Readable(o.b) = 0 /\ Len(o.msgs) > 0)
    BY ONLY <2>1, <2>5
  <2> QED BY ONLY <2>4, <2>6, <2>7 DEF Passed
<1>10. Loop(o, e, msgs, z, h, t, M, size, move)
  <2>1. Marks(M, msgs)
    BY DEF Ending
  <2> HIDE DEF o
  <2> QED BY <1>1, <1>2, <1>6, <1>9, <2>1 DEF Loop
<1> HIDE DEF size
<1>11. LET x == Packs(v, b.r, move)
       IN  Passed(x, e, msgs, z, h, t, M, size) /\ (M # {} => Readable(x.b) = 0)
  BY ONLY <1>1, <1>10, PacksKeeps
<1> QED BY <1>11 DEF v, a, z, size

\* What the callback leaves, and what it handled.
LEMMA ReadLeaves ==
  ASSUME NEW x, NEW s, NEW e, NEW msgs, NEW h, NEW t, NEW M, NEW size,
         msgs \in Seq(Seq(Nat)), Len(msgs) <= MaxMsgs, Ends(e, msgs), s \in Seq(Nat),
         Passed(x, e, msgs, s, h, t, M, size), NEW handled, Came(handled, msgs), h = Len(handled)
  PROVE  LET k == handled \o x.msgs
         IN  Came(k, msgs) /\ Reading(x.b, s, e, msgs, Len(k), t)
<1>1. /\ x \in PassStates /\ Buf(x.b)
      /\ h + Len(x.msgs) <= t /\ \A i \in 1 .. Len(x.msgs) : x.msgs[i] = msgs[h + i]
      /\ FramedIn(e, Content(x.b) \o s, msgs, h + Len(x.msgs), t)
  BY DEF Passed
<1>2. x.msgs \in Seq(Seq(Nat)) /\ t <= Len(msgs) /\ t \in Nat
  BY <1>1 DEF PassStates, FramedIn
<1>3. Len(handled) + Len(x.msgs) <= Len(msgs)
  <2>1. Len(x.msgs) \in Nat /\ Len(handled) \in Nat /\ Len(msgs) \in Nat
    BY <1>2 DEF Came
  <2> QED BY ONLY <1>1, <1>2, <2>1, h = Len(handled)
<1>4. \A i \in 1 .. Len(x.msgs) : x.msgs[i] = msgs[Len(handled) + i]
  BY <1>1
<1>5. Came(handled \o x.msgs, msgs) /\ Len(handled \o x.msgs) = Len(handled) + Len(x.msgs)
  <2>1. Follow(x.msgs, Len(handled), msgs)
    BY <1>2, <1>3, <1>4 DEF Follow
  <2> QED BY <2>1, CameMore
<1> QED BY <1>1, <1>5 DEF Reading

\* Whole frames end where a message ends.
LEMMA FrameEnd ==
  ASSUME NEW msgs, Sent(msgs), NEW e, Ends(e, msgs), NEW s, NEW h, NEW t, FramedIn(e, s, msgs, h, t),
         NEW n, n \in WholeFrames(s)
  PROVE  n \in 1 .. Len(s) /\ \E m \in 0 .. Len(msgs) : h <= m /\ n = e[m] - e[h]
<1>1. /\ h \in 0 .. t /\ t \in 0 .. Len(msgs) /\ s \in Seq(Nat) /\ Len(s) = e[t] - e[h]
      /\ \A k \in h + 1 .. t : \A i \in 1 .. Len(msgs[k]) + 2 : s[e[k - 1] - e[h] + i] = Framed(msgs[k])[i]
  BY DEF FramedIn
<1>2. n \in 1 .. Len(s) /\ s[n] > 255 /\ (n < Len(s) => s[n + 1] <= 255)
  BY DEF WholeFrames
<1>3. msgs \in Seq(Seq(Nat)) /\ \A k \in 1 .. Len(msgs) : \E size \in BodySizes : msgs[k] = Body(k, size)
  BY DEF Sent
<1>4. h \in Nat /\ t \in Nat /\ h <= t /\ t <= Len(msgs) /\ Len(msgs) \in Nat /\ n \in Nat /\ n >= 1 /\ n <= Len(s)
      /\ Len(s) \in Nat /\ h \in 0 .. Len(msgs) /\ t \in 0 .. Len(msgs)
  <2>1. Len(msgs) \in Nat /\ Len(s) \in Nat
    BY <1>1, <1>3
  <2> QED BY <1>1, <1>2, <2>1
<1>5. e[h] \in Nat /\ e[t] \in Nat
  BY <1>4 DEF Ends
<1> DEFINE T == {k \in h + 1 .. t : n <= e[k] - e[h]}
<1>6. t \in T
  <2>1. n <= e[t] - e[h]
    BY ONLY <1>1, <1>4
  <2>2. t # h
    BY ONLY <1>4, <1>5, <2>1
  <2>3. t \in h + 1 .. t
    BY ONLY <1>4, <2>2
  <2> QED BY <2>1, <2>3
<1>7. T \in SUBSET Nat /\ T # {}
  BY <1>4, <1>6
<1>8. PICK k \in T : \A y \in T : k <= y
  BY ONLY <1>7, Least
<1>9. k \in h + 1 .. t /\ n <= e[k] - e[h]
  BY <1>8
<1>10. k \in Nat /\ k >= 1 /\ k \in 1 .. Len(msgs) /\ k \in 0 .. Len(msgs) /\ k - 1 \in 0 .. Len(msgs) /\ k >= h + 1
  BY ONLY <1>4, <1>9
<1> DEFINE m == msgs[k]
           l == Len(m)
           a == e[k - 1]
           i == n - (a - e[h])
<1>11. e[k] \in Nat /\ a \in Nat /\ l \in Nat /\ m \in Seq(Nat) /\ e[k] = a + 2 + l
  BY <1>3, <1>10, EndsAt
<1>12. a - e[h] < n
  <2>1. CASE k = h + 1
    <3>1. k - 1 = h
      BY ONLY <1>4, <2>1
    <3>2. a = e[h]
      BY <3>1
    <3> HIDE DEF a
    <3> QED BY ONLY <1>4, <1>5, <3>2
  <2>2. CASE k # h + 1
    <3>1. k - 1 \in h + 1 .. t /\ ~ (k <= k - 1)
      BY ONLY <1>4, <1>9, <1>10, <2>2
    <3>2. ~ (n <= a - e[h])
      BY <1>8, <3>1
    <3> HIDE DEF a
    <3> QED BY ONLY <1>4, <1>5, <1>11, <3>2
  <2> QED BY <2>1, <2>2
<1>13. i \in 1 .. l + 2 /\ a - e[h] + i = n
  <2>1. e[k] \in Nat /\ a \in Nat /\ l \in Nat /\ e[k] = a + 2 + l
    BY <1>11
  <2>2. n \in Nat
    BY <1>4
  <2> HIDE DEF a, l
  <2>3. n <= e[k] - e[h]
    BY <1>9
  <2> QED BY ONLY <1>5, <1>12, <2>1, <2>2, <2>3 DEF i
<1>14. s[n] = Framed(m)[i]
  <2>1. s[a - e[h] + i] = Framed(m)[i]
    BY <1>1, <1>9, <1>13
  <2> QED BY <1>13, <2>1
<1>15. /\ Framed(m)[1] = l /\ Framed(m)[2] = 0 /\ \A j \in 1 .. l : Framed(m)[2 + j] = m[j]
  BY <1>11, FramedType
<1>16. PICK size \in BodySizes : m = Body(k, size)
  BY <1>3, <1>10
<1>17. l = size /\ l <= 255 /\ \A j \in 1 .. l : m[j] = 256 * k + j
  <2>1. /\ Len(Body(k, size)) = size /\ size \in 1 .. 255
        /\ \A j \in 1 .. size : Body(k, size)[j] = 256 * k + j
    BY ONLY <1>10, size \in BodySizes, BodyType, EventLinkAssumption
  <2>2. l = size /\ m = Body(k, size)
    BY ONLY <1>16, <2>1, Zenon DEF l
  <2> HIDE DEF l, m
  <2>3. \A j \in 1 .. l : m[j] = 256 * k + j
    BY ONLY <2>1, <2>2, Zenon
  <2>4. l <= 255
    BY ONLY <2>1, <2>2
  <2> QED BY ONLY <2>2, <2>3, <2>4
<1> HIDE DEF i, l, m, a
<1>18. i = l + 2
  <2> SUFFICES ASSUME i # l + 2 PROVE FALSE
    OBVIOUS
  <2>1. i # 1 /\ i # 2
    BY ONLY <1>2, <1>11, <1>14, <1>15, <1>17
  <2> DEFINE j == i - 1
  <2>2. j \in 1 .. l /\ i + 1 \in 1 .. l + 2 /\ i + 1 = 2 + j
    BY ONLY <1>11, <1>13, <2>1, i # l + 2
  <2>3. n < Len(s)
    <3>1. n < e[k] - e[h]
      BY ONLY SMTT(30), <1>4, <1>5, <1>11, <1>13, i # l + 2
    <3>2. e[k] <= e[t]
      <4>1. k \in 0 .. Len(msgs) /\ t \in k .. Len(msgs)
        BY ONLY <1>4, <1>9, <1>10
      <4> QED BY <1>3, <4>1, EndsGrow
    <3>3. Len(s) = e[t] - e[h]
      BY <1>1
    <3> QED BY ONLY <1>4, <1>5, <1>11, <3>1, <3>2, <3>3
  <2>4. s[n + 1] <= 255
    BY <1>2, <2>3
  <2>5. s[n + 1] = Framed(m)[i + 1]
    <3>1. s[a - e[h] + (i + 1)] = Framed(m)[i + 1]
      BY <1>1, <1>9, <2>2 DEF a, m, l
    <3>2. a - e[h] + (i + 1) = n + 1
      <4>1. a \in Nat /\ l \in Nat
        BY <1>11
      <4>2. n \in Nat /\ e[h] \in Nat /\ i \in Int /\ a - e[h] + i = n
        BY ONLY <1>4, <1>5, <1>13, <4>1
      <4> QED BY ONLY <4>1, <4>2
    <3> QED BY <3>1, <3>2
  <2>6. s[n + 1] = 256 * k + j
    BY <1>15, <1>17, <2>2, <2>5
  <2>7. j \in Nat /\ j >= 1
    BY ONLY <1>11, <2>2
  <2> HIDE DEF j
  <2> QED BY ONLY <1>10, <2>4, <2>6, <2>7
<1>19. n = e[k] - e[h]
  BY ONLY SMTT(30), <1>4, <1>5, <1>11, <1>13, <1>18
<1>20. h <= k
  BY ONLY <1>4, <1>10
<1> QED BY <1>2, <1>10, <1>19, <1>20

Carried(b, s, msgs, h, t) == \E e : Reading(b, s, e, msgs, h, t)

\* One message more is on its way.
LEMMA CarriedFurther ==
  ASSUME NEW b, NEW s, NEW msgs, NEW h, NEW t, Carried(b, s, msgs, h, t), t < Len(msgs)
  PROVE  Carried(b, s \o Framed(msgs[t + 1]), msgs, h, t + 1)
<1>1. PICK e : Reading(b, s, e, msgs, h, t)
  BY DEF Carried
<1> DEFINE c == Content(b)
           f == Framed(msgs[t + 1])
<1>2. /\ msgs \in Seq(Seq(Nat)) /\ Len(msgs) <= MaxMsgs /\ Ends(e, msgs)
      /\ Buf(b) /\ s \in Seq(Nat) /\ FramedIn(e, c \o s, msgs, h, t)
  BY <1>1 DEF Reading
<1>3. c \in Seq(Nat)
  BY <1>2, ContentType
<1>4. f \in Seq(Nat)
  <2>1. t + 1 \in 1 .. Len(msgs)
    <3>1. t \in Nat /\ Len(msgs) \in Nat
      BY <1>2 DEF FramedIn
    <3> QED BY ONLY <3>1, t < Len(msgs)
  <2>2. msgs[t + 1] \in Seq(Nat)
    BY <1>2, <2>1
  <2> QED BY <2>2, FramedType
<1> HIDE DEF c
<1>5. FramedIn(e, (c \o s) \o f, msgs, h, t + 1)
  BY <1>2, FrameMore
<1> HIDE DEF f
<1>6. (c \o s) \o f = c \o (s \o f)
  BY ONLY <1>2, <1>3, <1>4, ConcatBytes
<1>7. s \o f \in Seq(Nat)
  BY ONLY <1>2, <1>4, ConcatProperties
<1>8. Reading(b, s \o f, e, msgs, h, t + 1)
  BY <1>2, <1>5, <1>6, <1>7 DEF Reading, c
<1> QED BY <1>8 DEF Carried, f

\* One message more is sent.
LEMMA CarriedStill ==
  ASSUME NEW b, NEW s, NEW msgs, NEW h, NEW t, Carried(b, s, msgs, h, t), NEW m, m \in Seq(Nat),
         Len(msgs) < MaxMsgs
  PROVE  Carried(b, s, Append(msgs, m), h, t)
<1>1. PICK e : Reading(b, s, e, msgs, h, t)
  BY DEF Carried
<1> DEFINE q == Append(msgs, m)
<1>2. /\ msgs \in Seq(Seq(Nat)) /\ Ends(e, msgs)
      /\ Buf(b) /\ s \in Seq(Nat) /\ FramedIn(e, Content(b) \o s, msgs, h, t)
  BY <1>1 DEF Reading
<1>3. PICK d : Ends(d, q) /\ \A k \in 0 .. Len(msgs) : d[k] = e[k]
  BY <1>2, EndsMore
<1>4. FramedIn(d, Content(b) \o s, q, h, t)
  BY <1>2, <1>3, FrameOther
<1>5. q \in Seq(Seq(Nat)) /\ Len(q) <= MaxMsgs
  <2>1. q \in Seq(Seq(Nat)) /\ Len(q) = Len(msgs) + 1
    BY <1>2, AppendProperties
  <2>2. Len(msgs) \in Nat /\ MaxMsgs \in Nat
    BY <1>2, EventLinkAssumption
  <2> QED BY ONLY <2>1, <2>2, Len(msgs) < MaxMsgs
<1>6. Reading(b, s, d, q, h, t)
  BY <1>2, <1>3, <1>4, <1>5 DEF Reading
<1> QED BY <1>6 DEF Carried

LEMMA SentMore ==
  ASSUME NEW msgs, Sent(msgs), NEW size \in BodySizes
  PROVE  LET m == Body(Len(msgs) + 1, size)
             q == Append(msgs, m)
         IN  /\ Sent(q) /\ m \in Seq(Nat) /\ Len(q) = Len(msgs) + 1 /\ q[Len(msgs) + 1] = m
             /\ \A i \in 1 .. Len(msgs) : q[i] = msgs[i]
             /\ \A handled : Came(handled, msgs) => Came(handled, q)
<1> DEFINE n == Len(msgs)
           m == Body(n + 1, size)
           q == Append(msgs, m)
<1>1. /\ msgs \in Seq(Seq(Nat)) /\ n \in Nat
      /\ \A k \in 1 .. n : \E z \in BodySizes : msgs[k] = Body(k, z)
  BY DEF Sent
<1>2. m \in Seq(Nat)
  <2>1. n + 1 \in Nat
    BY <1>1
  <2> HIDE DEF n
  <2> QED BY ONLY <2>1, size \in BodySizes, BodyType, EventLinkAssumption
<1> HIDE DEF m
<1>3. /\ q \in Seq(Seq(Nat)) /\ Len(q) = n + 1 /\ (\A i \in 1 .. n : q[i] = msgs[i]) /\ q[n + 1] = m
  BY <1>1, <1>2, AppendProperties
<1> HIDE DEF q, n
<1>4. Sent(q)
  <2>1. ASSUME NEW k \in 1 .. Len(q) PROVE \E z \in BodySizes : q[k] = Body(k, z)
    <3>1. CASE k \in 1 .. n
      BY <1>1, <1>3, <3>1
    <3>2. CASE k \notin 1 .. n
      <4>1. k = n + 1
        BY ONLY <1>1, <1>3, <3>2, k \in 1 .. Len(q)
      <4> QED BY <1>3, <4>1 DEF m
    <3> QED BY <3>1, <3>2
  <2> QED BY <1>3, <2>1 DEF Sent
<1>5. ASSUME NEW handled, Came(handled, msgs) PROVE Came(handled, q)
  <2>1. handled \in Seq(Seq(Nat)) /\ Len(handled) <= n /\ \A i \in 1 .. Len(handled) : handled[i] = msgs[i]
    BY <1>5 DEF Came, n
  <2>2. Len(handled) \in Nat
    BY <2>1
  <2>3. Len(handled) <= Len(q) /\ \A i \in 1 .. Len(handled) : i \in 1 .. n
    BY ONLY <1>1, <1>3, <2>1, <2>2
  <2> QED BY <1>3, <2>1, <2>3 DEF Came
<1> QED BY <1>2, <1>3, <1>4, <1>5 DEF q, m, n

\* Nothing is on its way.
LEMMA CarriedNothing ==
  ASSUME NEW b, Buf(b), Content(b) = <<>>
  PROVE  Carried(b, <<>>, <<>>, 0, 0) /\ Sent(<<>>) /\ Came(<<>>, <<>>)
<1> DEFINE z == <<>>
           e == [k \in 0 .. 0 |-> 0]
<1>1. z \in Seq(Seq(Nat)) /\ z \in Seq(Nat) /\ Len(z) = 0
  OBVIOUS
<1>2. Ends(e, z)
  BY DEF Ends
<1>3. Content(b) \o z = z
  <2>1. z \o z = z
    BY <1>1, ConcatEmptySeq
  <2> QED BY <2>1
<1>4. FramedIn(e, z, z, 0, 0)
  BY <1>1 DEF FramedIn
<1>5. MaxMsgs \in Nat
  BY EventLinkAssumption
<1> HIDE DEF z, e
<1>6. Reading(b, z, e, z, 0, 0)
  BY <1>1, <1>2, <1>3, <1>4, <1>5 DEF Reading
<1>7. Sent(z) /\ Came(z, z)
  BY <1>1 DEF Sent, Came
<1> QED BY <1>6, <1>7 DEF Carried, z

-----------------------------------------------------------------------------

\* No request is in two places.
Spread(w, f) ==
  /\ \A i, j \in 1 .. Len(w) : w[i] = w[j] => i = j
  /\ \A i, j \in 1 .. Len(f) : f[i] = f[j] => i = j
  /\ \A i \in 1 .. Len(w), j \in 1 .. Len(f) : w[i] # f[j]

\* The requests under way carry the messages sent last.
Requests(w, f, mems, sent) ==
  /\ mems \in Seq(Seq(Nat)) /\ w \in Seq(1 .. Len(mems)) /\ f \in Seq(1 .. Len(mems)) /\ Spread(w, f)
  /\ Len(f) <= Len(sent) /\ \A i \in 1 .. Len(f) : mems[f[i]] = Framed(sent[Len(sent) - Len(f) + i])

\* The content of the client's buffer is never more than the piece it reads.
Unused(b) ==
  /\ Buf(b) /\ b.r = CheapPrepend /\ b.w = CheapPrepend /\ Len(b.mem) = CheapPrepend + RecvSize

UpInv ==
  /\ Sent(sentUp) /\ Came(handledUp, sentUp) /\ Buf(recvBuf)
  /\ lib = "libuv" => Readable(recvBuf) = 0
  /\ linked => Carried(recvBuf, up, sentUp, Len(handledUp), Len(sentUp))

DownInv ==
  /\ Sent(sentDown) /\ Came(handledDown, sentDown) /\ Unused(clientBuf)
  /\ Requests(writeList, flight, base, sentDown)
  /\ lib = "libevent" \/ ~linked => flight = <<>>
  /\ linked => Carried(clientBuf, down, sentDown, Len(handledDown), Len(sentDown) - Len(flight))

LinkInv ==
  /\ lib \in {"libevent", "libuv"} /\ UpInv /\ DownInv
  /\ Len(sentUp) + Len(sentDown) <= MaxMsgs

LEMMA SpreadInjective ==
  ASSUME NEW S, NEW w \in Seq(S), NEW f \in Seq(S), Spread(w, f)
  PROVE  IsInjective(w \o f)
<1> DEFINE u == w \o f
           W == Len(w)
           F == Len(f)
<1>1. /\ \A i, j \in 1 .. W : w[i] = w[j] => i = j
      /\ \A i, j \in 1 .. F : f[i] = f[j] => i = j
      /\ \A i \in 1 .. W, j \in 1 .. F : w[i] # f[j]
  BY DEF Spread
<1>2. W \in Nat /\ F \in Nat
  OBVIOUS
<1>3. u \in Seq(S) /\ Len(u) = W + F
      /\ \A i \in 1 .. W + F : u[i] = IF i <= W THEN w[i] ELSE f[i - W]
  BY ConcatProperties
<1> HIDE DEF u
<1>4. DOMAIN u = 1 .. W + F
  BY <1>3
<1> HIDE DEF W, F
<1>5. ASSUME NEW i \in 1 .. W + F, NEW j \in 1 .. W + F, u[i] = u[j] PROVE i = j
  <2>1. /\ i <= W => i \in 1 .. W /\ u[i] = w[i]
        /\ j <= W => j \in 1 .. W /\ u[j] = w[j]
        /\ ~ (i <= W) => i - W \in 1 .. F /\ u[i] = f[i - W]
        /\ ~ (j <= W) => j - W \in 1 .. F /\ u[j] = f[j - W]
    BY <1>2, <1>3
  <2>2. CASE i <= W /\ j <= W
    BY <1>1, <1>5, <2>1, <2>2
  <2>3. CASE i <= W /\ ~ (j <= W)
    BY <1>1, <1>5, <2>1, <2>3
  <2>4. CASE ~ (i <= W) /\ j <= W
    BY <1>1, <1>5, <2>1, <2>4
  <2>5. CASE ~ (i <= W) /\ ~ (j <= W)
    <3>1. i - W = j - W
      BY <1>1, <1>5, <2>1, <2>5
    <3> QED BY <1>2, <3>1
  <2> QED BY <2>2, <2>3, <2>4, <2>5
<1> QED BY <1>4, <1>5 DEF IsInjective, u

\* q is s with one message more.
Longer(q, s, m) ==
  /\ Len(s) \in Nat /\ Len(q) = Len(s) + 1 /\ q[Len(s) + 1] = m /\ m \in Seq(Nat)
  /\ \A i \in 1 .. Len(s) : q[i] = s[i]

\* CloseLink: every request is free.
LEMMA RequestsClose ==
  ASSUME NEW w, NEW f, NEW mems, NEW s, Requests(w, f, mems, s), Len(s) \in Nat
  PROVE  Requests(w \o f, <<>>, mems, s)
<1> DEFINE u == w \o f
           z == <<>>
           B == 1 .. Len(mems)
<1>1. /\ mems \in Seq(Seq(Nat)) /\ w \in Seq(B) /\ f \in Seq(B) /\ Spread(w, f)
  BY DEF Requests
<1>2. u \in Seq(B) /\ DOMAIN u = 1 .. Len(u)
  BY <1>1, ConcatProperties, LenProperties
<1>3. IsInjective(u)
  BY <1>1, SpreadInjective
<1> HIDE DEF u
<1>4. \A i, j \in 1 .. Len(u) : u[i] = u[j] => i = j
  BY <1>2, <1>3 DEF IsInjective
<1>5. z \in Seq(B) /\ Len(z) = 0
  OBVIOUS
<1> HIDE DEF z
<1>6. Spread(u, z)
  BY <1>4, <1>5 DEF Spread
<1> QED BY <1>1, <1>2, <1>5, <1>6 DEF Requests, u, z

\* A sequence without its first.
LEMMA TailIs ==
  ASSUME NEW S, NEW s \in Seq(S), s # <<>>
  PROVE  /\ Head(s) = s[1] /\ Tail(s) \in Seq(S) /\ Len(s) \in Nat /\ Len(s) >= 1
         /\ Len(Tail(s)) = Len(s) - 1 /\ s[1] \in S
         /\ \A i \in 1 .. Len(Tail(s)) : Tail(s)[i] = s[i + 1]
<1>1. Len(s) \in Nat \ {0}
  BY EmptySeq
<1>2. Len(s) \in Nat /\ Len(s) >= 1 /\ 1 \in 1 .. Len(s)
  BY <1>1
<1> QED BY <1>2, HeadTailProperties

\* One element more behind f, which neither has.
LEMMA SpreadMore ==
  ASSUME NEW S, NEW w, w \in Seq(S), NEW f, f \in Seq(S), Spread(w, f), NEW x, x \in S,
         \A i \in 1 .. Len(w) : w[i] # x, \A i \in 1 .. Len(f) : f[i] # x
  PROVE  /\ Spread(w, Append(f, x)) /\ Append(f, x) \in Seq(S) /\ Len(Append(f, x)) = Len(f) + 1
         /\ (\A i \in 1 .. Len(f) : Append(f, x)[i] = f[i]) /\ Append(f, x)[Len(f) + 1] = x
<1> DEFINE g == Append(f, x)
           F == Len(f)
<1>1. /\ \A i, j \in 1 .. Len(w) : w[i] = w[j] => i = j
      /\ \A i, j \in 1 .. F : f[i] = f[j] => i = j
      /\ \A i \in 1 .. Len(w), j \in 1 .. F : w[i] # f[j]
  BY DEF Spread
<1>2. g \in Seq(S) /\ Len(g) = F + 1 /\ (\A i \in 1 .. F : g[i] = f[i]) /\ g[F + 1] = x /\ F \in Nat
  BY AppendProperties
<1>3. \A i \in 1 .. F : f[i] # x
  OBVIOUS
<1> HIDE DEF g, F
<1>4. \A i \in 1 .. Len(g) : i \in 1 .. F \/ i = F + 1
  BY ONLY <1>2
<1>5. \A i, j \in 1 .. Len(g) : g[i] = g[j] => i = j
  <2> TAKE i, j \in 1 .. Len(g)
  <2>1. CASE i \in 1 .. F /\ j \in 1 .. F
    BY <1>1, <1>2, <2>1
  <2>2. CASE i \in 1 .. F /\ j = F + 1
    BY <1>2, <1>3, <2>2
  <2>3. CASE i = F + 1 /\ j \in 1 .. F
    BY <1>2, <1>3, <2>3
  <2>4. CASE i = F + 1 /\ j = F + 1
    BY <2>4
  <2> QED BY <1>4, <2>1, <2>2, <2>3, <2>4
<1>6. \A i \in 1 .. Len(w), j \in 1 .. Len(g) : w[i] # g[j]
  <2> TAKE i \in 1 .. Len(w), j \in 1 .. Len(g)
  <2>1. CASE j \in 1 .. F
    BY <1>1, <1>2, <2>1
  <2>2. CASE j = F + 1
    BY <1>2, <2>2
  <2> QED BY <1>4, <2>1, <2>2
<1>7. Spread(w, g)
  BY <1>1, <1>5, <1>6 DEF Spread
<1> QED BY <1>2, <1>7 DEF g, F

LEMMA SpreadTurned ==
  ASSUME NEW w, NEW f, Spread(w, f)
  PROVE  Spread(f, w)
BY DEF Spread

\* The first of w goes behind f.
LEMMA SpreadMoves ==
  ASSUME NEW S, NEW w, w \in Seq(S), NEW f, f \in Seq(S), Spread(w, f), w # <<>>
  PROVE  LET g == Append(f, Head(w))
         IN  /\ Spread(Tail(w), g) /\ Tail(w) \in Seq(S) /\ g \in Seq(S) /\ Len(g) = Len(f) + 1
             /\ (\A i \in 1 .. Len(f) : g[i] = f[i] /\ f[i] # Head(w)) /\ g[Len(f) + 1] = Head(w)
<1> DEFINE t == Tail(w)
           x == Head(w)
<1>1. /\ x = w[1] /\ t \in Seq(S) /\ Len(w) \in Nat /\ Len(w) >= 1 /\ Len(t) = Len(w) - 1 /\ x \in S
      /\ \A i \in 1 .. Len(t) : t[i] = w[i + 1]
  BY TailIs
<1>2. /\ \A i, j \in 1 .. Len(w) : w[i] = w[j] => i = j
      /\ \A i, j \in 1 .. Len(f) : f[i] = f[j] => i = j
      /\ \A i \in 1 .. Len(w), j \in 1 .. Len(f) : w[i] # f[j]
  BY DEF Spread
<1> HIDE DEF t, x
<1>3. /\ 1 \in 1 .. Len(w) /\ Len(t) \in Nat
      /\ \A i \in 1 .. Len(t) : i + 1 \in 1 .. Len(w) /\ i + 1 # 1
  BY ONLY <1>1
<1>4. /\ \A i, j \in 1 .. Len(t) : t[i] = t[j] => i = j
      /\ \A i \in 1 .. Len(t), j \in 1 .. Len(f) : t[i] # f[j]
      /\ \A i \in 1 .. Len(t) : t[i] # x
  <2>1. ASSUME NEW i \in 1 .. Len(t), NEW j \in 1 .. Len(t), t[i] = t[j] PROVE i = j
    <3>1. i + 1 = j + 1
      BY <1>1, <1>2, <1>3, <2>1
    <3> QED BY <3>1
  <2>2. ASSUME NEW i \in 1 .. Len(t), NEW j \in 1 .. Len(f) PROVE t[i] # f[j]
    BY <1>1, <1>2, <1>3
  <2>3. ASSUME NEW i \in 1 .. Len(t) PROVE t[i] # x
    BY <1>1, <1>2, <1>3
  <2> QED BY <2>1, <2>2, <2>3
<1>5. Spread(t, f)
  BY <1>2, <1>4 DEF Spread
<1>6. \A i \in 1 .. Len(f) : f[i] # x
  BY <1>1, <1>2, <1>3
<1>7. /\ Spread(t, Append(f, x)) /\ Append(f, x) \in Seq(S) /\ Len(Append(f, x)) = Len(f) + 1
      /\ (\A i \in 1 .. Len(f) : Append(f, x)[i] = f[i]) /\ Append(f, x)[Len(f) + 1] = x
  BY <1>1, <1>4, <1>5, <1>6, SpreadMore
<1> QED BY <1>1, <1>6, <1>7 DEF t, x

\* AfterWrite: the oldest is free again, and what it carried is the next message.
LEMMA RequestsDone ==
  ASSUME NEW w, NEW f, NEW mems, NEW s, Requests(w, f, mems, s), f # <<>>, Len(s) \in Nat
  PROVE  /\ Requests(Append(w, Head(f)), Tail(f), mems, s)
         /\ Len(f) \in Nat /\ Len(f) >= 1 /\ Len(f) <= Len(s) /\ Len(Tail(f)) = Len(f) - 1
         /\ mems[Head(f)] = Framed(s[Len(s) - Len(f) + 1])
<1> DEFINE B == 1 .. Len(mems)
           t == Tail(f)
           u == Append(w, Head(f))
<1>1. /\ mems \in Seq(Seq(Nat)) /\ w \in Seq(B) /\ f \in Seq(B) /\ Spread(w, f) /\ Len(f) <= Len(s)
      /\ \A i \in 1 .. Len(f) : mems[f[i]] = Framed(s[Len(s) - Len(f) + i])
  BY DEF Requests
<1> HIDE DEF B
<1>2. /\ Head(f) = f[1] /\ t \in Seq(B) /\ Len(f) \in Nat /\ Len(f) >= 1 /\ Len(t) = Len(f) - 1
      /\ \A i \in 1 .. Len(t) : t[i] = f[i + 1]
  BY <1>1, TailIs
<1>3. Spread(f, w)
  BY <1>1, SpreadTurned
<1>4. Spread(t, u) /\ u \in Seq(B)
  BY <1>1, <1>3, SpreadMoves
<1> HIDE DEF t, u
<1>5. Spread(u, t)
  BY <1>4, SpreadTurned
<1>6. 1 \in 1 .. Len(f)
  BY ONLY <1>2
<1>7. mems[f[1]] = Framed(s[Len(s) - Len(f) + 1])
  BY ONLY <1>1, <1>6
<1>8. \A i \in 1 .. Len(t) : mems[t[i]] = Framed(s[Len(s) - Len(t) + i])
  <2> TAKE i \in 1 .. Len(t)
  <2>1. i + 1 \in 1 .. Len(f) /\ Len(s) - Len(f) + (i + 1) = Len(s) - Len(t) + i
    BY ONLY <1>2, Len(s) \in Nat, i \in 1 .. Len(t)
  <2>2. mems[f[i + 1]] = Framed(s[Len(s) - Len(f) + (i + 1)])
    BY ONLY <1>1, <2>1
  <2>3. t[i] = f[i + 1]
    BY <1>2
  <2> QED BY ONLY <2>1, <2>2, <2>3
<1>9. Len(t) <= Len(s)
  BY ONLY <1>1, <1>2, Len(s) \in Nat
<1>10. Requests(u, t, mems, s)
  BY <1>1, <1>2, <1>4, <1>5, <1>8, <1>9 DEF Requests, B
<1> QED BY <1>1, <1>2, <1>7, <1>10 DEF u, t

\* g and mems2 are f and mems with a request x, not under way, that carries m.
SentWith(w2, g, mems2, f, mems, x, m) ==
  /\ mems2 \in Seq(Seq(Nat)) /\ w2 \in Seq(1 .. Len(mems2)) /\ g \in Seq(1 .. Len(mems2))
  /\ Spread(w2, g) /\ Len(f) \in Nat /\ Len(g) = Len(f) + 1 /\ g[Len(f) + 1] = x
  /\ \A i \in 1 .. Len(f) : g[i] = f[i] /\ mems2[f[i]] = mems[f[i]]
  /\ mems2[x] = Framed(m)

\* SendLibuv: the messages sent last are still those under way.
LEMMA RequestsSend ==
  ASSUME NEW w, NEW f, NEW mems, NEW s, Requests(w, f, mems, s), NEW q, NEW m, Longer(q, s, m),
         NEW w2, NEW g, NEW mems2, NEW x, SentWith(w2, g, mems2, f, mems, x, m)
  PROVE  Requests(w2, g, mems2, q) /\ Len(q) - Len(g) = Len(s) - Len(f)
<1>a. /\ mems2 \in Seq(Seq(Nat)) /\ w2 \in Seq(1 .. Len(mems2)) /\ g \in Seq(1 .. Len(mems2))
      /\ Spread(w2, g) /\ Len(f) \in Nat /\ Len(g) = Len(f) + 1 /\ g[Len(f) + 1] = x
      /\ \A i \in 1 .. Len(f) : g[i] = f[i] /\ mems2[f[i]] = mems[f[i]]
      /\ mems2[x] = Framed(m)
  BY DEF SentWith
<1> USE <1>a
<1>1. /\ Len(s) \in Nat /\ Len(q) = Len(s) + 1 /\ q[Len(s) + 1] = m
      /\ \A i \in 1 .. Len(s) : q[i] = s[i]
  BY DEF Longer
<1>2. /\ Len(f) <= Len(s) /\ \A i \in 1 .. Len(f) : mems[f[i]] = Framed(s[Len(s) - Len(f) + i])
  BY DEF Requests
<1>3. /\ Len(g) <= Len(q) /\ Len(q) - Len(g) = Len(s) - Len(f)
      /\ \A i \in 1 .. Len(g) : i \in 1 .. Len(f) \/ i = Len(f) + 1
  BY ONLY <1>1, <1>2, Len(f) \in Nat, Len(g) = Len(f) + 1
<1>4. ASSUME NEW i \in 1 .. Len(g) PROVE mems2[g[i]] = Framed(q[Len(q) - Len(g) + i])
  <2>1. CASE i \in 1 .. Len(f)
    <3>1. mems2[g[i]] = Framed(s[Len(s) - Len(f) + i])
      BY <1>2, <2>1
    <3>2. Len(s) - Len(f) + i \in 1 .. Len(s)
      BY ONLY <1>1, <1>2, <2>1, Len(f) \in Nat
    <3>3. q[Len(s) - Len(f) + i] = s[Len(s) - Len(f) + i]
      BY ONLY <1>1, <3>2
    <3> QED BY ONLY <1>3, <3>1, <3>3
  <2>2. CASE i = Len(f) + 1
    <3>1. Len(q) - Len(g) + i = Len(s) + 1
      BY ONLY <1>1, <1>3, <2>2, Len(f) \in Nat
    <3>2. g[i] = x
      BY <2>2
    <3> QED BY <1>1, <3>1, <3>2
  <2> QED BY <1>3, <2>1, <2>2
<1>5. Requests(w2, g, mems2, q)
  BY <1>3, <1>4 DEF Requests
<1> QED BY <1>3, <1>5

\* A new request.
LEMMA RequestsNew ==
  ASSUME NEW w, NEW f, NEW mems, NEW s, Requests(w, f, mems, s), NEW q, NEW m, Longer(q, s, m)
  PROVE  LET g == Append(f, Len(mems) + 1)
         IN  Requests(w, g, Append(mems, Framed(m)), q) /\ Len(q) - Len(g) = Len(s) - Len(f)
<1> DEFINE x == Len(mems) + 1
           g == Append(f, x)
           mems2 == Append(mems, Framed(m))
           B == 1 .. Len(mems)
           C == 1 .. Len(mems2)
<1>1. /\ mems \in Seq(Seq(Nat)) /\ w \in Seq(B) /\ f \in Seq(B) /\ Spread(w, f)
  BY DEF Requests
<1>2. Framed(m) \in Seq(Nat)
  BY FramedType DEF Longer
<1>3. /\ mems2 \in Seq(Seq(Nat)) /\ Len(mems2) = x /\ (\A i \in 1 .. Len(mems) : mems2[i] = mems[i])
      /\ mems2[x] = Framed(m) /\ Len(mems) \in Nat
  BY <1>1, <1>2, AppendProperties
<1> HIDE DEF mems2
<1>4. B \subseteq C /\ x \in C /\ x \notin B
  BY <1>3
<1> HIDE DEF x, B, C
<1>5. /\ \A i \in 1 .. Len(w) : w[i] \in B
      /\ \A i \in 1 .. Len(f) : f[i] \in B
  BY <1>1, ElementOfSeq
<1>6. w \in Seq(C) /\ f \in Seq(C)
  BY <1>1, <1>4, SeqMonotonic
<1>7. /\ \A i \in 1 .. Len(w) : w[i] # x
      /\ \A i \in 1 .. Len(f) : f[i] # x
  BY <1>4, <1>5
<1>8. /\ Spread(w, g) /\ g \in Seq(C) /\ Len(g) = Len(f) + 1
      /\ (\A i \in 1 .. Len(f) : g[i] = f[i]) /\ g[Len(f) + 1] = x
  BY <1>1, <1>4, <1>6, <1>7, SpreadMore
<1> HIDE DEF g
<1>9. \A i \in 1 .. Len(f) : g[i] = f[i] /\ mems2[f[i]] = mems[f[i]]
  BY <1>3, <1>5, <1>8 DEF B
<1>10. Len(f) \in Nat
  BY <1>1
<1>11. Requests(w, g, mems2, q) /\ Len(q) - Len(g) = Len(s) - Len(f)
  <2>1. SentWith(w, g, mems2, f, mems, x, m)
    BY <1>3, <1>6, <1>8, <1>9, <1>10 DEF C, SentWith
  <2> QED BY <2>1, RequestsSend
<1> QED BY <1>11 DEF g, mems2, x

\* The first free one.
LEMMA RequestsReuse ==
  ASSUME NEW w, NEW f, NEW mems, NEW s, Requests(w, f, mems, s), NEW q, NEW m, Longer(q, s, m),
         w # <<>>
  PROVE  LET g == Append(f, Head(w))
         IN  /\ Requests(Tail(w), g, [mems EXCEPT ![Head(w)] = Framed(m)], q)
             /\ Len(q) - Len(g) = Len(s) - Len(f)
<1> DEFINE x == Head(w)
           g == Append(f, x)
           mems2 == [mems EXCEPT ![x] = Framed(m)]
           B == 1 .. Len(mems)
<1>1. /\ mems \in Seq(Seq(Nat)) /\ w \in Seq(B) /\ f \in Seq(B) /\ Spread(w, f)
  BY DEF Requests
<1> HIDE DEF B
<1>2. Framed(m) \in Seq(Nat)
  BY FramedType DEF Longer
<1>3. x \in B
  BY <1>1, TailIs
<1>4. /\ Spread(Tail(w), g) /\ Tail(w) \in Seq(B) /\ g \in Seq(B) /\ Len(g) = Len(f) + 1
      /\ (\A i \in 1 .. Len(f) : g[i] = f[i] /\ f[i] # x) /\ g[Len(f) + 1] = x
  BY <1>1, SpreadMoves
<1> HIDE DEF x, g
<1>5. /\ mems2 \in Seq(Seq(Nat)) /\ Len(mems2) = Len(mems) /\ mems2[x] = Framed(m)
      /\ \A j \in B : j # x => mems2[j] = mems[j]
  <2>1. x \in 1 .. Len(mems)
    BY <1>3 DEF B
  <2>2. /\ mems2 \in Seq(Seq(Nat)) /\ Len(mems2) = Len(mems)
        /\ \A j \in 1 .. Len(mems) : mems2[j] = IF j = x THEN Framed(m) ELSE mems[j]
    BY <1>1, <1>2, <2>1, ExceptSeq
  <2> HIDE DEF mems2
  <2> QED BY <2>1, <2>2 DEF B
<1> HIDE DEF mems2
<1>6. \A i \in 1 .. Len(f) : f[i] \in B
  BY <1>1
<1>7. \A i \in 1 .. Len(f) : g[i] = f[i] /\ mems2[f[i]] = mems[f[i]]
  BY <1>4, <1>5, <1>6
<1>8. Len(f) \in Nat
  BY <1>1
<1>9. Tail(w) \in Seq(1 .. Len(mems2)) /\ g \in Seq(1 .. Len(mems2))
  BY <1>4, <1>5 DEF B
<1>10. Requests(Tail(w), g, mems2, q) /\ Len(q) - Len(g) = Len(s) - Len(f)
  <2>1. SentWith(Tail(w), g, mems2, f, mems, x, m)
    BY <1>4, <1>5, <1>7, <1>8, <1>9 DEF SentWith
  <2> QED BY <2>1, RequestsSend
<1> QED BY <1>10 DEF g, mems2, x

-----------------------------------------------------------------------------

LEMMA UnusedEmpty ==
  ASSUME NEW b, Unused(b)
  PROVE  Buf(b) /\ Content(b) = <<>> /\ Readable(b) = 0 /\ Writable(b) = RecvSize
<1>1. Buf(b) /\ b.r = CheapPrepend /\ b.w = CheapPrepend /\ Len(b.mem) = CheapPrepend + RecvSize
  BY DEF Unused
<1>2. CheapPrepend \in Nat /\ RecvSize \in Nat
  BY EventLinkAssumption
<1>3. Readable(b) = 0 /\ Writable(b) = RecvSize
  BY ONLY <1>1, <1>2 DEF Readable, Writable, MemSize
<1>4. b.w - b.r = 0
  BY ONLY <1>1, <1>2
<1>5. Content(b) \in Seq(Nat) /\ Len(Content(b)) = b.w - b.r
  BY <1>1, ContentType
<1>6. Content(b) = <<>>
  BY <1>4, <1>5
<1> QED BY <1>1, <1>3, <1>6

LEMMA NewUnused ==
  Unused(NewBuffer(RecvSize))
<1>1. CheapPrepend \in Nat /\ RecvSize \in Nat /\ CheapPrepend + RecvSize \in Nat
  BY EventLinkAssumption
<1>2. Buf(NewBuffer(RecvSize))
  BY <1>1, NewBufferType
<1>3. Len(Zeros(CheapPrepend + RecvSize)) = CheapPrepend + RecvSize
  BY <1>1, ZerosType
<1> QED BY <1>2, <1>3 DEF Unused, NewBuffer

LEMMA LinkBegins ==
  LinkInit => LinkInv
<1> SUFFICES ASSUME LinkInit PROVE LinkInv
  OBVIOUS
<1> DEFINE z == <<>>
<1>1. Unused(recvBuf) /\ Unused(clientBuf)
  BY NewUnused DEF LinkInit
<1>2. Buf(recvBuf) /\ Readable(recvBuf) = 0 /\ Content(clientBuf) = z /\ Buf(clientBuf)
  BY <1>1, UnusedEmpty
<1>3. Sent(z) /\ Came(z, z)
  BY <1>2, CarriedNothing
<1>4. z \in Seq(Seq(Nat)) /\ z \in Seq(1 .. Len(z)) /\ Len(z) = 0
  OBVIOUS
<1>5. /\ lib \in {"libevent", "libuv"} /\ linked = FALSE
      /\ sentUp = z /\ handledUp = z /\ sentDown = z /\ handledDown = z
      /\ writeList = z /\ flight = z /\ base = z
  BY DEF LinkInit
<1> HIDE DEF z
<1>6. Requests(z, z, z, z)
  BY <1>4 DEF Requests, Spread
<1>7. UpInv
  BY <1>2, <1>3, <1>5 DEF UpInv
<1>8. DownInv
  BY <1>1, <1>3, <1>5, <1>6 DEF DownInv, z
<1>9. Len(sentUp) + Len(sentDown) <= MaxMsgs
  BY <1>4, <1>5, EventLinkAssumption
<1> QED BY <1>5, <1>7, <1>8, <1>9 DEF LinkInv

LEMMA AcceptInv ==
  ASSUME LinkInv, Accept PROVE LinkInv'
<1> DEFINE z == <<>>
<1>1. /\ linked = FALSE /\ recvBuf' = NewBuffer(RecvSize)
      /\ up' = z /\ sentUp' = z /\ handledUp' = z
      /\ down' = z /\ sentDown' = z /\ handledDown' = z
      /\ lib' = lib /\ clientBuf' = clientBuf /\ writeList' = writeList /\ flight' = flight
      /\ base' = base
  BY DEF Accept, writeVars
<1>2. /\ lib \in {"libevent", "libuv"} /\ Unused(clientBuf) /\ flight = z
      /\ Requests(writeList, flight, base, sentDown)
  BY <1>1 DEF LinkInv, DownInv
<1>3. Unused(recvBuf')
  BY <1>1, NewUnused
<1>4. Buf(recvBuf') /\ Readable(recvBuf') = 0 /\ Content(recvBuf') = z
  BY <1>3, UnusedEmpty
<1>5. Carried(recvBuf', z, z, 0, 0) /\ Sent(z) /\ Came(z, z)
  BY <1>4, CarriedNothing
<1>6. Carried(clientBuf, z, z, 0, 0)
  BY <1>2, UnusedEmpty, CarriedNothing
<1>7. Len(z) = 0 /\ Len(z) - Len(z) = 0
  OBVIOUS
<1>8. UpInv'
  BY <1>1, <1>4, <1>5, <1>7 DEF UpInv
<1>9. Requests(writeList, z, base, z)
  <2>1. /\ base \in Seq(Seq(Nat)) /\ writeList \in Seq(1 .. Len(base)) /\ z \in Seq(1 .. Len(base))
        /\ Spread(writeList, z)
    BY <1>2 DEF Requests
  <2> QED BY <1>7, <2>1 DEF Requests
<1>10. DownInv'
  BY <1>1, <1>2, <1>5, <1>6, <1>7, <1>9 DEF DownInv
<1>11. Len(sentUp') + Len(sentDown') <= MaxMsgs
  BY <1>1, <1>7, EventLinkAssumption
<1> QED BY <1>1, <1>2, <1>8, <1>10, <1>11 DEF LinkInv

LEMMA CloseLinkInv ==
  ASSUME LinkInv, CloseLink PROVE LinkInv'
<1>1. /\ linked' = FALSE /\ recvBuf' = Cleared(recvBuf)
      /\ writeList' = writeList \o flight /\ flight' = <<>>
      /\ lib' = lib /\ sentUp' = sentUp /\ handledUp' = handledUp
      /\ down' = down /\ sentDown' = sentDown /\ handledDown' = handledDown
      /\ clientBuf' = clientBuf /\ base' = base
  BY DEF CloseLink, downVars
<1>2. /\ lib \in {"libevent", "libuv"} /\ Sent(sentUp) /\ Came(handledUp, sentUp) /\ Buf(recvBuf)
      /\ Sent(sentDown) /\ Came(handledDown, sentDown) /\ Unused(clientBuf)
      /\ Requests(writeList, flight, base, sentDown)
      /\ Len(sentUp) + Len(sentDown) <= MaxMsgs
  BY DEF LinkInv, UpInv, DownInv
<1>3. Buf(recvBuf') /\ Readable(recvBuf') = 0
  <2>1. Buf(Cleared(recvBuf))
    BY <1>2, ClearedEmpty
  <2>2. CheapPrepend \in Nat /\ CheapPrepend - CheapPrepend = 0
    BY EventLinkAssumption
  <2>3. recvBuf \in [mem : Seq(Nat), r : Nat, w : Nat]
    BY <1>2 DEF Buf
  <2>4. Cleared(recvBuf).w = CheapPrepend /\ Cleared(recvBuf).r = CheapPrepend
    BY ONLY <2>3 DEF Cleared
  <2> QED BY <1>1, <2>1, <2>2, <2>4 DEF Readable
<1>4. UpInv'
  BY <1>1, <1>2, <1>3 DEF UpInv
<1>5. Len(sentDown) \in Nat
  BY <1>2 DEF Sent
<1>6. Requests(writeList', flight', base', sentDown')
  BY <1>1, <1>2, <1>5, RequestsClose
<1>7. DownInv'
  BY <1>1, <1>2, <1>6 DEF DownInv
<1> QED BY <1>1, <1>2, <1>4, <1>7 DEF LinkInv

\* A message more on one way: within the bound, and what was handled is still of it.
LEMMA ClientSendMsgInv ==
  ASSUME LinkInv, NEW size \in BodySizes, ClientSendMsg(size) PROVE LinkInv'
<1> DEFINE n == Len(sentUp)
           m == Body(n + 1, size)
           q == Append(sentUp, m)
<1>1. /\ linked /\ n + Len(sentDown) < MaxMsgs /\ sentUp' = q /\ up' = up \o Framed(m)
      /\ lib' = lib /\ linked' = linked /\ handledUp' = handledUp /\ recvBuf' = recvBuf
      /\ down' = down /\ sentDown' = sentDown /\ handledDown' = handledDown
      /\ clientBuf' = clientBuf /\ writeList' = writeList /\ flight' = flight /\ base' = base
  BY DEF ClientSendMsg, MoreMsgs, downVars, writeVars
<1>2. /\ lib \in {"libevent", "libuv"} /\ UpInv /\ DownInv
      /\ Sent(sentUp) /\ Came(handledUp, sentUp) /\ Buf(recvBuf)
      /\ (lib = "libuv" => Readable(recvBuf) = 0)
      /\ Carried(recvBuf, up, sentUp, Len(handledUp), n)
      /\ Sent(sentDown)
  BY <1>1 DEF LinkInv, UpInv, DownInv
<1>3. /\ Sent(q) /\ m \in Seq(Nat) /\ Len(q) = n + 1 /\ q[n + 1] = m
      /\ \A handled : Came(handled, sentUp) => Came(handled, q)
  BY <1>2, SentMore
<1>4. n \in Nat /\ Len(sentDown) \in Nat /\ MaxMsgs \in Nat
  BY <1>2, EventLinkAssumption DEF Sent
<1> HIDE DEF m
<1>5. n < MaxMsgs /\ Len(q) + Len(sentDown) <= MaxMsgs /\ n < Len(q)
  <2> HIDE DEF q, n
  <2> QED BY ONLY <1>1, <1>3, <1>4
<1>6. Carried(recvBuf, up, q, Len(handledUp), n)
  BY <1>2, <1>3, <1>5, CarriedStill
<1> HIDE DEF q
<1>7. Carried(recvBuf, up \o Framed(m), q, Len(handledUp), n + 1)
  BY <1>3, <1>5, <1>6, CarriedFurther
<1>8. UpInv'
  BY <1>1, <1>2, <1>3, <1>7 DEF UpInv
<1>9. DownInv'
  BY <1>1, <1>2 DEF DownInv
<1> QED BY <1>1, <1>2, <1>5, <1>8, <1>9 DEF LinkInv

LEMMA SendLibeventInv ==
  ASSUME LinkInv, NEW size \in BodySizes, SendLibevent(size) PROVE LinkInv'
<1> DEFINE n == Len(sentDown)
           m == Body(n + 1, size)
           q == Append(sentDown, m)
<1>1. /\ lib = "libevent" /\ linked /\ Len(sentUp) + n < MaxMsgs /\ sentDown' = q /\ down' = down \o Framed(m)
      /\ lib' = lib /\ linked' = linked /\ handledUp' = handledUp /\ recvBuf' = recvBuf
      /\ up' = up /\ sentUp' = sentUp /\ handledDown' = handledDown
      /\ clientBuf' = clientBuf /\ writeList' = writeList /\ flight' = flight /\ base' = base
  BY DEF SendLibevent, Sending, NextDown, MoreMsgs, upVars, writeVars
<1>2. /\ UpInv /\ Sent(sentUp)
      /\ Sent(sentDown) /\ Came(handledDown, sentDown) /\ Unused(clientBuf)
      /\ Requests(writeList, flight, base, sentDown) /\ flight = <<>>
      /\ Carried(clientBuf, down, sentDown, Len(handledDown), n - Len(flight))
  BY <1>1 DEF LinkInv, UpInv, DownInv
<1>3. /\ Sent(q) /\ m \in Seq(Nat) /\ Len(q) = n + 1 /\ q[n + 1] = m
      /\ \A handled : Came(handled, sentDown) => Came(handled, q)
  BY <1>2, SentMore
<1>4. n \in Nat /\ Len(sentUp) \in Nat /\ MaxMsgs \in Nat /\ Len(flight) = 0
  BY <1>2, EventLinkAssumption DEF Sent
<1> HIDE DEF m
<1>5. n < MaxMsgs /\ Len(sentUp) + Len(q) <= MaxMsgs /\ n < Len(q) /\ n - Len(flight) = n
      /\ Len(q) - Len(flight) = n + 1 /\ Len(flight) <= Len(q)
  <2> HIDE DEF q, n
  <2> QED BY ONLY <1>1, <1>3, <1>4
<1>6. Carried(clientBuf, down, q, Len(handledDown), n)
  BY <1>2, <1>3, <1>5, CarriedStill
<1> HIDE DEF q
<1>7. Carried(clientBuf, down \o Framed(m), q, Len(handledDown), n + 1)
  BY <1>3, <1>5, <1>6, CarriedFurther
<1>8. Requests(writeList, flight, base, q)
  <2>1. \A i \in 1 .. Len(flight) : base[flight[i]] = Framed(q[Len(q) - Len(flight) + i])
    BY <1>4
  <2> QED BY <1>2, <1>5, <2>1 DEF Requests
<1>9. DownInv'
  BY <1>1, <1>2, <1>3, <1>5, <1>7, <1>8 DEF DownInv
<1>10. UpInv'
  BY <1>1, <1>2 DEF UpInv
<1> QED BY <1>1, <1>5, <1>9, <1>10 DEF LinkInv

LEMMA SendLibuvInv ==
  ASSUME LinkInv, NEW size \in BodySizes, SendLibuv(size) PROVE LinkInv'
<1> DEFINE n == Len(sentDown)
           m == Body(n + 1, size)
           q == Append(sentDown, m)
<1>1. /\ lib = "libuv" /\ linked /\ Len(sentUp) + n < MaxMsgs /\ sentDown' = q /\ down' = down
      /\ lib' = lib /\ linked' = linked /\ handledUp' = handledUp /\ recvBuf' = recvBuf
      /\ up' = up /\ sentUp' = sentUp /\ handledDown' = handledDown /\ clientBuf' = clientBuf
      /\ IF writeList = <<>>
         THEN /\ base' = Append(base, Framed(m)) /\ flight' = Append(flight, Len(base'))
              /\ writeList' = writeList
         ELSE /\ base' = [base EXCEPT ![Head(writeList)] = Framed(m)]
              /\ flight' = Append(flight, Head(writeList)) /\ writeList' = Tail(writeList)
  BY DEF SendLibuv, Sending, NextDown, MoreMsgs, upVars
<1>2. /\ UpInv /\ Sent(sentUp)
      /\ Sent(sentDown) /\ Came(handledDown, sentDown) /\ Unused(clientBuf)
      /\ Requests(writeList, flight, base, sentDown)
      /\ Carried(clientBuf, down, sentDown, Len(handledDown), n - Len(flight))
  BY <1>1 DEF LinkInv, UpInv, DownInv
<1>3. /\ Sent(q) /\ m \in Seq(Nat) /\ Len(q) = n + 1 /\ q[n + 1] = m
      /\ (\A i \in 1 .. n : q[i] = sentDown[i])
      /\ \A handled : Came(handled, sentDown) => Came(handled, q)
  BY <1>2, SentMore
<1>4. n \in Nat /\ Len(sentUp) \in Nat /\ MaxMsgs \in Nat
  BY <1>2, EventLinkAssumption DEF Sent
<1> HIDE DEF m
<1>5. n < MaxMsgs /\ Len(sentUp) + Len(q) <= MaxMsgs
  <2> HIDE DEF q, n
  <2> QED BY ONLY <1>1, <1>3, <1>4
<1>6. Carried(clientBuf, down, q, Len(handledDown), n - Len(flight))
  BY <1>2, <1>3, <1>5, CarriedStill
<1> HIDE DEF q
<1>7. Longer(q, sentDown, m)
  BY <1>3, <1>4 DEF Longer
<1>8. Requests(writeList', flight', base', q) /\ Len(q) - Len(flight') = n - Len(flight)
  <2>1. CASE writeList = <<>>
    <3>1. Len(base') = Len(base) + 1
      <4>1. base \in Seq(Seq(Nat)) /\ Framed(m) \in Seq(Nat)
        BY <1>2, <1>3, FramedType DEF Requests
      <4> QED BY <1>1, <2>1, <4>1, AppendProperties
    <3>2. /\ writeList' = writeList /\ flight' = Append(flight, Len(base) + 1)
          /\ base' = Append(base, Framed(m))
      BY <1>1, <2>1, <3>1
    <3> QED BY <1>2, <1>7, <3>2, RequestsNew
  <2>2. CASE writeList # <<>>
    <3> DEFINE g == Append(flight, Head(writeList))
               b == [base EXCEPT ![Head(writeList)] = Framed(m)]
               w == Tail(writeList)
    <3>1. Requests(w, g, b, q) /\ Len(q) - Len(g) = Len(sentDown) - Len(flight)
      BY ONLY <1>2, <1>7, <2>2, RequestsReuse
    <3>2. writeList' = w /\ flight' = g /\ base' = b
      BY <1>1, <2>2
    <3> HIDE DEF w, g, b
    <3> QED BY <3>1, <3>2
  <2> QED BY <2>1, <2>2
<1>9. DownInv'
  BY <1>1, <1>2, <1>3, <1>6, <1>8 DEF DownInv
<1>10. UpInv'
  BY <1>1, <1>2 DEF UpInv
<1> QED BY <1>1, <1>5, <1>9, <1>10 DEF LinkInv

LEMMA AfterWriteInv ==
  ASSUME LinkInv, AfterWrite PROVE LinkInv'
<1> DEFINE n == Len(sentDown)
           F == Len(flight)
           t == n - F
<1>1. /\ flight # <<>> /\ flight' = Tail(flight) /\ writeList' = Append(writeList, Head(flight))
      /\ down' = down \o base[Head(flight)]
      /\ lib' = lib /\ linked' = linked /\ handledUp' = handledUp /\ recvBuf' = recvBuf
      /\ up' = up /\ sentUp' = sentUp /\ sentDown' = sentDown /\ handledDown' = handledDown
      /\ clientBuf' = clientBuf /\ base' = base
  BY DEF AfterWrite, upVars
<1>2. /\ lib \in {"libevent", "libuv"} /\ UpInv /\ Len(sentUp) + Len(sentDown) <= MaxMsgs
      /\ Sent(sentDown) /\ Came(handledDown, sentDown) /\ Unused(clientBuf)
      /\ Requests(writeList, flight, base, sentDown) /\ ~ (lib = "libevent" \/ ~linked)
      /\ (linked => Carried(clientBuf, down, sentDown, Len(handledDown), t))
  BY <1>1 DEF LinkInv, DownInv
<1>3. n \in Nat
  BY <1>2 DEF Sent
<1>4. /\ Requests(writeList', flight', base', sentDown')
      /\ F \in Nat /\ F >= 1 /\ F <= n /\ Len(flight') = F - 1
      /\ base[Head(flight)] = Framed(sentDown[n - F + 1])
  BY <1>1, <1>2, <1>3, RequestsDone
<1>5. t < n /\ n - (F - 1) = t + 1
  BY ONLY <1>3, <1>4
<1>6. Carried(clientBuf, down \o Framed(sentDown[t + 1]), sentDown, Len(handledDown), t + 1)
  BY <1>2, <1>5, CarriedFurther
<1>7. DownInv'
  BY <1>1, <1>2, <1>4, <1>5, <1>6 DEF DownInv
<1>8. UpInv'
  BY <1>1, <1>2 DEF UpInv
<1> QED BY <1>1, <1>2, <1>7, <1>8 DEF LinkInv

\* What a callback does to its way.
LEMMA ReadStep ==
  ASSUME NEW b, NEW s, NEW e, NEW msgs, NEW handled, NEW t, NEW n, NEW M, NEW move,
         Callback(b, s, e, msgs, Len(handled), t, n, M, move), Came(handled, msgs)
  PROVE  LET x == Packs(Received(b, SubSeq(s, 1, n)), b.r, move)
             z == SubSeq(s, n + 1, Len(s))
             k == handled \o x.msgs
         IN  /\ Passed(x, e, msgs, z, Len(handled), t, M, Len(b.mem)) /\ (M # {} => Readable(x.b) = 0)
             /\ Came(k, msgs) /\ Carried(x.b, z, msgs, Len(k), t)
<1> DEFINE x == Packs(Received(b, SubSeq(s, 1, n)), b.r, move)
           z == SubSeq(s, n + 1, Len(s))
           k == handled \o x.msgs
           h == Len(handled)
           size == Len(b.mem)
<1>1. Passed(x, e, msgs, z, h, t, M, size) /\ (M # {} => Readable(x.b) = 0)
  BY ReadKeeps
<1>2. /\ msgs \in Seq(Seq(Nat)) /\ Len(msgs) <= MaxMsgs /\ Ends(e, msgs) /\ s \in Seq(Nat) /\ n \in 1 .. Len(s)
  BY DEF Callback, Reading
<1>3. z \in Seq(Nat)
  <2>1. n \in 0 .. Len(s)
    BY <1>2
  <2> QED BY <1>2, <2>1, SplitAt
<1> HIDE DEF x, z, h, size
<1>4. h = Len(handled)
  BY DEF h
<1>5. Came(k, msgs) /\ Reading(x.b, z, e, msgs, Len(k), t)
  BY <1>1, <1>2, <1>3, <1>4, ReadLeaves
<1>6. Carried(x.b, z, msgs, Len(k), t)
  BY <1>5 DEF Carried
<1> QED BY <1>1, <1>5, <1>6 DEF x, z, h, size

LEMMA ReadLibeventInv ==
  ASSUME LinkInv, NEW n \in 1 .. Len(up), ReadLibevent(n) PROVE LinkInv'
<1> DEFINE x == Packs(Received(recvBuf, SubSeq(up, 1, n)), recvBuf.r, 0)
           z == SubSeq(up, n + 1, Len(up))
           k == handledUp \o x.msgs
           M == {}
<1>1. /\ lib = "libevent" /\ linked /\ n <= Writable(recvBuf) /\ recvBuf' = x.b /\ handledUp' = k /\ up' = z
      /\ lib' = lib /\ linked' = linked /\ sentUp' = sentUp
      /\ down' = down /\ sentDown' = sentDown /\ handledDown' = handledDown
      /\ clientBuf' = clientBuf /\ writeList' = writeList /\ flight' = flight /\ base' = base
  BY DEF ReadLibevent, Handled, downVars, writeVars
<1>2. /\ DownInv /\ Sent(sentUp) /\ Came(handledUp, sentUp) /\ Len(sentUp) + Len(sentDown) <= MaxMsgs
      /\ Carried(recvBuf, up, sentUp, Len(handledUp), Len(sentUp))
  BY <1>1 DEF LinkInv, UpInv
<1>3. PICK e : Reading(recvBuf, up, e, sentUp, Len(handledUp), Len(sentUp))
  BY <1>2 DEF Carried
<1>4. Callback(recvBuf, up, e, sentUp, Len(handledUp), Len(sentUp), n, M, 0)
  BY <1>1, <1>3 DEF Callback, Ending, Marks, Moves
<1> HIDE DEF M
<1>5. /\ Came(k, sentUp) /\ Carried(x.b, z, sentUp, Len(k), Len(sentUp))
      /\ Passed(x, e, sentUp, z, Len(handledUp), Len(sentUp), M, Len(recvBuf.mem))
  BY <1>2, <1>4, ReadStep
<1> HIDE DEF x, z, k
<1>6. Buf(x.b)
  BY <1>5 DEF Passed
<1>7. UpInv'
  BY <1>1, <1>2, <1>5, <1>6 DEF UpInv
<1>8. DownInv'
  BY <1>1, <1>2 DEF DownInv
<1> QED BY <1>1, <1>2, <1>7, <1>8 DEF LinkInv

LEMMA ReadLibuvInv ==
  ASSUME ~AnyCut, LinkInv, NEW n \in 1 .. Len(up), ReadLibuv(n) PROVE LinkInv'
<1> DEFINE b == MakeSpace(recvBuf, 1)
           x == Packs(Received(b, SubSeq(up, 1, n)), b.w, 0)
           z == SubSeq(up, n + 1, Len(up))
           k == handledUp \o x.msgs
<1>1. /\ lib = "libuv" /\ linked /\ n \in WholeFrames(up) /\ n <= Writable(b)
      /\ recvBuf' = x.b /\ handledUp' = k /\ up' = z
      /\ lib' = lib /\ linked' = linked /\ sentUp' = sentUp
      /\ down' = down /\ sentDown' = sentDown /\ handledDown' = handledDown
      /\ clientBuf' = clientBuf /\ writeList' = writeList /\ flight' = flight /\ base' = base
  BY DEF ReadLibuv, Handled, downVars, writeVars
<1>2. /\ DownInv /\ Sent(sentUp) /\ Came(handledUp, sentUp) /\ Len(sentUp) + Len(sentDown) <= MaxMsgs
      /\ Carried(recvBuf, up, sentUp, Len(handledUp), Len(sentUp)) /\ Buf(recvBuf) /\ Readable(recvBuf) = 0
  BY <1>1 DEF LinkInv, UpInv
<1>3. Buf(b) /\ Content(b) = Content(recvBuf)
  BY <1>2, MakeSpaceKeeps
<1> HIDE DEF b
<1>4. b.w = b.r /\ Readable(b) = 0 /\ Content(b) = <<>>
  <2>1. /\ Content(recvBuf) \in Seq(Nat) /\ Len(Content(recvBuf)) = Readable(recvBuf)
        /\ Len(Content(b)) = b.w - b.r
    BY <1>2, <1>3, ContentType DEF Readable
  <2>2. Content(recvBuf) = <<>>
    BY <1>2, <2>1
  <2>3. b.w \in Nat /\ b.r \in Nat /\ b.w - b.r = 0
    BY <1>2, <1>3, <2>1 DEF Buf
  <2>4. b.w = b.r
    BY ONLY <2>3
  <2> QED BY <1>3, <2>2, <2>3, <2>4 DEF Readable
<1>5. PICK e : Reading(recvBuf, up, e, sentUp, Len(handledUp), Len(sentUp))
  BY <1>2 DEF Carried
<1>6. /\ Ends(e, sentUp) /\ up \in Seq(Nat) /\ sentUp \in Seq(Seq(Nat))
      /\ FramedIn(e, Content(b) \o up, sentUp, Len(handledUp), Len(sentUp))
      /\ Reading(b, up, e, sentUp, Len(handledUp), Len(sentUp))
  BY <1>3, <1>5 DEF Reading
<1>7. Content(b) \o up = up
  BY <1>4, <1>6, ConcatEmptySeq
<1>8. PICK m \in 0 .. Len(sentUp) : Len(handledUp) <= m /\ n = e[m] - e[Len(handledUp)]
  BY <1>1, <1>2, <1>6, <1>7, FrameEnd
<1> DEFINE M == {m}
<1>9. Ending(M, b, n, e, sentUp, Len(handledUp))
  <2>1. m \in Nat /\ m <= Len(sentUp)
    OBVIOUS
  <2>2. 0 + n = n
    OBVIOUS
  <2> QED BY <1>4, <1>8, <2>1, <2>2 DEF Ending, Marks
<1>10. M # {}
  OBVIOUS
<1> HIDE DEF M
<1>11. Callback(b, up, e, sentUp, Len(handledUp), Len(sentUp), n, M, 0)
  BY <1>1, <1>6, <1>9 DEF Callback, Moves
<1>12. x = Packs(Received(b, SubSeq(up, 1, n)), b.r, 0)
  BY <1>4
<1> HIDE DEF x
<1>13. /\ Came(k, sentUp) /\ Carried(x.b, z, sentUp, Len(k), Len(sentUp))
       /\ Passed(x, e, sentUp, z, Len(handledUp), Len(sentUp), M, Len(b.mem))
       /\ Readable(x.b) = 0
  BY SMTT(30), <1>2, <1>10, <1>11, <1>12, ReadStep
<1> HIDE DEF z, k
<1>14. Buf(x.b)
  BY <1>13 DEF Passed
<1>15. UpInv'
  BY <1>1, <1>2, <1>13, <1>14 DEF UpInv
<1>16. DownInv'
  BY <1>1, <1>2 DEF DownInv
<1> QED BY <1>1, <1>2, <1>15, <1>16 DEF LinkInv

LEMMA ClientReadInv ==
  ASSUME ~AnyCut, LinkInv, NEW piece \in 1 .. Len(down), ClientRead(piece) PROVE LinkInv'
<1> DEFINE n == Head(down) + 2
           h == Len(handledDown)
           t == Len(sentDown) - Len(flight)
           x == Packs(Received(clientBuf, SubSeq(down, 1, n)), clientBuf.r, n)
           z == SubSeq(down, n + 1, Len(down))
           k == handledDown \o x.msgs
<1>0. piece = n
  BY DEF ClientRead
<1>1. /\ linked
      /\ LET b == MakeSpace(clientBuf, 1)
             y == Packs(Received(b, SubSeq(down, 1, n)), b.r, n)
         IN  clientBuf' = y.b /\ handledDown' = handledDown \o y.msgs /\ down' = z
      /\ lib' = lib /\ linked' = linked /\ sentDown' = sentDown
      /\ up' = up /\ sentUp' = sentUp /\ handledUp' = handledUp /\ recvBuf' = recvBuf
      /\ writeList' = writeList /\ flight' = flight /\ base' = base
  <2> HIDE DEF n
  <2> QED BY <1>0 DEF ClientRead, upVars, writeVars
<1>2. /\ UpInv /\ Sent(sentDown) /\ Came(handledDown, sentDown) /\ Unused(clientBuf)
      /\ Requests(writeList, flight, base, sentDown)
      /\ (lib = "libevent" \/ ~linked => flight = <<>>)
      /\ Carried(clientBuf, down, sentDown, h, t)
      /\ lib \in {"libevent", "libuv"} /\ Len(sentUp) + Len(sentDown) <= MaxMsgs
  BY <1>1 DEF LinkInv, DownInv
<1>3. Buf(clientBuf) /\ Content(clientBuf) = <<>> /\ Readable(clientBuf) = 0 /\ Writable(clientBuf) = RecvSize
  BY <1>2, UnusedEmpty
<1>4. PICK e : Reading(clientBuf, down, e, sentDown, h, t)
  BY <1>2 DEF Carried
<1>5. /\ Ends(e, sentDown) /\ down \in Seq(Nat) /\ sentDown \in Seq(Seq(Nat))
      /\ FramedIn(e, Content(clientBuf) \o down, sentDown, h, t)
  BY <1>4 DEF Reading
<1>6. FramedIn(e, down, sentDown, h, t)
  BY <1>3, <1>5, ConcatEmptySeq
<1>7. Len(down) > 0 /\ Head(down) = down[1]
  <2>1. Len(down) > 0
    <3>1. Len(down) \in Nat
      BY <1>5
    <3> QED BY ONLY <3>1, piece \in 1 .. Len(down)
  <2>2. Head(down) = down[1]
    BY <1>5, <2>1
  <2> QED BY <2>1, <2>2
<1>8. /\ h < t /\ h + 1 \in 1 .. Len(sentDown) /\ sentDown[h + 1] \in Seq(Nat)
      /\ down[1] = Len(sentDown[h + 1]) /\ Len(down) >= Len(sentDown[h + 1]) + 2
      /\ e[h + 1] = e[h] + 2 + Len(sentDown[h + 1]) /\ e[h] \in Nat
  BY SMTT(30), <1>5, <1>6, <1>7, FrameFirst
<1> DEFINE g == h + 1
           l == Len(sentDown[g])
           M == {g}
<1>9. /\ g \in 1 .. Len(sentDown) /\ g \in Nat /\ g <= Len(sentDown) /\ h \in Nat /\ h <= g /\ l \in Nat /\ n = l + 2
      /\ e[g] = e[h] + 2 + l /\ e[h] \in Nat /\ n <= Len(down) /\ Len(down) \in Nat
  <2>1. l \in Nat /\ n = l + 2 /\ n <= Len(down) /\ Len(down) \in Nat /\ e[g] = e[h] + 2 + l
    <3>1. l \in Nat /\ Len(down) \in Nat
      <4>1. sentDown[g] \in Seq(Nat) /\ down \in Seq(Nat)
        BY <1>5, <1>8
      <4> QED BY ONLY <4>1, LenProperties
    <3>2. Head(down) = l /\ Len(down) >= l + 2 /\ e[g] = e[h] + 2 + l
      BY <1>7, <1>8
    <3>3. n = l + 2
      BY <3>2
    <3> HIDE DEF l, n, g, h
    <3>4. n <= Len(down)
      BY ONLY <3>1, <3>2, <3>3
    <3> QED BY <3>1, <3>2, <3>3, <3>4
  <2>2. h \in Nat
    BY <1>2 DEF Came
  <2>3. g \in 1 .. Len(sentDown) /\ Len(sentDown) \in Nat
    BY <1>5, <1>8
  <2>4. g = h + 1
    OBVIOUS
  <2> HIDE DEF g, h
  <2>5. g \in Nat /\ g <= Len(sentDown) /\ h <= g
    BY ONLY <2>2, <2>3, <2>4
  <2> QED BY <1>8, <2>1, <2>2, <2>3, <2>5 DEF g
<1>10. n <= RecvSize /\ RecvSize >= 1
  <2>1. PICK size \in BodySizes : sentDown[g] = Body(g, size)
    BY <1>2, <1>9 DEF Sent
  <2>2. Len(Body(g, size)) = size /\ size + 2 <= RecvSize /\ RecvSize \in Nat
    BY <1>9, BodyType
  <2>3. l = size
    BY <2>1, <2>2
  <2> HIDE DEF l, n, g
  <2> QED BY ONLY <1>9, <2>2, <2>3
<1>11. MakeSpace(clientBuf, 1) = clientBuf
  BY <1>3, <1>10 DEF MakeSpace
<1>12. clientBuf' = x.b /\ handledDown' = k /\ down' = z
  <2> HIDE DEF n, z
  <2> QED BY ONLY <1>1, <1>11
<1> HIDE DEF n, l, h, t, g
<1>13. n \in 1 .. Len(down) /\ n = e[g] - e[h]
  BY ONLY <1>9
<1>14. Ending(M, clientBuf, n, e, sentDown, h)
  <2>1. 0 + n = n
    BY <1>13
  <2> QED BY <1>3, <1>9, <1>13, <2>1 DEF Ending, Marks
<1>15. Moves(n, e, h, M)
  <2>1. h + 1 \in M
    BY DEF g
  <2>2. n = e[h + 1] - e[h]
    BY <1>13 DEF g
  <2> QED BY <2>1, <2>2 DEF Moves
<1>16. M # {}
  OBVIOUS
<1>17. g \in M
  OBVIOUS
<1> HIDE DEF M
<1>18. Callback(clientBuf, down, e, sentDown, h, t, n, M, n)
  BY <1>3, <1>4, <1>10, <1>13, <1>14, <1>15 DEF Callback
<1>19. /\ Came(k, sentDown) /\ Carried(x.b, z, sentDown, Len(k), t)
       /\ Passed(x, e, sentDown, z, h, t, M, Len(clientBuf.mem)) /\ Readable(x.b) = 0
  BY <1>2, <1>16, <1>18, ReadStep DEF h
<1> HIDE DEF x, z, k
<1>20. Unused(x.b)
  <2>1. /\ x \in PassStates /\ Buf(x.b) /\ Len(x.b.mem) = Len(clientBuf.mem)
        /\ (Readable(x.b) = 0 /\ Len(x.msgs) > 0 => x.b.r = CheapPrepend /\ x.b.w = CheapPrepend)
        /\ Readable(x.b) = e[g] - e[h + Len(x.msgs)]
    BY <1>17, <1>19 DEF Passed
  <2>2. Len(x.msgs) \in Nat
    <3>1. x.msgs \in Seq(Seq(Nat))
      BY <2>1 DEF PassStates
    <3> QED BY <3>1
  <2>3. Len(x.msgs) # 0
    <3> SUFFICES ASSUME Len(x.msgs) = 0 PROVE FALSE
      OBVIOUS
    <3>1. h + Len(x.msgs) = h
      BY <1>9
    <3>2. e[g] - e[h] = 0
      BY <1>19, <2>1, <3>1
    <3> QED BY ONLY <1>9, <3>2
  <2>4. Len(x.msgs) > 0
    BY ONLY <2>2, <2>3
  <2>5. Len(clientBuf.mem) = CheapPrepend + RecvSize
    BY <1>2 DEF Unused
  <2> QED BY <1>19, <2>1, <2>4, <2>5 DEF Unused
<1>21. DownInv'
  BY <1>1, <1>2, <1>12, <1>19, <1>20 DEF DownInv, t
<1>22. UpInv'
  BY <1>1, <1>2 DEF UpInv
<1> QED BY <1>1, <1>2, <1>21, <1>22 DEF LinkInv

LEMMA LinkKept ==
  ASSUME ~AnyCut, LinkInv, [LinkNext]_linkVars PROVE LinkInv'
<1>1. CASE UNCHANGED linkVars
  BY <1>1 DEF LinkInv, UpInv, DownInv, linkVars, upVars, downVars, writeVars
<1>2. CASE Accept
  BY <1>2, AcceptInv
<1>3. CASE CloseLink
  BY <1>3, CloseLinkInv
<1>4. ASSUME NEW size \in BodySizes, ClientSendMsg(size) PROVE LinkInv'
  BY <1>4, ClientSendMsgInv
<1>5. ASSUME NEW size \in BodySizes, SendLibevent(size) PROVE LinkInv'
  BY <1>5, SendLibeventInv
<1>6. ASSUME NEW size \in BodySizes, SendLibuv(size) PROVE LinkInv'
  BY <1>6, SendLibuvInv
<1>7. ASSUME NEW n \in 1 .. Len(up), ReadLibevent(n) PROVE LinkInv'
  BY <1>7, ReadLibeventInv
<1>8. ASSUME NEW n \in 1 .. Len(up), ReadLibuv(n) PROVE LinkInv'
  BY <1>8, ReadLibuvInv
<1>9. CASE AfterWrite
  BY <1>9, AfterWriteInv
<1>10. ASSUME NEW n \in 1 .. Len(down), ClientRead(n) PROVE LinkInv'
  BY <1>10, ClientReadInv
<1> QED BY <1>1, <1>2, <1>3, <1>4, <1>5, <1>6, <1>7, <1>8, <1>9, <1>10 DEF LinkNext

\* The inductive invariant: on each way, the buffer and the stream hold the frames of the
\* messages not handled yet, and libuv's requests carry the ones sent last, each in one place.
\* The server of libevent gets the stream in any pieces; libuv's server gets whole messages and
\* libevent's client one message at a time (~AnyCut), as their callbacks need.
THEOREM LinkInvariant == ASSUME ~AnyCut PROVE LinkSpec => []LinkInv
<1>1. LinkInv /\ [LinkNext]_linkVars => LinkInv'
  BY LinkKept
<1> QED BY <1>1, LinkBegins, PTL DEF LinkSpec

\* For bodies of up to 255 bytes, buffers of any size and any number of links: libevent's server
\* (cb_conn_read) handles what its clients send, whole and in order, wherever the stream is cut.
\* libuv's server (after_read) does so for pieces of whole messages, and libevent's client for
\* one message a piece, which is all that ~AnyCut gives them and less than TCP does. No write
\* request is used while it is under way.
THEOREM LinkMessagesInOrder == ASSUME ~AnyCut PROVE LinkSpec => []LinkInOrder
<1>1. LinkInv => LinkInOrder
  <2> SUFFICES ASSUME LinkInv PROVE LinkInOrder
    OBVIOUS
  <2>1. /\ Sent(sentUp) /\ Came(handledUp, sentUp) /\ Sent(sentDown) /\ Came(handledDown, sentDown)
        /\ Requests(writeList, flight, base, sentDown)
    BY DEF LinkInv, UpInv, DownInv
  <2>2. IsPrefix(handledUp, sentUp) /\ IsPrefix(handledDown, sentDown)
    BY <2>1, CamePrefix DEF Sent
  <2>3. IsInjective(writeList \o flight)
    BY <2>1, SpreadInjective DEF Requests
  <2> QED BY <2>2, <2>3 DEF LinkInOrder, UpInOrder, DownInOrder
<1> QED BY <1>1, LinkInvariant, PTL
====
