----------------------------- MODULE SharedPtr -----------------------------
(***************************************************************************)
(* cr::shared_ptr and weak_ptr: the counts of a block, and who holds what. *)
(* shared_ptr.h hands pointers on by moves only; shared_ptr_move_only.h    *)
(* copies them in casts and makes them of weak pointers. Every object has  *)
(* a pointer and a weak pointer as members and is perhaps an               *)
(* enable_shared_from_this. A destructor is a series of steps and may run  *)
(* others, on a stack; in its body the object's code may use any pointer.  *)
(***************************************************************************)
EXTENDS Naturals, Sequences, FiniteSets, FiniteSetsExt, SequencesExt

CONSTANTS
  Things,   \* the objects, each made once
  Holders,  \* shared pointers outside of objects
  Watchers, \* weak pointers outside of objects
  NoThing   \* nullptr

ASSUME SharedPtrAssumption ==
  /\ IsFiniteSet(Things) /\ IsFiniteSet(Holders) /\ IsFiniteSet(Watchers)
  /\ NoThing \notin Things
  /\ Holders \cap {<<o, "shared">> : o \in Things} = {}
  /\ Watchers \cap {<<o, s>> : o \in Things, s \in {"weak", "this"}} = {}

VARIABLES
  copies,     \* the header in use: shared_ptr_move_only.h
  life,       \* "none", "live", the step of its destructor, or "dead"
  ptr,        \* m_block of the shared pointers
  wptr,       \* m_block of the weak pointers
  shared, weak,   \* the counts of the blocks
  freed,      \* blocks that have been deleted
  dying       \* the objects whose destructors run, the innermost last

ptrVars == <<copies, life, ptr, wptr, shared, weak, freed, dying>>

SharedSlots == Holders \cup {<<o, "shared">> : o \in Things}
WeakSlots   == Watchers \cup {<<o, s>> : o \in Things, s \in {"weak", "this"}}

PtrInit ==
  /\ copies \in BOOLEAN
  /\ life = [o \in Things |-> "none"] /\ dying = <<>> /\ freed = {}
  /\ ptr = [s \in SharedSlots |-> NoThing] /\ wptr = [s \in WeakSlots |-> NoThing]
  /\ shared = [o \in Things |-> 0] /\ weak = [o \in Things |-> 0]

\* Code runs outside of the destructors' own steps, and reaches the members of the objects
\* that are there and of the one whose destructor it is. Bound: not of those around it.
CodeRuns == dying # <<>> => life[Last(dying)] = "body"
Reached  == {o \in Things : life[o] = "live" \/ (life[o] = "body" /\ o = Last(dying))}
SharedReached == Holders \cup {<<o, "shared">> : o \in Reached}
WeakReached   == Watchers \cup {<<o, "weak">> : o \in Reached}

\* add_shared, add_weak: by n where o is a block.
Counted(count, o, n) == [v \in Things |-> count[v] + (IF v = o THEN n ELSE 0)]

\* ~shared_ptr of v: the last one deletes the object, then releases (Deleted below).
DropShared(v, counts, lives) ==
  IF v # NoThing /\ counts[v] = 1
  THEN /\ life' = [lives EXCEPT ![v] = "body"] /\ dying' = Append(dying, v)
       /\ shared' = counts
  ELSE /\ life' = lives
       /\ shared' = (IF v = NoThing THEN counts ELSE [counts EXCEPT ![v] = @ - 1])
       /\ UNCHANGED dying

\* Fault: ~weak_ptr looks at the weak count only.
DropWeakOnly(v, counts) ==
  IF v = NoThing THEN weak' = counts /\ UNCHANGED freed
  ELSE /\ weak' = [counts EXCEPT ![v] = @ - 1]
       /\ freed' = IF counts[v] = 1 THEN freed \cup {v} ELSE freed

\* ~weak_ptr of v.
DropWeak(v, counts) ==
  IF v = NoThing THEN weak' = counts /\ UNCHANGED freed
  ELSE /\ weak' = [counts EXCEPT ![v] = @ - 1]
       /\ freed' = IF counts[v] = 1 /\ shared[v] = 0 THEN freed \cup {v} ELSE freed

-----------------------------------------------------------------------------
(* Shared pointers                                                         *)

\* shared_ptr(raw) or make_shared, assigned to slot s. enable_weak_this sets weak_this.
MakeShared(s, o, esft) ==
  /\ CodeRuns /\ s \in SharedReached /\ life[o] = "none"
  /\ ptr' = [ptr EXCEPT ![s] = o]
  /\ DropShared(ptr[s], Counted(shared, o, 1), [life EXCEPT ![o] = "live"])
  /\ wptr' = [wptr EXCEPT ![<<o, "this">>] = IF esft THEN o ELSE NoThing]
  /\ weak' = Counted(weak, o, IF esft THEN 1 ELSE 0)
  /\ UNCHANGED <<copies, freed>>

\* to = std::move(from), perhaps through a cast: `to` has its new value, and `from` has
\* none, when what it had is destroyed.
MoveTo(from, to) ==
  /\ CodeRuns /\ {from, to} \subseteq SharedReached
  /\ IF from = to THEN UNCHANGED <<ptr, life, shared, dying>>
     ELSE /\ ptr' = [ptr EXCEPT ![to] = ptr[from], ![from] = NoThing]
          /\ DropShared(ptr[to], shared, life)
  /\ UNCHANGED <<copies, wptr, weak, freed>>

\* reset, an assignment of nullptr, or of a dynamic cast that failed.
ResetShared(s) ==
  /\ CodeRuns /\ s \in SharedReached /\ ptr[s] # NoThing
  /\ ptr' = [ptr EXCEPT ![s] = NoThing]
  /\ DropShared(ptr[s], shared, life)
  /\ UNCHANGED <<copies, wptr, weak, freed>>

SwapShared(a, b) ==
  /\ CodeRuns /\ {a, b} \subseteq SharedReached /\ a # b
  /\ ptr' = [ptr EXCEPT ![a] = ptr[b], ![b] = ptr[a]]
  /\ UNCHANGED <<copies, life, wptr, shared, weak, freed, dying>>

\* to = a cast of from, of shared_ptr_move_only.h.
CopyCast(from, to) ==
  /\ copies /\ CodeRuns /\ {from, to} \subseteq SharedReached
  /\ ptr' = [ptr EXCEPT ![to] = ptr[from]]
  /\ DropShared(ptr[to], Counted(shared, ptr[from], 1), life)
  /\ UNCHANGED <<copies, wptr, weak, freed>>

Expired(w) == wptr[w] = NoThing \/ shared[wptr[w]] = 0

\* to = w.lock() or shared_from_this. Bound: not of an object that is being destroyed.
Lock(w, to) ==
  /\ copies /\ CodeRuns /\ to \in SharedReached
  /\ w \in WeakReached \cup {<<o, "this">> : o \in Reached}
  /\ ~Expired(w) => life[wptr[w]] = "live"
  /\ LET o == IF Expired(w) THEN NoThing ELSE wptr[w]
     IN  /\ ptr' = [ptr EXCEPT ![to] = o]
         /\ DropShared(ptr[to], Counted(shared, o, 1), life)
  /\ UNCHANGED <<copies, wptr, weak, freed>>

-----------------------------------------------------------------------------
(* Weak pointers                                                           *)

\* to = the weak pointer of v: counted before what `to` had is released.
AssignWeak(to, v) ==
  /\ wptr' = [wptr EXCEPT ![to] = v]
  /\ DropWeak(wptr[to], Counted(weak, v, 1))
  /\ UNCHANGED <<copies, life, ptr, shared, dying>>

Watch(s, to) ==
  CodeRuns /\ s \in SharedReached /\ to \in WeakReached /\ AssignWeak(to, ptr[s])

\* A copy, a cast, or weak_from_this.
CopyWeak(w, to) ==
  /\ CodeRuns /\ to \in WeakReached
  /\ w \in WeakReached \cup {<<o, "this">> : o \in Reached}
  /\ AssignWeak(to, wptr[w])

\* reset, nullptr, or a dynamic cast that failed.
ResetWeak(to) ==
  CodeRuns /\ to \in WeakReached /\ wptr[to] # NoThing /\ AssignWeak(to, NoThing)

-----------------------------------------------------------------------------
(* The steps of a destructor: its body, ~weak_ptr and ~shared_ptr of the   *)
(* members, ~weak_ptr of weak_this, and the rest of the ~shared_ptr that   *)
(* runs it                                                                 *)

Dying(step) == dying # <<>> /\ life[Last(dying)] = step

BodyEnds ==
  /\ Dying("body")
  /\ life' = [life EXCEPT ![Last(dying)] = "weak"]
  /\ UNCHANGED <<copies, ptr, wptr, shared, weak, freed, dying>>

WeakDies(step, slot, then) ==
  /\ Dying(step)
  /\ LET o == Last(dying)
     IN  /\ life' = [life EXCEPT ![o] = then]
         /\ wptr' = [wptr EXCEPT ![<<o, slot>>] = NoThing]
         /\ DropWeak(wptr[<<o, slot>>], weak)
  /\ UNCHANGED <<copies, ptr, shared, dying>>

MemberDies ==
  /\ Dying("shared")
  /\ LET o == Last(dying)
     IN  /\ ptr' = [ptr EXCEPT ![<<o, "shared">>] = NoThing]
         /\ DropShared(ptr[<<o, "shared">>], shared, [life EXCEPT ![o] = "this"])
  /\ UNCHANGED <<copies, wptr, weak, freed>>

\* The object is gone; its block goes too, if no weak pointer is left.
Deleted ==
  /\ Dying("block")
  /\ LET o == Last(dying)
     IN  /\ life' = [life EXCEPT ![o] = "dead"] /\ dying' = Front(dying)
         /\ shared' = [shared EXCEPT ![o] = @ - 1]
         /\ freed' = IF weak[o] = 0 THEN freed \cup {o} ELSE freed
  /\ UNCHANGED <<copies, ptr, wptr, weak>>

PtrNext ==
  \/ \E s \in SharedSlots, o \in Things, esft \in BOOLEAN : MakeShared(s, o, esft)
  \/ \E from, to \in SharedSlots :
       MoveTo(from, to) \/ SwapShared(from, to) \/ CopyCast(from, to)
  \/ \E s \in SharedSlots : ResetShared(s)
  \/ \E w \in WeakSlots, s \in SharedSlots : Lock(w, s) \/ Watch(s, w)
  \/ \E w, to \in WeakSlots : CopyWeak(w, to)
  \/ \E w \in WeakSlots : ResetWeak(w)
  \/ BodyEnds \/ WeakDies("weak", "weak", "shared") \/ MemberDies
  \/ WeakDies("this", "this", "block") \/ Deleted

PtrSpec == PtrInit /\ [][PtrNext]_ptrVars

-----------------------------------------------------------------------------
(* Properties                                                              *)

\* An object is destroyed once, when the last shared pointer to it has gone, whatever its
\* destructor and those it runs do to other pointers; no pointer is left to an object that
\* is being destroyed; a block counts the pointers there are, and is deleted once, when
\* there are none, so that a weak pointer can always ask it.
OwnersAgree ==
  \A o \in Things :
    /\ \A s \in SharedSlots : ptr[s] = o => life[o] = "live"
    /\ shared[o] = Cardinality({s \in SharedSlots : ptr[s] = o})
                   + Cardinality({i \in DOMAIN dying : dying[i] = o})
    /\ weak[o] = Cardinality({w \in WeakSlots : wptr[w] = o})
    /\ life[o] \in {"none", "dead"} <=> shared[o] = 0
    /\ o \in freed <=> life[o] = "dead" /\ weak[o] = 0
=============================================================================
