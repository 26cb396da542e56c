----------------------------- MODULE TimerWheel -----------------------------
(***************************************************************************)
(* TimeWheel: hierarchical wheels of slots. The main loop calls Refresh    *)
(* once a frame with the time that has passed; timers are added and        *)
(* deleted between, by the handlers that run later in the frame.           *)
(***************************************************************************)
EXTENDS Integers, Sequences, FiniteSets, SequencesExt, FiniteSetsExt

CONSTANTS
  Timers,   \* TimeNode objects
  Size,     \* Size[i]: slots of the i-th wheel, 2 ^ WHEEL_BIT[i - 1]
  Tick,     \* TIME_TICK_LEN
  Delays,   \* the delays timers are added with (ms)
  Periods,  \* Periods[t]: what t's callback may return (ms): 0 ends the timer
  Word,     \* 2 ^ 32: a delay is a uint32
  Frames,   \* how long a frame may take (ms)
  Skews,    \* how late in a frame a handler may run (ms)
  MaxTime   \* bound: the time of the last frame (ms)

ASSUME SizeAssumption == Size \in Seq(Nat \ {0}) /\ Len(Size) > 0
ASSUME TickAssumption == Tick \in Nat \ {0}

Wheels == 1 .. Len(Size)

\* WHEEL_CAP: the ticks of a turn of wheel i, and so of a slot of the next one.
Cap[i \in 0 .. Len(Size)] == IF i = 0 THEN 1 ELSE Cap[i - 1] * Size[i]

ASSUME DelayAssumption ==
  /\ Word \in Nat \ {0} /\ Delays \subseteq 0 .. Word - 1
  /\ \A t \in Timers : Periods[t] \subseteq 0 .. Word - 1
  /\ Frames \subseteq Nat /\ Skews \subseteq Nat

\* The wheels reach as far as any delay, or _AddTimerNode would find no slot.
ASSUME ReachAssumption == \A ms \in 0 .. Word - 1 : ms \div Tick < Cap[Len(Size)]

VARIABLES
  w,      \* the wheels: w.idx[i], slotIdx; w.slot[i][k], the nodes of a slot
          \* in the order they were put in; w.ready, _readyNode
  armed,  \* the timers that are in a wheel
  when,   \* when[t]: TimeNode::when
  now,    \* the time the frame began with
  left,   \* _time_elapse: what is left of a tick
  early   \* how many ms too early the last Refresh called a timer back

wheelVars == <<w, armed, when, now, left, early>>

WheelInit ==
  /\ w = [idx   |-> [i \in Wheels |-> 0],
          slot  |-> [i \in Wheels |-> [k \in 0 .. Size[i] - 1 |-> <<>>]],
          ready |-> <<>>]
  /\ armed = {}
  /\ when = [t \in Timers |-> 0]
  /\ now = 0 /\ left = 0 /\ early = 0

-----------------------------------------------------------------------------
(* The wheels, as functions of their state v                               *)

WheelFor(ticks) == Min({i \in Wheels : ticks < Cap[i]})

\* Fault: the slots of an upper wheel are counted from its current one.
PutNext(v, t, ms) ==
  LET ticks == ms \div Tick
      i     == WheelFor(ticks)
      ahead == IF i = 1 THEN ticks ELSE ticks \div Cap[i - 1]
  IN  [v EXCEPT !.slot[i][(v.idx[i] + ahead) % Size[i]] = Append(@, t)]

\* _AddTimerNode: the lowest wheel that reaches so far; the current slot of an
\* upper wheel is one turn of the wheel below away.
Put(v, t, ms) ==
  LET ticks == ms \div Tick
      i     == WheelFor(ticks)
      ahead == IF i = 1 THEN ticks ELSE ticks \div Cap[i - 1] - 1
  IN  [v EXCEPT !.slot[i][(v.idx[i] + ahead) % Size[i]] = Append(@, t)]

\* A wheel turns by one slot, which is emptied.
Current(v, i) == v.slot[i][v.idx[i]]
Wraps(v, i)   == v.idx[i] = Size[i] - 1
Turn(v, i)    == [v EXCEPT !.slot[i][v.idx[i]] = <<>>,
                           !.idx[i] = (@ + 1) % Size[i]]

\* Fault: the slot is emptied after the nodes were put into their new ones.
SpreadAndClear(v, nodes, time) ==
  LET due == SelectSeq(nodes, LAMBDA t : when[t] <= time)
  IN  [v EXCEPT !.ready = @ \o due]

\* A pass of Cascade's loop: a node that is due is ready, another goes further down.
SpreadNode(v, t, time) ==
  IF when[t] <= time THEN [v EXCEPT !.ready = Append(@, t)]
                     ELSE Put(v, t, (when[t] - time) % Word)

Spread(v, nodes, time) ==
  LET u[k \in 0 .. Len(nodes)] ==
        IF k = 0 THEN v ELSE SpreadNode(u[k - 1], nodes[k], time)
  IN  u[Len(nodes)]

\* Cascade: up the wheels as long as they wrap.
CascadeWheel(a, i, time) ==
  IF a.wraps THEN [v     |-> Spread(Turn(a.v, i), Current(a.v, i), time),
                   wraps |-> Wraps(a.v, i)]
             ELSE a

Cascade(v, time) ==
  LET a[k \in 0 .. Len(Size) - 1] ==
        IF k = 0 THEN [v |-> v, wraps |-> TRUE] ELSE CascadeWheel(a[k - 1], k + 1, time)
  IN  a[Len(Size) - 1].v

\* One tick of Refresh: all nodes of the lowest wheel's slot are ready.
OneTick(v, time) ==
  LET u == [Turn(v, 1) EXCEPT !.ready = @ \o Current(v, 1)]
  IN  IF Wraps(v, 1) THEN Cascade(u, time) ELSE u

Ticks(v, n, time) ==
  LET u[k \in 0 .. n] == IF k = 0 THEN v ELSE OneTick(u[k - 1], time) IN u[n]

\* DoTimeOutCallBack: the ready timers in order; a callback that returns r[t]
\* puts its timer back.
CallNode(v, t, r) == IF r[t] > 0 THEN Put(v, t, r[t]) ELSE v

CallBack(v, r) ==
  LET u[k \in 0 .. Len(v.ready)] ==
        IF k = 0 THEN [v EXCEPT !.ready = <<>>] ELSE CallNode(u[k - 1], v.ready[k], r)
  IN  u[Len(v.ready)]

-----------------------------------------------------------------------------
(* The operations                                                          *)

\* AddTimer takes the time itself, not the time the frame began with.
AddTimer(t, d, skew) ==
  /\ t \notin armed
  /\ armed' = armed \cup {t}
  /\ when' = [when EXCEPT ![t] = now + skew + d]
  /\ w' = Put(w, t, d)
  /\ UNCHANGED <<now, left, early>>

DelTimer(t) ==
  /\ t \in armed
  /\ armed' = armed \ {t}
  /\ w' = [w EXCEPT !.slot = [i \in Wheels |-> [k \in 0 .. Size[i] - 1 |->
                                RemoveFirst(@[i][k], t)]]]
  /\ UNCHANGED <<when, now, left, early>>

\* Refresh: as many ticks as have passed, then the callbacks.
Refresh(e, r) ==
  /\ now + e <= MaxTime
  /\ now' = now + e
  /\ left' = (left + e) % Tick
  /\ LET v     == Ticks(w, (left + e) \div Tick, now')
         fired == ToSet(v.ready)
     IN  /\ w' = CallBack(v, r)
         /\ armed' = armed \ {t \in fired : r[t] = 0}
         /\ when' = [t \in Timers |-> IF t \in fired THEN when[t] + r[t] ELSE when[t]]
         /\ early' = Max({0} \cup {when[t] - now' : t \in fired})

Repeats == {r \in [Timers -> UNION {Periods[t] : t \in Timers}] :
              \A t \in Timers : r[t] \in Periods[t]}

WheelNext ==
  \/ \E t \in Timers : \/ \E d \in Delays, s \in Skews : AddTimer(t, d, s)
                       \/ DelTimer(t)
  \/ \E e \in Frames, r \in Repeats : Refresh(e, r)

WheelSpec == WheelInit /\ [][WheelNext]_wheelVars

-----------------------------------------------------------------------------
(* Properties                                                              *)

\* Where timer t is: the places in the slots that hold it.
Places(t) ==
  UNION {UNION {{<<i, k, n>> : n \in {m \in DOMAIN w.slot[i][k] : w.slot[i][k][m] = t}}
                  : k \in 0 .. Size[i] - 1}
           : i \in Wheels}

\* No timer is lost or linked into two slots, whatever cascades, callbacks put
\* back or handlers delete: an armed timer is in one place, another in none.
TimersPlaced ==
  /\ w.ready = <<>>
  /\ \A t \in Timers : Cardinality(Places(t)) = IF t \in armed THEN 1 ELSE 0

OneShot(t) == Periods[t] = {0}

\* A timer that is not periodic is never overdue by a tick after a Refresh,
\* however long its frame was and however many wheels the timer came down.
NotOverdue == \A t \in armed : OneShot(t) => now < when[t] + Tick

\* The slots the wheel passes are timed out (TimerWheel.cpp:80): but for the
\* rounding to a tick and the time within a frame, no timer is early.
NotEarly == early < Tick + Max(Skews)
=============================================================================
