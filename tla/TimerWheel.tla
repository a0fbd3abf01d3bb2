------------------------------ MODULE TimerWheel ------------------------------
(***************************************************************************)
(* The timer of test_skynet/skynet_socket (skynet_timer.c): a hierarchical *)
(* timing wheel.  A node that expires within the current block of          *)
(* TIME_NEAR ticks hangs in the near wheel, at its tick; any other hangs   *)
(* in the level whose digit is the highest one in which its expiry and the *)
(* current time differ, and moves down when that digit is reached.         *)
(*                                                                         *)
(* One thread (thread_timer) turns the wheel; skynet_timeout is called by  *)
(* any thread.  Both hold the lock of the timer, except that the timer     *)
(* thread lets go of it while it sends the messages of the nodes that      *)
(* expired.  What it does under the lock is one step.                      *)
(***************************************************************************)
EXTENDS Integers, FiniteSets, SequencesExt

CONSTANTS
  Timer,             \* the timer nodes
  TIME_NEAR,   \* slots of the near wheel, a power of 2 (256 in the code)
  TIME_LEVEL,  \* slots of each level, a power of 2 (64)
  LEVELS,      \* number of levels (4)
  MaxDelay,    \* bound on the argument time of skynet_timeout
  MaxLag       \* bound on the ticks that one skynet_updatetime makes up

\* mask at level k: the ticks in a block of that level.
Mask[k \in 1..(LEVELS + 1)] ==
  IF k = 1 THEN TIME_NEAR ELSE TIME_LEVEL * Mask[k - 1]

\* The counter T->time wraps here (at 2^32).
Wrap == Mask[LEVELS + 1]

ASSUME WheelAssumption ==
  /\ TIME_NEAR \in Nat \ {0}
  /\ TIME_LEVEL \in Nat \ {0, 1}
  /\ LEVELS \in Nat \ {0}
  /\ MaxDelay \in Nat \ {0} /\ 2 * MaxDelay < Wrap   \* time is a signed int
  /\ MaxLag \in Nat \ {0}

Tick == 0..(Wrap - 1)

\* Level 0 is the near wheel, level k > 0 is t[k - 1].
Slot == ({0} \X (0..(TIME_NEAR - 1))) \cup ((1..LEVELS) \X (0..(TIME_LEVEL - 1)))

VARIABLES
  time,     \* T->time
  wheel,    \* wheel[s]: the list of nodes that hang in slot s
  expire,   \* expire[x]: the field expire of node x (0 when x is not allocated)
  order,    \* history: the pending nodes in the order they were set
  firing,   \* the list that dispatch_list works on
  diff,     \* calls of timer_update that skynet_updatetime has still to make
  locked,   \* does the timer thread hold the lock?
  phase     \* where timer_update is: before or after its timer_shift, or out

vars == <<time, wheel, expire, order, firing, diff, locked, phase>>

Pending == {order[i] : i \in 1..Len(order)}

TypeOK ==
  /\ time \in Tick
  /\ wheel \in [Slot -> Seq(Timer)]
  /\ expire \in [Timer -> Tick]
  /\ order \in Seq(Timer)
  /\ firing \in Seq(Timer)
  /\ diff \in 0..MaxLag
  /\ locked \in BOOLEAN
  /\ phase \in {"out", "before", "after"}

\* timer_create_timer
Init ==
  /\ time = 0
  /\ wheel = [s \in Slot |-> << >>]
  /\ expire = [x \in Timer |-> 0]
  /\ order = << >>
  /\ firing = << >>
  /\ diff = 0
  /\ locked = FALSE
  /\ phase = "out"
-----------------------------------------------------------------------------
(* The wheel.                                                              *)

\* The digit of e at level k.
Digit(e, k) == (e \div Mask[k]) % TIME_LEVEL

\* Mutant: the near wheel also takes the node one full turn away.
BugPlace(e, now) ==
  IF (e - now) % Wrap <= TIME_NEAR
  THEN <<0, e % TIME_NEAR>>
  ELSE LET k == CHOOSE i \in 1..LEVELS :
                  /\ i = LEVELS \/ e \div Mask[i + 1] = now \div Mask[i + 1]
                  /\ \A j \in 1..(i - 1) :
                       e \div Mask[j + 1] # now \div Mask[j + 1]
       IN  <<k, Digit(e, k)>>

\* add_node: the slot of a node that expires at e, seen at time now.  The
\* level is the first whose digits, and the ones above, are all that differ.
Place(e, now) ==
  IF e \div TIME_NEAR = now \div TIME_NEAR
  THEN <<0, e % TIME_NEAR>>
  ELSE LET k == CHOOSE i \in 1..LEVELS :
                  /\ i = LEVELS \/ e \div Mask[i + 1] = now \div Mask[i + 1]
                  /\ \A j \in 1..(i - 1) :
                       e \div Mask[j + 1] # now \div Mask[j + 1]
       IN  <<k, Digit(e, k)>>

\* link: a node that expires at e goes to the end of the list of its slot.
AddNode(w, x, e, now) == [w EXCEPT ![Place(e, now)] = Append(@, x)]

\* Mutant: the list is walked from its tail.
BugMoveList(s, now) ==
  LET list == Reverse(wheel[s])
      Moved[i \in 0..Len(list)] ==
        IF i = 0 THEN [wheel EXCEPT ![s] = << >>]
        ELSE AddNode(Moved[i - 1], list[i], expire[list[i]], now)
  IN  Moved[Len(list)]

\* move_list: the list of one slot is taken and its nodes are added again, from
\* the head on.
MoveList(s, now) ==
  LET list == wheel[s]
      Moved[i \in 0..Len(list)] ==
        IF i = 0 THEN [wheel EXCEPT ![s] = << >>]
        ELSE AddNode(Moved[i - 1], list[i], expire[list[i]], now)
  IN  Moved[Len(list)]

\* Mutant: only the lowest level is ever moved down.
BugSlotsToMoveLow(ct) ==
  IF ct % Mask[1] = 0 /\ Digit(ct, 1) # 0 THEN {<<1, Digit(ct, 1)>>} ELSE {}

\* Mutant: nothing is moved when the counter wraps.
BugSlotsToMoveWrap(ct) ==
  {<<k, Digit(ct, k)>> :
     k \in {i \in 1..LEVELS : ct % Mask[i] = 0 /\ Digit(ct, i) # 0}}

\* timer_shift: the slots whose list it moves when the time becomes ct.  That
\* is the lowest level with a digit that is not 0, if all below it are 0; and
\* slot 0 of the top level when the counter wraps to 0.
SlotsToMove(ct) ==
  IF ct = 0 THEN {<<LEVELS, 0>>}
  ELSE {<<k, Digit(ct, k)>> :
          k \in {i \in 1..LEVELS : ct % Mask[i] = 0 /\ Digit(ct, i) # 0}}

\* The wheel that timer_shift leaves at time ct.
Shifted(ct) ==
  IF SlotsToMove(ct) = {} THEN wheel
  ELSE MoveList(CHOOSE s \in SlotsToMove(ct) : TRUE, ct)

\* The near slot of the current tick.
NearSlot(now) == <<0, now % TIME_NEAR>>
-----------------------------------------------------------------------------
(* Threads that set timers.                                                *)

\* Mutant: the expiry is kept in a wider integer than the time.
BugTimeout(x, delay) ==
  /\ ~locked
  /\ x \notin Pending
  /\ expire' = [expire EXCEPT ![x] = time + delay]
  /\ wheel' = AddNode(wheel, x, expire'[x], time)
  /\ order' = Append(order, x)
  /\ UNCHANGED <<time, firing, diff, locked, phase>>

\* skynet_timeout with time > 0 (timer_add).  With time <= 0 the message is
\* sent at once and the timer is not touched.
Timeout(x, delay) ==
  /\ ~locked
  /\ x \notin Pending
  /\ expire' = [expire EXCEPT ![x] = (time + delay) % Wrap]
  /\ wheel' = AddNode(wheel, x, expire'[x], time)
  /\ order' = Append(order, x)
  /\ UNCHANGED <<time, firing, diff, locked, phase>>
-----------------------------------------------------------------------------
(* The timer thread.                                                       *)

\* skynet_updatetime finds that the clock has moved on by d ticks.  (A clock
\* that stands still, or has gone back, makes it do nothing to the wheel.)
UpdateTime(d) ==
  /\ diff = 0
  /\ diff' = d
  /\ UNCHANGED <<time, wheel, expire, order, firing, locked, phase>>

\* The timer thread locks the timer: when timer_update starts, and when
\* timer_execute comes back from dispatch_list.
Lock ==
  /\ diff > 0
  /\ ~locked
  /\ firing = << >>
  /\ locked' = TRUE
  /\ phase' = IF phase = "out" THEN "before" ELSE phase
  /\ UNCHANGED <<time, wheel, expire, order, firing, diff>>

\* timer_execute, before or after the shift, finds the slot of the tick filled:
\* it takes the list and unlocks the timer.
Execute ==
  /\ locked
  /\ wheel[NearSlot(time)] # << >>
  /\ firing' = wheel[NearSlot(time)]
  /\ wheel' = [wheel EXCEPT ![NearSlot(time)] = << >>]
  /\ locked' = FALSE
  /\ UNCHANGED <<time, expire, order, diff, phase>>

\* dispatch_list sends the message of one node and frees the node.
DispatchOne ==
  /\ firing # << >>
  /\ firing' = Tail(firing)
  /\ order' = RemoveAt(order, CHOOSE i \in DOMAIN order : order[i] = Head(firing))
  /\ expire' = [expire EXCEPT ![Head(firing)] = 0]
  /\ UNCHANGED <<time, wheel, diff, locked, phase>>

\* The first timer_execute finds the slot empty: timer_shift.
Shift ==
  /\ locked
  /\ phase = "before"
  /\ wheel[NearSlot(time)] = << >>
  /\ time' = (time + 1) % Wrap
  /\ wheel' = Shifted(time')
  /\ phase' = "after"
  /\ UNCHANGED <<expire, order, firing, diff, locked>>

\* The second timer_execute finds the slot empty: timer_update returns.
Unlock ==
  /\ locked
  /\ phase = "after"
  /\ wheel[NearSlot(time)] = << >>
  /\ locked' = FALSE
  /\ phase' = "out"
  /\ diff' = diff - 1
  /\ UNCHANGED <<time, wheel, expire, order, firing>>

TimerThread ==
  \/ \E d \in 1..MaxLag : UpdateTime(d)
  \/ Lock
  \/ Execute
  \/ DispatchOne
  \/ Shift
  \/ Unlock

Next ==
  \/ \E x \in Timer, delay \in 1..MaxDelay : Timeout(x, delay)
  \/ TimerThread

\* The timer thread runs and the clock moves on.  Nothing sets timers.
Spec == Init /\ [][Next]_vars /\ WF_vars(TimerThread)
-----------------------------------------------------------------------------
(* Properties.                                                             *)

\* A message is sent in the tick its timer was set for, not before, not after.
OnTime ==
  [][\A x \in Pending : x \notin Pending' => time = expire[x]]_vars

\* Timers that expire in the same tick fire in the order they were set, though
\* they were hung in different levels and moved down in different shifts.
SameTickInOrder ==
  [][\A j \in 1..Len(order) :
       order[j] \notin Pending' =>
         \A i \in 1..(j - 1) : expire[order[i]] # expire[order[j]]]_vars

\* A pending node is in one list, once: in the slot that add_node would choose
\* for it now, or in the list being dispatched.
Occurrences(x) ==
  UNION {{<<s, i>> : i \in {j \in 1..Len(wheel[s]) : wheel[s][j] = x}} : s \in Slot}

PlacedRight ==
  /\ \A s \in Slot : \A i \in 1..Len(wheel[s]) :
       wheel[s][i] \in Pending /\ s = Place(expire[wheel[s][i]], time)
  /\ \A i \in 1..Len(firing) : firing[i] \in Pending
  /\ \A x \in Pending :
       Cardinality(Occurrences(x))
         + Cardinality({i \in 1..Len(firing) : firing[i] = x}) = 1

\* Every timer that is set fires.
AllFire == \A x \in Timer : (x \in Pending) ~> (x \notin Pending)
=============================================================================
