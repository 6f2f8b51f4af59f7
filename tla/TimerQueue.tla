----------------------------- MODULE TimerQueue -----------------------------
(* TimerQueue: a wheel of intrusive lists, advanced tick by tick on the      *)
(* loop's thread, with a table of handles by which timers are cancelled.     *)
(* Times are ticks since the queue's start.  The lists are modelled by their *)
(* links, the way TimerList sets them.                                       *)
EXTENDS Integers, Sequences, FiniteSets

CONSTANTS
    Timers,        \* memory for timers; an object is used again once freed
    W,             \* kWheelSize
    Delays, Kinds, \* inputs: delays, and the other arguments of addTimer: [interval, strict,
                   \* detached], interval -1 for a timer that runs once
    MaxTicks,      \* bound: the clock
    MaxCreated     \* bound: timers created

VARIABLES
    cur, clock, target,  \* _currentTicks, the time, the time advanceTo was called with
    mode,          \* idle, advance, callback, destroying, gone
    running,       \* the timer whose callback runs
    live, tm,      \* timers allocated, their fields
    g,             \* the lists: next and prev of timers and list heads
    count,         \* _timerCount
    handles, freeHead, \* the table and the head of its free entries (0 is none)
    created,       \* Timer::_numCreated
    sweep,         \* the slot ~TimerQueue is at
    ids, asked,    \* history: TimerIds given out, sequences cancelled through them
    touched        \* history: a freed timer was read or written

table == <<handles, freeHead>>
time  == <<cur, target>>
vars == <<time, clock, mode, running, live, tm, g, count, table, created, sweep, ids, asked, touched>>

Slots   == 0 .. W - 1
Pending == W            \* the list processExpiredTimers works through
Heads   == 0 .. W
Null    == W + 1

NoTimer == [seq |-> -1, when |-> 0, interval |-> -1, strict |-> FALSE, rotation |-> 0,
            handle |-> 0, canceled |-> FALSE, due |-> 0]

Init ==
    /\ cur = 0 /\ clock = 0 /\ target = 0 /\ mode = "idle" /\ running = Null
    /\ live = {} /\ tm = [t \in Timers |-> NoTimer] /\ count = 0
    /\ g = [next |-> [n \in Timers \cup Heads |-> IF n \in Heads THEN n ELSE Null],
            prev |-> [n \in Timers \cup Heads |-> IF n \in Heads THEN n ELSE Null]]
    /\ handles = <<>> /\ freeHead = 0 /\ created = 0 /\ sweep = 0
    /\ ids = {} /\ asked = {} /\ touched = FALSE

-----------------------------------------------------------------------------
(* TimerList.                                                                *)

Empty(l, r) == l.next[r] = r

\* The new node's next is the head's next, which is the first node unless the list is
\* empty; only moving the list puts the last node's next right.
PushBack(l, r, t) ==
    [next |-> [l.next EXCEPT ![t] = l.next[r], ![l.prev[r]] = t],
     prev |-> [l.prev EXCEPT ![t] = l.prev[r], ![r] = t]]

PopFront(l, r) ==
    LET t == l.next[r] IN
    [next |-> [l.next EXCEPT ![r] = l.next[t], ![t] = Null],
     prev |-> [l.prev EXCEPT ![l.next[t]] = r, ![t] = Null]]

\* Mutant: the last node keeps its link.
Moved_KeepsLast(l, r, p) ==
    IF Empty(l, r) THEN [l EXCEPT !.next[p] = p, !.prev[p] = p]
    ELSE [next |-> [l.next EXCEPT ![p] = l.next[r], ![r] = r],
          prev |-> [l.prev EXCEPT ![p] = l.prev[r], ![l.next[r]] = p, ![r] = r]]

\* TimerList(TimerList&&), from head r to head p.
Moved(l, r, p) ==
    IF Empty(l, r) THEN [l EXCEPT !.next[p] = p, !.prev[p] = p]
    ELSE [next |-> [l.next EXCEPT ![p] = l.next[r], ![l.prev[r]] = p, ![r] = r],
          prev |-> [l.prev EXCEPT ![p] = l.prev[r], ![l.next[r]] = p, ![r] = r]]

-----------------------------------------------------------------------------
(* Adding, cancelling, freeing.                                              *)

\* Mutant: a timer that is due goes to the slot being worked through.
Ticks_Zero(when) == IF when - cur <= 0 THEN 0 ELSE when - cur

Ticks(when) == IF when - cur <= 0 THEN 1 ELSE when - cur

\* The tick a timer should run in, and the tick the wheel gives it: at a distance that
\* is a multiple of the wheel's size it waits for one turn more.
DueTick(when) ==
    LET wanted == IF when <= cur THEN cur + 1 ELSE when
    IN  IF (wanted - cur) % W = 0 THEN wanted + W ELSE wanted

Placed(r, when) == [r EXCEPT !.when = when, !.rotation = Ticks(when) \div W, !.due = DueTick(when)]
Slot(when) == (cur + Ticks(when)) % W

FreeEntry == IF freeHead # 0 THEN freeHead ELSE Len(handles) + 1

AllocSlot(e) ==
    IF freeHead # 0 THEN freeHead' = handles[freeHead].ref /\ handles' = [handles EXCEPT ![freeHead] = e]
    ELSE handles' = Append(handles, e) /\ UNCHANGED freeHead

FreeSlot(h) == handles' = [handles EXCEPT ![h] = [seq |-> -1, ref |-> freeHead]] /\ freeHead' = h

Add(t, when, kind) ==
    /\ mode \in {"idle", "callback"} /\ t \notin live /\ created < MaxCreated
    /\ live' = live \cup {t} /\ created' = created + 1 /\ count' = count + 1
    /\ LET h == IF kind.detached THEN 0 ELSE FreeEntry
       IN  /\ tm' = [tm EXCEPT ![t] = Placed([NoTimer EXCEPT !.seq = created, !.interval = kind.interval,
                                                  !.strict = kind.strict, !.handle = h], when)]
           /\ IF kind.detached THEN UNCHANGED <<table, ids>>
              ELSE /\ ids' = ids \cup {[index |-> h, seq |-> created]}
                   /\ AllocSlot([seq |-> created, ref |-> t])
    /\ g' = PushBack(g, Slot(when), t)
    /\ UNCHANGED <<time, clock, mode, running, sweep, asked, touched>>

\* Mutant: the sequence is not compared, so the next user of the entry is cancelled.
Current_Any(id) == handles[id.index].seq # -1

Current(id) == handles[id.index].seq = id.seq

\* Only marks the timer.
Cancel(id) ==
    /\ mode \in {"idle", "callback"} /\ Current(id)
    /\ tm' = [tm EXCEPT ![handles[id.index].ref].canceled = TRUE]
    /\ asked' = asked \cup {id.seq}
    /\ UNCHANGED <<time, clock, mode, running, live, g, count, table, created, sweep, ids, touched>>

FreeTimer(t) ==
    /\ live' = live \ {t} /\ tm' = [tm EXCEPT ![t] = NoTimer] /\ count' = count - 1
    /\ IF tm[t].handle = 0 THEN UNCHANGED table ELSE FreeSlot(tm[t].handle)

-----------------------------------------------------------------------------
(* advanceTo and processExpiredTimers.                                       *)

TimePasses ==
    /\ clock < MaxTicks /\ clock' = clock + 1
    /\ UNCHANGED <<time, mode, running, live, tm, g, count, table, created, sweep, ids, asked, touched>>

\* The loop calls advanceTo only while there are timers.
Advance ==
    /\ mode = "idle" /\ count > 0 /\ cur < clock /\ mode' = "advance"
    /\ target' = clock /\ cur' = cur + 1 /\ g' = Moved(g, (cur + 1) % W, Pending)
    /\ UNCHANGED <<clock, running, live, tm, count, table, created, sweep, ids, asked, touched>>

NextTick ==
    /\ mode = "advance" /\ Empty(g, Pending)
    /\ IF cur < target THEN cur' = cur + 1 /\ g' = Moved(g, cur' % W, Pending) /\ UNCHANGED <<mode, target>>
       ELSE mode' = "idle" /\ target' = 0 /\ UNCHANGED <<cur, g>>
    /\ UNCHANGED <<clock, running, live, tm, count, table, created, sweep, ids, asked, touched>>

\* The next timer is freed, put back for another turn, or run.
Expire ==
    /\ mode = "advance" /\ ~Empty(g, Pending)
    /\ LET t == g.next[Pending]
           l == PopFront(g, Pending)
       IN  \/ tm[t].canceled /\ FreeTimer(t) /\ g' = l /\ UNCHANGED <<mode, running>>
           \/ /\ ~tm[t].canceled /\ tm[t].rotation > 0
              /\ tm' = [tm EXCEPT ![t].rotation = @ - 1] /\ g' = PushBack(l, cur % W, t)
              /\ UNCHANGED <<mode, running, live, count, table>>
           \/ /\ ~tm[t].canceled /\ tm[t].rotation = 0 /\ g' = l
              /\ mode' = "callback" /\ running' = t /\ UNCHANGED <<live, tm, count, table>>
    /\ UNCHANGED <<time, clock, created, sweep, ids, asked, touched>>

\* Timer::restart: from the time it was due if strict, else from this tick.
Restarted(t) == (IF tm[t].strict THEN tm[t].when ELSE cur) + tm[t].interval

\* The callback returned.
Ran ==
    /\ mode = "callback" /\ mode' = "advance" /\ running' = Null
    /\ IF tm[running].canceled \/ tm[running].interval < 0
       THEN FreeTimer(running) /\ UNCHANGED g
       ELSE LET when == Restarted(running) IN
            /\ tm' = [tm EXCEPT ![running] = Placed(@, when)]
            /\ g' = PushBack(g, Slot(when), running)
            /\ UNCHANGED <<live, count, table>>
    /\ UNCHANGED <<time, clock, created, sweep, ids, asked, touched>>

-----------------------------------------------------------------------------
\* ~TimerQueue, when the loop has ended: one slot after the other, one timer at a
\* time, by the links as they are.
Destroy ==
    /\ mode \in {"idle", "destroying"} /\ mode' = "destroying" /\ ~touched /\ sweep < W
    /\ LET t == g.next[sweep] IN
       IF t = sweep THEN sweep' = sweep + 1 /\ UNCHANGED <<g, live, touched>>
       ELSE IF t \notin live THEN touched' = TRUE /\ UNCHANGED <<g, live, sweep>>
       ELSE /\ touched' = (g.next[t] \notin live \cup Heads)
            /\ g' = PopFront(g, sweep) /\ live' = live \ {t} /\ UNCHANGED sweep
    /\ UNCHANGED <<time, clock, running, tm, count, table, created, ids, asked>>

Next ==
    \/ TimePasses \/ Advance \/ NextTick \/ Expire \/ Ran \/ Destroy
    \/ \E t \in Timers, d \in Delays, kind \in Kinds : Add(t, clock + d, kind)
    \/ \E id \in ids : Cancel(id)

Spec == Init /\ [][Next]_vars

-----------------------------------------------------------------------------
Behind(r) ==
    LET f[k \in 0 .. Cardinality(Timers) + 1] ==
            IF k = 0 THEN r ELSE IF f[k - 1] = Null THEN Null ELSE g.prev[f[k - 1]]
    IN  {f[k] : k \in 1 .. Cardinality(Timers) + 1}
On(r) == Behind(r) \ {r}
Linked == UNION {On(r) : r \in Heads}

\* While the queue lives, its lists hold every timer that is not running, each once, in
\* a slot and with a rotation count that bring it up in the tick it is meant for, none
\* of them late; the list being worked through is linked in both directions
\* (TimerList.h:28-78, TimerQueue.cpp:71-79).
WheelHolds ==
    mode \in {"idle", "advance", "callback"} =>
        /\ \A r \in Heads : r \in Behind(r) /\ On(r) \subseteq live
        /\ \A r, q \in Heads : r # q => On(r) \cap On(q) = {}
        /\ Linked = live \ {running} /\ count = Cardinality(live)
        /\ \A r \in Slots : \A t \in On(r) :
              /\ tm[t].due % W = r
              /\ tm[t].due - cur > tm[t].rotation * W
              /\ tm[t].due - cur <= (tm[t].rotation + 1) * W
        /\ \A n \in On(Pending) \cup {Pending} : g.prev[g.next[n]] = n

\* A TimerId finds its own timer as long as it lives and nothing afterwards, although
\* entries and memory are used again: exactly the timers whose id was cancelled are
\* marked, the table and its free list cover all entries (TimerQueue.h:139-169).
CancelExact ==
    mode \in {"idle", "advance", "callback"} =>
        /\ \A t \in live : tm[t].canceled <=> tm[t].seq \in asked
        /\ \A t \in live : tm[t].handle # 0 => handles[tm[t].handle] = [seq |-> tm[t].seq, ref |-> t]
        /\ LET f[k \in 0 .. Len(handles)] ==
                  IF k = 0 THEN freeHead ELSE IF f[k - 1] = 0 THEN 0 ELSE handles[f[k - 1]].ref
               free == {f[k] : k \in 0 .. Len(handles)}
           IN  /\ 0 \in free
               /\ \A h \in DOMAIN handles : (h \in free) <=> (handles[h].seq = -1)
               /\ \A h \in DOMAIN handles \ free : tm[handles[h].ref].handle = h

\* A timer runs in the tick it is meant for and never after it was cancelled, also when
\* the loop is late and works through several ticks, or callbacks add and cancel timers.
RunsInItsTick ==
    [][mode' = "callback" /\ mode = "advance" =>
          cur = tm[running'].due /\ tm[running'].seq \notin asked]_vars
=============================================================================
