---------------------------- MODULE AsyncLogging ----------------------------
(* AsyncLogging: each thread writes its records to a ring of its own; one    *)
(* backend thread drains the rings it knows into a buffered, rolling file.   *)
(* A record is some units of its thread's stream, counted from 1.            *)
EXTENDS Integers, Sequences, FiniteSets, SequencesExt

CONSTANTS
    Threads,
    Capacity,      \* of a ring, in units: CAPACITY
    BufferSize,    \* of the file's buffer: kBufferSize; half of it is kBufferThreshold
    RollSize, CheckEveryN,
    MaxUnits,      \* bound: units all threads log
    MaxDrops,      \* bound: records dropped
    MaxFlushes     \* bound: flush requests

\* What one record may take: any of it fits into an empty ring.
Sizes == {1, 2}

ASSUME LoggingAssumption ==
    /\ Capacity \in Nat /\ \A n \in Sizes : n <= Capacity
    /\ BufferSize \in Nat /\ RollSize \in Nat /\ CheckEveryN \in Nat

VARIABLES
    pc,            \* what each thread is doing: idle, dirty, write, flush, gone
    registered,    \* threads that have a node
    dead,          \* ThreadBufferNode::is_dead
    mem, head, tail, dropCount, \* the rings
    size,          \* size of the record being pushed
    target,        \* the request a thread in flush() waits for
    buffers, dirty,             \* the registry and its mark
    reqSeq, doneSeq, stop,
    bpc,           \* the backend: top, node, part, release, dead, seq, ended
    local,         \* local_buffers
    i,             \* the node it is at
    seen, pos,     \* the tail it loaded, the units passed on so far
    took, hasData, \* consume() returned data: from this node, from any in this turn
    draining,      \* it has seen the request to stop
    file,          \* [buf, len, disk, written, count, away]: each thread's units in FileUtil's
                   \* buffer and the length of it all, the units written, _writtenBytes up to
                   \* RollSize + 1, _count up to CheckEveryN; history: what was in the buffer of
                   \* files closed by rolling
    dropped, reported, \* history: records dropped, drops the backend has reported
    before         \* history: what had been taken from each ring when a flush was asked for

frontend == <<pc, registered, dead, size, target, reqSeq, before>>
ring     == <<mem, head, tail, dropCount, dropped>>
registry == <<buffers, dirty>>
flags    == <<took, hasData, draining>>
globals  == <<doneSeq, stop, reported>>
backend  == <<bpc, local, i, seen, pos, flags>>
vars == <<frontend, ring, registry, file, backend, globals>>

Nowhere == [t \in Threads |-> <<>>]

Init ==
    /\ pc = [t \in Threads |-> "idle"] /\ registered = {} /\ dead = {}
    /\ mem = [t \in Threads |-> [o \in 0 .. Capacity - 1 |-> 0]]
    /\ head = [t \in Threads |-> 0] /\ tail = [t \in Threads |-> 0]
    /\ dropCount = [t \in Threads |-> 0] /\ dropped = [t \in Threads |-> 0]
    /\ size = [t \in Threads |-> 1] /\ target = [t \in Threads |-> 0]
    /\ buffers = <<>> /\ dirty = FALSE /\ reqSeq = 0 /\ doneSeq = 0 /\ stop = FALSE
    /\ bpc = "top" /\ local = <<>> /\ i = 1 /\ seen = 0 /\ pos = 0 /\ took = FALSE /\ hasData = FALSE /\ draining = FALSE
    /\ file = [buf |-> Nowhere, len |-> 0, disk |-> Nowhere, written |-> 0, count |-> 0, away |-> [t \in Threads |-> {}]]
    /\ reported = [t \in Threads |-> 0] /\ before = [t \in Threads |-> [u \in Threads |-> 0]]

-----------------------------------------------------------------------------
(* The logging threads.                                                      *)

Total(f) == FoldFunction(+, 0, f)
Goto(t, p) == pc' = [pc EXCEPT ![t] = p]

\* Mutant: one unit too many fits.
Fits_OneMore(t, n) == Capacity + 1 - (tail[t] - head[t]) >= n

Fits(t, n) == Capacity - (tail[t] - head[t]) >= n

\* ~Logger and push: the free space is measured, a record that does not fit is counted.
\* The first record registers its thread, under the registry's lock.
Log(t, n) ==
    /\ pc[t] = "idle" /\ Total(tail) + n <= MaxUnits /\ Total(dropped) < MaxDrops
    /\ IF Fits(t, n)
       THEN size' = [size EXCEPT ![t] = n] /\ UNCHANGED <<dropCount, dropped>>
       ELSE /\ dropCount' = [dropCount EXCEPT ![t] = @ + 1] /\ dropped' = [dropped EXCEPT ![t] = @ + 1]
            /\ UNCHANGED size
    /\ Goto(t, IF t \notin registered THEN "dirty" ELSE IF Fits(t, n) THEN "write" ELSE "idle")
    /\ IF t \in registered THEN UNCHANGED <<registered, buffers>>
       ELSE registered' = registered \cup {t} /\ buffers' = Append(buffers, t)
    /\ UNCHANGED <<dead, target, reqSeq, before, mem, head, tail, dirty, file, backend, globals>>

\* Mutant: the registry is not marked.
MarkDirty_Not(t) ==
    /\ pc[t] = "dirty" /\ Goto(t, "write")
    /\ UNCHANGED <<registered, dead, size, target, reqSeq, before, ring, registry, file, backend, globals>>

MarkDirty(t) ==
    /\ pc[t] = "dirty" /\ dirty' = TRUE /\ Goto(t, "write")
    /\ UNCHANGED <<registered, dead, size, target, reqSeq, before, ring, buffers, file, backend, globals>>

\* The bytes go to the ring round its end, then tail publishes them.
Write(t) ==
    /\ pc[t] = "write" /\ Goto(t, "idle")
    /\ LET new == tail[t] + 1 .. tail[t] + size[t] IN
       mem' = [mem EXCEPT ![t] = [o \in DOMAIN @ |->
                   IF \E k \in new : (k - 1) % Capacity = o
                   THEN CHOOSE k \in new : (k - 1) % Capacity = o ELSE @[o]]]
    /\ tail' = [tail EXCEPT ![t] = @ + size[t]] /\ size' = [size EXCEPT ![t] = 1]
    /\ UNCHANGED <<registered, dead, target, reqSeq, before, head, dropCount, dropped, registry, file, backend, globals>>

Flush(t) ==
    /\ pc[t] = "idle" /\ reqSeq < MaxFlushes /\ Goto(t, "flush")
    /\ reqSeq' = reqSeq + 1 /\ target' = [target EXCEPT ![t] = reqSeq']
    /\ before' = [before EXCEPT ![t] = head]
    /\ UNCHANGED <<registered, dead, size, ring, registry, file, backend, globals>>

FlushDone(t) ==
    /\ pc[t] = "flush" /\ doneSeq >= target[t] /\ Goto(t, "idle")
    /\ target' = [target EXCEPT ![t] = 0] /\ before' = [before EXCEPT ![t] = [u \in Threads |-> 0]]
    /\ UNCHANGED <<registered, dead, size, reqSeq, ring, registry, file, backend, globals>>

\* ThreadExiter.
Exit(t) ==
    /\ pc[t] = "idle" /\ t \in registered /\ Goto(t, "gone") /\ dead' = dead \cup {t}
    /\ UNCHANGED <<registered, size, target, reqSeq, before, ring, registry, file, backend, globals>>

\* StopAsyncLogger: the backend is asked to stop and waited for.
RequestStop ==
    /\ ~stop /\ stop' = TRUE
    /\ UNCHANGED <<frontend, ring, registry, file, backend, doneSeq, reported>>

-----------------------------------------------------------------------------
(* LogFile and FileUtil, used by the backend only.                           *)

\* Units go to the file as a run of one thread's, of the given length: a warning of
\* the backend has a length and no units.
Longer(sum, length) == IF sum + length > RollSize THEN RollSize + 1 ELSE sum + length

NewFile(f) == [f EXCEPT !.buf = Nowhere, !.len = 0, !.written = 0]

\* write(): each thread's units, in order.
WriteOut(f, t, units, length) ==
    [f EXCEPT !.disk[t] = @ \o units, !.written = Longer(@, length)]

Flushed(f) ==
    [f EXCEPT !.disk = [t \in Threads |-> @[t] \o f.buf[t]], !.written = Longer(@, f.len),
              !.buf = Nowhere, !.len = 0]

\* FileUtil::append: large data is written at once, after what is buffered; small
\* data is buffered.
Added(f, t, units, length) ==
    IF 2 * length >= BufferSize THEN WriteOut(Flushed(f), t, units, length)
    ELSE LET g == IF f.len + length > BufferSize THEN Flushed(f) ELSE f
         IN  [g EXCEPT !.buf[t] = @ \o units, !.len = @ + length]

\* rollFile: the old file is closed with what is in its buffer.
Rolled(f) == [NewFile(f) EXCEPT !.away = [t \in Threads |-> @[t] \cup ToSet(f.buf[t])]]

\* LogFile::append, what the file may be after it.  _count is never reset: from
\* CheckEveryN appends on every append looks at the clock, which may have reached a
\* new day or the flush interval.
Appends(f, t, units, length) ==
    LET g == Added(f, t, units, length)
        h == [g EXCEPT !.count = IF @ < CheckEveryN THEN @ + 1 ELSE @]
    IN  IF g.written > RollSize THEN {Rolled(g)}
        ELSE {h} \cup IF h.count < CheckEveryN THEN {} ELSE {Rolled(h), Flushed(h)}

-----------------------------------------------------------------------------
(* The backend thread.                                                       *)

\* The turn before ends with a flush if there was data, else with a short sleep.  A
\* registry that is marked is copied and the mark removed, under its lock.
Top ==
    /\ bpc = "top" /\ bpc' = "node" /\ i' = 1 /\ hasData' = FALSE /\ draining' = stop
    /\ file' = IF hasData THEN Flushed(file) ELSE file
    /\ IF dirty /\ ~stop THEN local' = buffers /\ dirty' = FALSE ELSE UNCHANGED <<local, dirty>>
    /\ UNCHANGED <<frontend, ring, buffers, seen, pos, took, globals>>

\* The drops since the last look are written as a warning; the last drain leaves them.
ReportDrops(t) ==
    IF dropCount[t] = 0 \/ draining THEN UNCHANGED <<dropCount, reported, file>>
    ELSE /\ dropCount' = [dropCount EXCEPT ![t] = 0]
         /\ reported' = [reported EXCEPT ![t] = @ + dropCount[t]]
         /\ file' \in Appends(file, t, <<>>, 1)

\* One call of process_func: the units up to the end of the ring or of the data.
Pass(t, from, end) ==
    LET border == (from \div Capacity + 1) * Capacity
        to     == IF end <= border THEN end ELSE border
    IN  /\ file' \in Appends(file, t, [k \in 1 .. to - from |-> mem[t][(from + k - 1) % Capacity]], to - from)
        /\ pos' = to /\ bpc' = IF to = end THEN "release" ELSE "part"

\* consume on the next node's ring.
Node ==
    /\ bpc = "node"
    /\ IF i > Len(local) THEN bpc' = "seq" /\ UNCHANGED <<dropCount, reported, file, seen, pos, took, hasData>>
       ELSE LET t == local[i] IN
            /\ seen' = tail[t] /\ took' = (head[t] < tail[t]) /\ hasData' = (hasData \/ took')
            /\ IF took' THEN Pass(t, head[t], tail[t]) /\ UNCHANGED <<dropCount, reported>>
               ELSE ReportDrops(t) /\ bpc' = "dead" /\ UNCHANGED pos
    /\ UNCHANGED <<frontend, mem, head, tail, dropped, registry, local, i, draining, doneSeq, stop>>

\* The data goes on at the start of the ring.
Part ==
    /\ bpc = "part" /\ Pass(local[i], pos, seen)
    /\ UNCHANGED <<frontend, ring, registry, local, i, seen, flags, globals>>

Release ==
    /\ bpc = "release" /\ bpc' = "dead"
    /\ head' = [head EXCEPT ![local[i]] = seen] /\ ReportDrops(local[i])
    /\ UNCHANGED <<frontend, mem, tail, dropped, registry, local, i, seen, pos, flags, doneSeq, stop>>

\* std::erase: a thread is in the registry once.
Without(q, t) == IF t \in ToSet(q) THEN RemoveAt(q, CHOOSE k \in DOMAIN q : q[k] = t) ELSE q

\* The node of a thread that is gone is erased when nothing was consumed from it in
\* this turn, whatever the thread wrote after that look.
Dead ==
    /\ bpc = "dead" /\ bpc' = "node" /\ seen' = 0 /\ pos' = 0 /\ took' = FALSE
    /\ IF local[i] \in dead /\ ~took /\ ~draining
       THEN buffers' = Without(buffers, local[i]) /\ local' = RemoveAt(local, i) /\ UNCHANGED i
       ELSE i' = i + 1 /\ UNCHANGED <<buffers, local>>
    /\ UNCHANGED <<frontend, ring, dirty, file, hasData, draining, globals>>

\* Mutant: the waiting threads are released before the file is flushed.
AnswerFlush_Early ==
    /\ bpc = "seq" /\ bpc' = IF draining THEN "ended" ELSE "top"
    /\ doneSeq' = IF draining THEN doneSeq ELSE reqSeq
    /\ UNCHANGED <<frontend, ring, registry, file, local, i, seen, pos, flags, stop, reported>>

\* A flush asked for so far is done; the last drain only ends with one.
AnswerFlush ==
    /\ bpc = "seq"
    /\ IF draining
       THEN bpc' = "ended" /\ file' = Flushed(file) /\ UNCHANGED doneSeq
       ELSE /\ bpc' = "top" /\ doneSeq' = reqSeq
            /\ file' = IF reqSeq > doneSeq THEN Flushed(file) ELSE file
    /\ UNCHANGED <<frontend, ring, registry, local, i, seen, pos, flags, stop, reported>>

-----------------------------------------------------------------------------
Backend == Top \/ Node \/ Part \/ Release \/ Dead \/ AnswerFlush
OwnStep(t) == MarkDirty(t) \/ Write(t) \/ FlushDone(t)
Next ==
    \/ Backend \/ RequestStop
    \/ \E t \in Threads : OwnStep(t) \/ Flush(t) \/ Exit(t) \/ \E n \in Sizes : Log(t, n)

\* The system schedules every thread.
Spec == Init /\ [][Next]_vars /\ WF_vars(Backend) /\ \A t \in Threads : WF_vars(OwnStep(t))

-----------------------------------------------------------------------------
Increasing(q) == \A a, b \in DOMAIN q : a < b => q[a] < q[b]
Passed(f, t) == f.disk[t] \o f.buf[t]
Taken(t) == IF bpc \in {"part", "release"} /\ local[i] = t THEN pos ELSE head[t]
\* The first n units of thread t are written, unless rolled away.
Written(f, t, n) == 1 .. n \subseteq ToSet(f.disk[t]) \cup f.away[t]
\* The first n units of thread t are kept: each once, in order, unless rolled away.
Kept(f, t, n) ==
    /\ Increasing(Passed(f, t))
    /\ ToSet(Passed(f, t)) \cup f.away[t] = 1 .. n /\ ToSet(Passed(f, t)) \cap f.away[t] = {}
Erased(t) == t \in registered /\ t \notin ToSet(buffers)

\* What the backend took from a ring is in the file or its buffer, each unit once and
\* in the order the thread wrote it, except what was in the buffer of a file that was
\* rolled (~FileUtil does not flush, LogFile.h:43-47); dropped records are counted
\* until they are reported; only rings of threads that are gone are erased.
RecordsKept ==
    \A t \in Threads :
        /\ Kept(file, t, Taken(t))
        /\ dropped[t] = dropCount[t] + reported[t]
        /\ Erased(t) => t \in dead

\* When flush() returns, what the backend had taken from any ring when it was called
\* has been written: the request is answered only after a flush of the file that
\* follows it (AsyncLogging.h:111-121).
FlushCovers ==
    [][\A t \in Threads : pc[t] = "flush" /\ pc'[t] = "idle" =>
         \A u \in Threads : Written(file, u, before[t][u])]_vars

\* The system comes to rest, as what is logged here is bounded, and then, unless the
\* engine was stopped, every flush() has returned and every ring is drained to the
\* file, except one erased in the moment its thread wrote last and ended.
Served ==
    <>[](stop \/ \A t \in Threads : /\ pc[t] # "flush"
                                    /\ Erased(t) \/ (head[t] = tail[t] /\ file.buf[t] = <<>>))
=============================================================================
