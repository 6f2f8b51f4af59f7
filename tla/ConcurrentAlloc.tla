-------------------------- MODULE ConcurrentAlloc --------------------------
(* malloc and free: a list of free objects per thread, the central cache     *)
(* that cuts spans into objects and collects them again, and, for large      *)
(* requests, whole spans.  One size class, whose spans have one page.        *)
EXTENDS PageCache

CONSTANTS
    PerPage,       \* objects a page gives
    MaxNum,        \* NumMoveSize: the most objects moved to a thread at once
    MaxBatch,      \* MAX_BATCH: the spans ReleaseListToSpans handles under one lock
    Large,         \* input: pages of a large request
    Exiting,       \* input: the threads that end
    MaxMallocs     \* bound: requests

VARIABLES
    bucket,        \* the spans of the size class, front first; what the code does under the
                   \* bucket's lock is one step here
    tls,           \* whether the thread has a ThreadCache
    list, maxSize, \* its FreeList and the slow start limit
    objs, bigs,    \* what the program holds: a bag of small objects, and spans of large ones
    pc,            \* what a thread does outside the page heap
    chain,         \* objects on their way to the central cache
    batches,       \* ReleaseListToSpans: those grouped by span
    empties,       \* spans to give back to the page heap
    exited,        \* the thread's ThreadCacheManager has run
    mallocs        \* bound

cacheVars == <<list, maxSize, tls>>
vars == <<heapVars, bucket, cacheVars, objs, bigs, pc, chain, batches, empties,
          exited, mallocs>>

ObjectsOf(s) == {<<p, i>> : p \in PagesOf(sp[s]), i \in 1 .. PerPage}

Init ==
    /\ PageInit
    /\ bucket = <<>>
    /\ list = [t \in Threads |-> <<>>] /\ maxSize = [t \in Threads |-> 1]
    /\ tls = [t \in Threads |-> FALSE]
    /\ objs = EmptyBag /\ bigs = {}
    /\ pc = [t \in Threads |-> "user"]
    /\ chain = [t \in Threads |-> <<>>] /\ batches = [t \in Threads |-> <<>>]
    /\ empties = [t \in Threads |-> <<>>]
    /\ exited = {} /\ mallocs = 0

Go(t, where) == pc' = [pc EXCEPT ![t] = where]
Ask          == mallocs < MaxMallocs /\ mallocs' = mallocs + 1

------------------------------------------------------------------------------
\* malloc of a small object: from the list, or as many more as the slow start allows.
MallocSmall(t) ==
    /\ pc[t] = "user" /\ Ask
    /\ tls' = [tls EXCEPT ![t] = TRUE]
    /\ IF list[t] # <<>>
       THEN /\ objs' = objs (+) SetToBag({Head(list[t])})
            /\ list' = [list EXCEPT ![t] = Tail(@)]
            /\ UNCHANGED <<maxSize, pc>>
       ELSE /\ maxSize' = [maxSize EXCEPT ![t] = IF 2 * @ < MaxNum THEN 2 * @ ELSE MaxNum]
            /\ Go(t, "fetch")
            /\ UNCHANGED <<objs, list>>
    /\ UNCHANGED <<heapVars, bucket, bigs, chain, batches, empties, exited>>

\* FetchRangeObj takes up to maxSize objects off a span, with the bucket locked; the first
\* is the program's, the rest goes on the list.
TakeAsked(t, s, f) ==
    LET n == IF Len(f[s].free) < maxSize[t] THEN Len(f[s].free) ELSE maxSize[t]
    IN  /\ sp' = [f EXCEPT ![s].free = SubSeq(@, n + 1, Len(@)), ![s].useCount = @ + maxSize[t]]
        /\ objs' = objs (+) SetToBag({Head(f[s].free)})
        /\ list' = [list EXCEPT ![t] = SubSeq(f[s].free, 2, n) \o @]
        /\ Go(t, "user")
TakeKept(t, s, f) ==
    LET n == IF Len(f[s].free) < maxSize[t] THEN Len(f[s].free) ELSE maxSize[t]
    IN  /\ sp' = [f EXCEPT ![s].free = SubSeq(@, n + 1, Len(@)), ![s].useCount = @ + n]
        /\ objs' = objs (+) SetToBag({Head(f[s].free)})
        /\ list' = [list EXCEPT ![t] = SubSeq(f[s].free, 1, n) \o @]
        /\ Go(t, "user")
Take(t, s, f) ==
    LET n == IF Len(f[s].free) < maxSize[t] THEN Len(f[s].free) ELSE maxSize[t]
    IN  /\ sp' = [f EXCEPT ![s].free = SubSeq(@, n + 1, Len(@)), ![s].useCount = @ + n]
        /\ objs' = objs (+) SetToBag({Head(f[s].free)})
        /\ list' = [list EXCEPT ![t] = SubSeq(f[s].free, 2, n) \o @]
        /\ Go(t, "user")

\* With no object in the bucket the lock is given up for a new span.
FetchRangeObj(t) ==
    /\ pc[t] = "fetch"
    /\ \/ \E i \in DOMAIN bucket :
            /\ sp[bucket[i]].free # <<>> /\ \A j \in 1 .. i - 1 : sp[bucket[j]].free = <<>>
            /\ Take(t, bucket[i], sp)
            /\ UNCHANGED pg
       \/ /\ \A i \in DOMAIN bucket : sp[bucket[i]].free = <<>>
          /\ CallNewSpan(t, 1) /\ Go(t, "span")
          /\ UNCHANGED <<sp, objs, list>>
    /\ UNCHANGED <<shardOf, ready, lock, PageMap, pool, hot, cold, total, home, bucket,
                   tls, maxSize, bigs, chain, batches, empties, exited, mallocs>>

\* GetOneSpan: the new span is cut into objects before the bucket is locked again.
CarveSpan(t) ==
    LET s == pg[t].span
        cut == [i \in 1 .. sp[s].n * PerPage |->
                   <<sp[s].start + (i - 1) \div PerPage, ((i - 1) % PerPage) + 1>>]
    IN  /\ pc[t] = "span" /\ At(t, "done")
        /\ pg' = [pg EXCEPT ![t] = IF s = NoSpan THEN Idle ELSE [@ EXCEPT !.pc = "carved"]]
        /\ IF s = NoSpan THEN Go(t, "user") /\ UNCHANGED sp
           ELSE Go(t, "push") /\ sp' = [sp EXCEPT ![s].use = TRUE, ![s].small = TRUE, ![s].free = cut]
        /\ UNCHANGED <<shardOf, ready, lock, PageMap, pool, hot, cold, total, home, bucket,
                       cacheVars, objs, bigs, chain, batches, empties, exited, mallocs>>

PushSpan(t) ==
    /\ pc[t] = "push"
    /\ bucket' = <<pg[t].span>> \o bucket
    /\ Take(t, pg[t].span, sp)
    /\ pg' = [pg EXCEPT ![t] = Idle]
    /\ UNCHANGED <<shardOf, ready, lock, PageMap, pool, hot, cold, total, home, tls,
                   maxSize, bigs, chain, batches, empties, exited, mallocs>>

\* malloc of a large one: a span of its own.
MallocLarge(t) ==
    /\ \/ /\ pc[t] = "user" /\ Ask
          /\ \E k \in Large : CallNewSpan(t, k)
          /\ Go(t, "large")
          /\ UNCHANGED <<sp, bigs>>
       \/ /\ pc[t] = "large" /\ At(t, "done")
          /\ IF pg[t].span = NoSpan THEN UNCHANGED <<sp, bigs>>
             ELSE /\ sp' = [sp EXCEPT ![pg[t].span].small = FALSE, ![pg[t].span].use = TRUE]
                  /\ bigs' = bigs \cup {pg[t].span}
          /\ pg' = [pg EXCEPT ![t] = Idle] /\ Go(t, "user")
          /\ UNCHANGED mallocs
    /\ UNCHANGED <<shardOf, ready, lock, PageMap, pool, hot, cold, total, home, bucket,
                   cacheVars, objs, chain, batches, empties, exited>>

------------------------------------------------------------------------------
\* free(ptr): onto the thread's list, which returns MaxNum objects when it is too long.
\* free(ptr, size) of a thread without a cache goes to the central cache, free(ptr) makes
\* a cache.
FreeSmall(t) ==
    /\ pc[t] = "user"
    /\ \E o \in DOMAIN objs :
          /\ sp[SpanAt(o[1])].small
          /\ objs' = objs (-) SetToBag({o})
          /\ \/ LET l == <<o>> \o list[t]
                IN  /\ tls' = [tls EXCEPT ![t] = TRUE]
                    /\ IF Len(l) >= maxSize[t] + MaxNum
                       THEN /\ chain' = [chain EXCEPT ![t] = SubSeq(l, 1, MaxNum)]
                            /\ list' = [list EXCEPT ![t] = SubSeq(l, MaxNum + 1, Len(l))]
                            /\ Go(t, "group")
                       ELSE list' = [list EXCEPT ![t] = l] /\ UNCHANGED <<chain, pc>>
                    /\ UNCHANGED maxSize
             \/ /\ ~tls[t]
                /\ chain' = [chain EXCEPT ![t] = <<o>>] /\ Go(t, "group")
                /\ UNCHANGED cacheVars
    /\ UNCHANGED <<heapVars, bucket, bigs, batches, empties, exited, mallocs>>

FreeLarge(t) ==
    /\ pc[t] = "user"
    /\ \E s \in bigs :
          /\ bigs' = bigs \ {s}
          /\ CallReleaseSpan(t, SpanAt(sp[s].start))
    /\ Go(t, "back")
    /\ UNCHANGED <<shardOf, ready, lock, PageMap, sp, pool, hot, cold, total, home, bucket,
                   cacheVars, objs, chain, batches, empties, exited, mallocs>>

\* ~ThreadCache gives the whole list back.
Exit(t) ==
    /\ t \in Exiting \ exited /\ pc[t] = "user"
    /\ exited' = exited \cup {t}
    /\ tls' = [tls EXCEPT ![t] = FALSE] /\ maxSize' = [maxSize EXCEPT ![t] = 1]
    /\ chain' = [chain EXCEPT ![t] = list[t]]
    /\ list' = [list EXCEPT ![t] = <<>>]
    /\ Go(t, IF list[t] = <<>> THEN "user" ELSE "group")
    /\ UNCHANGED <<heapVars, bucket, objs, bigs, batches, empties, mallocs>>

\* ReleaseListToSpans: the objects are grouped by the span the page map gives, without a
\* lock, until MaxBatch spans are met or the list ends.
Group(t) ==
    LET c == chain[t]
        span(i) == SpanAt(c[i][1])
        spans(n) == {span(i) : i \in 1 .. n}
        n == CHOOSE m \in 1 .. Len(c) :
                /\ Cardinality(spans(m)) <= MaxBatch
                /\ m = Len(c) \/ Cardinality(spans(m + 1)) > MaxBatch
        first == SelectSeq([i \in 1 .. n |-> i], LAMBDA i : span(i) \notin spans(i - 1))
    IN  /\ pc[t] = "group"
        /\ batches' = [batches EXCEPT ![t] =
              [b \in DOMAIN first |->
                  [span |-> span(first[b]),
                   objs |-> Reverse(SelectSeq(SubSeq(c, 1, n),
                                              LAMBDA o : SpanAt(o[1]) = span(first[b])))]]]
        /\ chain' = [chain EXCEPT ![t] = SubSeq(c, n + 1, Len(c))]
        /\ Go(t, "flush")
        /\ UNCHANGED <<heapVars, bucket, cacheVars, objs, bigs, empties, exited, mallocs>>

\* Under the lock each group is put on its span; a span all of whose objects are back
\* leaves the bucket, for the page heap.
Flush(t) ==
    LET group(s) == {b \in DOMAIN batches[t] : batches[t][b].span = s}
        given(s) == batches[t][CHOOSE b \in group(s) : TRUE].objs
        idle(s)  == group(s) # {} /\ sp[s].useCount = Len(given(s))
        out      == SelectSeq(batches[t], LAMBDA b : idle(b.span))
    IN  /\ pc[t] = "flush"
        /\ sp' = [s \in Spans |->
              IF group(s) = {} THEN sp[s]
              ELSE [sp[s] EXCEPT !.useCount = @ - Len(given(s)),
                                 !.free = IF idle(s) THEN <<>> ELSE given(s) \o @]]
        /\ bucket' = SelectSeq(bucket, LAMBDA s : ~idle(s))
        /\ empties' = [empties EXCEPT ![t] = [b \in DOMAIN out |-> out[b].span]]
        /\ batches' = [batches EXCEPT ![t] = <<>>]
        /\ Go(t, "give")
        /\ UNCHANGED <<shardOf, ready, lock, PageMap, pool, hot, cold, total, home, pg,
                       cacheVars, objs, bigs, chain, exited, mallocs>>

\* The empty spans go back one by one; then the rest of the list is grouped.
Give(t) ==
    /\ \/ /\ pc[t] = "give" /\ empties[t] # <<>>
          /\ CallReleaseSpan(t, Head(empties[t]))
          /\ empties' = [empties EXCEPT ![t] = Tail(@)]
          /\ Go(t, "back")
       \/ /\ pc[t] = "give" /\ empties[t] = <<>>
          /\ Go(t, IF chain[t] = <<>> THEN "user" ELSE "group")
          /\ UNCHANGED <<empties, pg>>
       \/ /\ pc[t] = "back" /\ At(t, "done")
          /\ pg' = [pg EXCEPT ![t] = Idle]
          /\ Go(t, "give")
          /\ UNCHANGED empties
    /\ UNCHANGED <<shardOf, ready, lock, PageMap, sp, pool, hot, cold, total, home, bucket,
                   cacheVars, objs, bigs, chain, batches, exited, mallocs>>

Heap(t) ==
    /\ PageStep(t)
    /\ UNCHANGED <<bucket, cacheVars, objs, bigs, pc, chain, batches, empties, exited,
                   mallocs>>

Next == \E t \in Threads :
    \/ Heap(t) \/ MallocSmall(t) \/ FetchRangeObj(t) \/ CarveSpan(t) \/ PushSpan(t) \/ MallocLarge(t)
    \/ FreeSmall(t) \/ FreeLarge(t) \/ Exit(t) \/ Group(t) \/ Flush(t) \/ Give(t)

Spec == Init /\ [][Next]_vars

------------------------------------------------------------------------------
\* What the program holds are blocks of memory, as the abstract heap has them.
Held == [b \in {{o} : o \in DOMAIN objs} |-> BagCardinality([o \in b |-> objs[o]])]
        (+) SetToBag({ObjectsOf(s) : s \in bigs})
Abstract == INSTANCE Heap WITH held <- Held

\* The caches and shards together are a heap: no memory is given out while the program
\* still has it, whatever threads allocate and free it, and free takes back what was given.
ImplementsHeap == Abstract!Spec

\* Every object of a span in the bucket is in one place: with the program, on one thread's
\* list, on its way back, or on its span; and the span counts those that are away, which
\* is what decides when its page goes back to the heap.
ObjectsAccounted ==
    LET carved == {pg[t].span : t \in {u \in Threads : pc[u] = "push"}}
        spans == ToSet(bucket) \cup carved
        lists(o) == Cardinality({t \in Threads : Contains(list[t], o)})
                    + Cardinality({t \in Threads : Contains(chain[t], o)})
                    + Cardinality({t \in Threads : \E b \in DOMAIN batches[t] :
                                                      Contains(batches[t][b].objs, o)})
                    + CopiesIn(o, objs)
        all == DOMAIN objs \cup UNION {ToSet(list[t]) \cup ToSet(chain[t]) : t \in Threads}
    IN  /\ \A s \in spans :
              /\ \A o \in ObjectsOf(s) :
                    lists(o) + Cardinality({i \in DOMAIN sp[s].free : sp[s].free[i] = o}) = 1
              /\ sp[s].useCount + Len(sp[s].free) = sp[s].n * PerPage
              /\ sp[s].use
        /\ \A o \in all : PageMap[o[1]] \in ToSet(bucket)
        /\ \A t \in Threads : IsInjective(list[t])
=============================================================================
