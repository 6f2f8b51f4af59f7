----------------------------- MODULE PageCache -----------------------------
(* The page heap: shards that hand out runs of pages (spans) and take them   *)
(* back, merging neighbours through the page map all shards share.  A shard  *)
(* works under its own lock; the page map, and the spans it leads to, are    *)
(* read without the lock of the shard they belong to.                        *)
EXTENDS Integers, Sequences, FiniteSets, SequencesExt

CONSTANTS
    Threads, Shards,
    NoSpan,        \* nullptr
    None,          \* the holder of a free lock
    Assignments,   \* the ways threads are given their shards
    P,             \* bound: pages the system has
    PoolSize,      \* bound: span objects a pool has, never exhausted (Refill makes more)
    NPAGES,        \* spans of fewer pages are carved from batches of NPAGES - 1
    Threshold      \* _releaseThreshold

VARIABLES
    shardOf,       \* the shard index each thread keeps
    ready,         \* _init_state: 0, 1 (being built) or 2
    lock,          \* _mutex: the thread that holds the shard
    PageMap,       \* page -> span
    sp,            \* the fields of the span objects, which a deleted one keeps
    pool,          \* _spanPool: the objects not constructed, the last one deleted first
    hot, cold,     \* per shard, the free spans, newest first; the bucket of n pages is
                   \* those of length n
    total,         \* _totalFreePages
    home,          \* history: the shard and the system allocation a page came with
    pg             \* what a thread does in the heap, pc and locals

heapVars == <<shardOf, ready, lock, PageMap, sp, pool, hot, cold, total, home, pg>>

Pages  == 1 .. P
Spans  == Shards \X (1 .. PoolSize)
NoHome == [shard |-> None, first |-> 0]
Fresh  == [start |-> 0, n |-> 0, use |-> FALSE, cold |-> FALSE, shard |-> 0,
           small |-> FALSE, useCount |-> 0, free |-> <<>>]
Idle   == [pc |-> "idle", shard |-> 0, k |-> 0, span |-> NoSpan, near |-> NoSpan]

PagesOf(x) == x.start .. x.start + x.n - 1
EndsFirst(x) == {x.start}
Ends(x)    == {x.start, x.start + x.n - 1}

PageInit ==
    /\ shardOf \in Assignments
    /\ ready = [s \in Shards |-> 0]
    /\ lock = [s \in Shards |-> None]
    /\ PageMap = [p \in 0 .. P + 1 |-> NoSpan]
    /\ sp = [s \in Spans |-> Fresh]
    /\ pool = [s \in Shards |-> [i \in 1 .. PoolSize |-> <<s, i>>]]
    /\ hot = [s \in Shards |-> <<>>] /\ cold = [s \in Shards |-> <<>>]
    /\ total = [s \in Shards |-> 0]
    /\ home = [p \in Pages |-> NoHome]
    /\ pg = [t \in Threads |-> Idle]

At(t, pc)      == pg[t].pc = pc
Enter(t)       == /\ lock[pg[t].shard] \in {None, t}
                  /\ lock' = [lock EXCEPT ![pg[t].shard] = t]
Leave(t)       == lock' = [lock EXCEPT ![pg[t].shard] = None]
\* The whole critical section is one step: the lock is free before and after it.
Through(t)     == lock[pg[t].shard] \in {None, t} /\ Leave(t)
Goto(t, pc)    == pg' = [pg EXCEPT ![t].pc = pc]
Return(t, s)   == pg' = [pg EXCEPT ![t].pc = "done", ![t].span = s]

------------------------------------------------------------------------------
\* PageHeap::NewSpan goes to the shard of the thread, ReleaseSpan to that of the span.
CallNewSpan(t, k)   == pg' = [pg EXCEPT ![t] = [Idle EXCEPT !.pc = "route", !.k = k,
                                                            !.shard = shardOf[t]]]
CallReleaseSpan(t, s) == pg' = [pg EXCEPT ![t] = [Idle EXCEPT !.pc = "route", !.span = s,
                                                              !.shard = sp[s].shard]]

\* GetShard: the first thread builds the shard, the others wait for it.
GetShard(t) ==
    LET s == pg[t].shard
        go == IF pg[t].span = NoSpan THEN "new" ELSE "release"
    IN  /\ \/ At(t, "route") /\ ready[s] = 0 /\ Goto(t, "build") /\ ready' = [ready EXCEPT ![s] = 1]
           \/ At(t, "route") /\ ready[s] = 2 /\ Goto(t, go) /\ UNCHANGED ready
           \/ At(t, "build") /\ Goto(t, go) /\ ready' = [ready EXCEPT ![s] = 2]
        /\ UNCHANGED <<shardOf, lock, PageMap, sp, pool, hot, cold, total, home>>

------------------------------------------------------------------------------
\* ObjectPool: New constructs the object deleted last; Delete leaves its fields as they are.
New(s)       == /\ pool[s] # <<>>
                /\ pool' = [pool EXCEPT ![s] = Tail(@)]
                /\ sp' = [sp EXCEPT ![Head(pool[s])] = Fresh]
Delete(s, x) == [pool EXCEPT ![s] = <<x>> \o @]

\* SpanList: in at the front, out from anywhere.
PushFront(lists, s, x) == [lists EXCEPT ![s] = <<x>> \o @]
Erase(lists, x)        == [s \in Shards |-> Remove(lists[s], x)]

\* The best fit in a list: the newest of the shortest spans of at least k pages.
Best(list, k) ==
    LET fits == {i \in 1 .. Len(list) : sp[list[i]].n >= k}
        best == {i \in fits : \A j \in fits : sp[list[i]].n < sp[list[j]].n
                                \/ (sp[list[i]].n = sp[list[j]].n /\ i <= j)}
    IN  IF fits = {} THEN NoSpan ELSE list[CHOOSE i \in best : TRUE]

SpanAt(p) == PageMap[p]
Map(pages, s) == PageMap' = [p \in DOMAIN PageMap |-> IF p \in pages THEN s ELSE PageMap[p]]

\* Phases 1 and 2: the hot spans, then the cold ones.  An exact fit is handed out; of a
\* longer one the rest becomes a span of its own, constructed here and filled in by
\* SplitSpan.  With nothing to give the lock is released and the system asked.
NewSpanPick(t) ==
    LET s == pg[t].shard
        h == Best(hot[s], pg[t].k)
        x == IF h # NoSpan THEN h ELSE Best(cold[s], pg[t].k)
    IN  /\ At(t, "new")
        /\ \/ /\ x = NoSpan
              /\ Through(t) /\ Goto(t, "system")
              /\ UNCHANGED <<PageMap, sp, pool, hot, cold, total>>
           \/ /\ x # NoSpan
              /\ IF h # NoSpan
                 THEN /\ hot' = Erase(hot, x)
                      /\ total' = [total EXCEPT ![s] = @ - sp[x].n]
                      /\ UNCHANGED cold
                 ELSE /\ cold' = Erase(cold, x)
                      /\ UNCHANGED <<hot, total>>
              /\ \/ /\ sp[x].n = pg[t].k
                    /\ Map(PagesOf(sp[x]), x)
                    /\ sp' = [sp EXCEPT ![x].use = TRUE, ![x].cold = FALSE]
                    /\ Through(t) /\ Return(t, x)
                    /\ UNCHANGED pool
                 \/ /\ sp[x].n > pg[t].k
                    /\ New(s) /\ Enter(t)
                    /\ pg' = [pg EXCEPT ![t].pc = "split", ![t].span = x, ![t].near = Head(pool[s])]
                    /\ UNCHANGED PageMap
        /\ UNCHANGED <<shardOf, ready, home>>

\* The rest keeps the temperature of the span it was cut from.
SplitSpan(t) ==
    LET s == pg[t].shard
        k == pg[t].k
        x == sp[pg[t].span]
        rest == [Fresh EXCEPT !.start = x.start + k, !.n = x.n - k, !.cold = x.cold, !.shard = s]
    IN  /\ At(t, "split")
        /\ sp' = [sp EXCEPT ![pg[t].near] = rest, ![pg[t].span].n = k,
                            ![pg[t].span].use = TRUE, ![pg[t].span].cold = FALSE]
        /\ IF x.cold THEN cold' = PushFront(cold, s, pg[t].near) /\ UNCHANGED <<hot, total>>
                     ELSE /\ hot' = PushFront(hot, s, pg[t].near)
                          /\ total' = [total EXCEPT ![s] = @ + rest.n]
                          /\ UNCHANGED cold
        /\ PageMap' = [p \in DOMAIN PageMap |->
              CASE p \in x.start .. x.start + k - 1 -> pg[t].span
                [] p \in Ends(rest)                 -> pg[t].near
                [] OTHER                            -> PageMap[p]]
        /\ Leave(t) /\ Return(t, pg[t].span)
        /\ UNCHANGED <<shardOf, ready, pool, home>>

\* The runs of n pages the system can give: mmap, which fails by giving none.
FreeRuns(n) == {a \in Pages : a + n - 1 <= P /\ \A p \in a .. a + n - 1 : home[p] = NoHome}

\* Phase 3: SystemAlloc, without the lock, gives pages nobody has, or fails.
SystemAlloc(t) ==
    LET n == IF pg[t].k >= NPAGES THEN pg[t].k ELSE NPAGES - 1
    IN  /\ At(t, "system")
        /\ \/ \E a \in FreeRuns(n) :
                /\ home' = [p \in Pages |-> IF p \in a .. a + n - 1
                                            THEN [shard |-> pg[t].shard, first |-> a] ELSE home[p]]
                /\ pg' = [pg EXCEPT ![t].pc = "object", ![t].near = a]
           \/ Return(t, NoSpan) /\ UNCHANGED home
        /\ UNCHANGED <<shardOf, ready, lock, PageMap, sp, pool, hot, cold, total>>

\* A span object for the pages: constructed first ...
NewSpanObject(t) ==
    /\ At(t, "object") /\ Enter(t)
    /\ New(pg[t].shard)
    /\ pg' = [pg EXCEPT ![t].pc = "map", ![t].span = Head(pool[pg[t].shard])]
    /\ UNCHANGED <<shardOf, ready, PageMap, hot, cold, total, home>>

\* ... then filled in and mapped.  A large one is handed out; a batch becomes a free span
\* and the search begins again under the same lock.  Without memory for a node of the page
\* map all is undone.
NewSpanMap(t) ==
    LET s == pg[t].shard
        x == pg[t].span
        large == pg[t].k >= NPAGES
        new == [Fresh EXCEPT !.start = pg[t].near, !.n = IF large THEN pg[t].k ELSE NPAGES - 1,
                             !.shard = s, !.use = large]
    IN  /\ At(t, "map")
        /\ \/ /\ Map(IF large THEN PagesOf(new) ELSE Ends(new), x)
              /\ sp' = [sp EXCEPT ![x] = new]
              /\ IF large
                 THEN Leave(t) /\ Return(t, x) /\ UNCHANGED <<hot, total>>
                 ELSE /\ hot' = PushFront(hot, s, x)
                      /\ total' = [total EXCEPT ![s] = @ + new.n]
                      /\ pg' = [pg EXCEPT ![t].pc = "new", ![t].span = NoSpan, ![t].near = NoSpan]
                      /\ UNCHANGED lock
              /\ UNCHANGED <<pool, home>>
           \/ /\ pool' = Delete(s, x)
              /\ home' = [p \in Pages |-> IF p \in PagesOf(new) THEN NoHome ELSE home[p]]
              /\ Leave(t) /\ Return(t, NoSpan)
              /\ UNCHANGED <<PageMap, sp, hot, total>>
        /\ UNCHANGED <<shardOf, ready, cold>>

------------------------------------------------------------------------------
\* ReleaseSpan looks first to the left, then to the right.
SideOnce == [left |-> "file", right |-> "file"]
Side == [left |-> "right", right |-> "file"]

ReleaseSpan(t) ==
    /\ At(t, "release") /\ Enter(t) /\ Goto(t, "left")
    /\ UNCHANGED <<shardOf, ready, PageMap, sp, pool, hot, cold, total, home>>

\* The neighbour the page map knows ...
LookAside(t) ==
    /\ pg[t].pc \in DOMAIN Side
    /\ LET x == sp[pg[t].span]
           m == SpanAt(IF At(t, "left") THEN x.start - 1 ELSE x.start + x.n)
       IN  pg' = [pg EXCEPT ![t].near = m,
                            ![t].pc = IF m = NoSpan THEN Side[@]
                                      ELSE IF At(t, "left") THEN "mergeLeft" ELSE "mergeRight"]
    /\ UNCHANGED <<shardOf, ready, lock, PageMap, sp, pool, hot, cold, total, home>>

\* ... is taken in if it is free and, as far as its fields say, of this shard.
Merge(t) ==
    LET s == pg[t].shard
        m == pg[t].near
        x == sp[m]
        here == IF At(t, "mergeLeft") THEN "left" ELSE "right"
    IN  /\ pg[t].pc \in {"mergeLeft", "mergeRight"}
        /\ \/ /\ x.use \/ x.shard # s
              /\ pg' = [pg EXCEPT ![t].near = NoSpan, ![t].pc = Side[here]]
              /\ UNCHANGED <<sp, pool, hot, cold, total>>
           \/ /\ ~x.use /\ x.shard = s
              /\ hot' = Erase(hot, m)
              /\ cold' = Erase(cold, m)
              /\ total' = [total EXCEPT ![s] = @ - IF x.cold THEN 0 ELSE x.n]
              /\ sp' = [sp EXCEPT ![pg[t].span].start = IF here = "left" THEN x.start ELSE @,
                                  ![pg[t].span].n = @ + x.n]
              /\ pool' = Delete(s, m)
              /\ pg' = [pg EXCEPT ![t].near = NoSpan, ![t].pc = here]
        /\ UNCHANGED <<shardOf, ready, lock, PageMap, home>>

\* ReleaseSomeSpansToSystem: the longest hot spans turn cold, the newest of a length
\* first, until no more than the threshold is hot.
Longest(list, f) ==
    list[CHOOSE i \in DOMAIN list : \A j \in DOMAIN list :
            f[list[i]].n > f[list[j]].n \/ (f[list[i]].n = f[list[j]].n /\ i <= j)]
Cooled(h, c, n, f) ==
    LET after[i \in 0 .. Len(h)] ==
          IF i = 0 THEN [hot |-> h, cold |-> c, total |-> n]
          ELSE LET a == after[i - 1]
                   x == Longest(a.hot, f)
               IN  IF a.total <= Threshold THEN a
                   ELSE [hot |-> Remove(a.hot, x), cold |-> <<x>> \o a.cold,
                         total |-> a.total - f[x].n]
    IN  after[Len(h)]

FileSpan(t) ==
    LET s == pg[t].shard
        x == pg[t].span
        filed == [sp EXCEPT ![x].use = FALSE, ![x].cold = FALSE]
        end == Cooled(<<x>> \o hot[s], cold[s], total[s] + sp[x].n, filed)
    IN  /\ At(t, "file")
        /\ Map(Ends(sp[x]), x)
        /\ hot' = [hot EXCEPT ![s] = end.hot] /\ cold' = [cold EXCEPT ![s] = end.cold]
        /\ total' = [total EXCEPT ![s] = end.total]
        /\ sp' = [y \in Spans |-> IF Contains(end.cold, y) THEN [filed[y] EXCEPT !.cold = TRUE]
                                  ELSE filed[y]]
        /\ Leave(t) /\ Return(t, NoSpan)
        /\ UNCHANGED <<shardOf, ready, pool, home>>

PageStep(t) ==
    \/ GetShard(t) \/ NewSpanPick(t) \/ SplitSpan(t) \/ SystemAlloc(t) \/ NewSpanObject(t)
    \/ NewSpanMap(t) \/ ReleaseSpan(t) \/ LookAside(t) \/ Merge(t) \/ FileSpan(t)
------------------------------------------------------------------------------
live == Spans \ UNION {ToSet(pool[s]) : s \in Shards}
InHand == {pg[t].span : t \in {u \in Threads : pg[u].pc \notin {"idle", "done", "carved", "route", "build"}}}
          \cup {pg[t].near : t \in {u \in Threads : pg[u].pc = "split"}}
Listed(s) == ToSet(hot[s]) \cup ToSet(cold[s])
SumOf(list) == FoldSeq(LAMBDA x, n : sp[x].n + n, 0, list)

\* Every page the system gave belongs to one span, of the shard it came with, and the page
\* map says so where it will be read: at the ends of a free span, everywhere in a used
\* one.  A span nobody works on is used or in one list of its shard, hot or cold as it is
\* marked, and the shard counts its hot pages.
PagesOwned ==
    /\ \A x, y \in live : x # y => PagesOf(sp[x]) \cap PagesOf(sp[y]) = {}
    /\ {p \in Pages : home[p] # NoHome}
         = UNION {PagesOf(sp[x]) : x \in live}
           \cup UNION {{p \in Pages : home[p].first = pg[t].near} :
                         t \in {u \in Threads : pg[u].pc \in {"object", "map"}}}
    /\ \A x \in live \ InHand :
          /\ \A p \in PagesOf(sp[x]) : home[p].shard = sp[x].shard
          /\ \A p \in (IF sp[x].use THEN PagesOf(sp[x]) ELSE Ends(sp[x])) : PageMap[p] = x
          /\ ~sp[x].use => Contains(IF sp[x].cold THEN cold[sp[x].shard] ELSE hot[sp[x].shard], x)
    /\ \A s \in Shards :
          /\ Listed(s) \subseteq {x \in live \ InHand : ~sp[x].use /\ sp[x].shard = s}
          /\ total[s] = SumOf(hot[s])

\* "Merging across shards is forbidden" (PageCache.cpp:254): the neighbour a shard is about
\* to take in is a span of its own.
NeverAcrossShards ==
    \A t \in Threads : LET m == pg[t].near IN
        /\ pg[t].pc \in {"mergeLeft", "mergeRight"}
        /\ ~sp[m].use /\ sp[m].shard = pg[t].shard
        => m \in live /\ m[1] = pg[t].shard

\* Neighbouring free spans of a shard are merged: where two of them meet, each side came
\* from the system on its own.
Coalesced ==
    \A s \in Shards : \A x, y \in Listed(s) :
        sp[x].start + sp[x].n = sp[y].start => home[sp[y].start].first = sp[y].start
=============================================================================
