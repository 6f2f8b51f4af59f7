------------------------------ MODULE Library ------------------------------
(* The parts of the library that stand alone, side by side: the mutex and   *)
(* the three lock-free queues of KzSTL, Buffer, Serializer and SizeUtils.   *)
(* They share no state; a behaviour uses one of them and leaves the others  *)
(* as made.                                                                 *)
EXTENDS Integers, FiniteSets, Sequences

CONSTANTS
    Parts,                            \* those looked at
    Threads, SpinLimit, NoOne,        \* of the mutex
    Producers, Consumers,             \* threads of the queues
    Capacity, MaxBulk, Nothing,
    DequeItems, MpmcItems, MpscItems, \* bounds: MaxItems of each queue
    WordMod,
    Suspended,                        \* threads of the queues that may stop for good
    InitialSize, Lengths, Unit, Extra, MaxLoop, MaxBytes,
    Inputs, MaxFields,
    Aligned, Alignments, Growths

\* The one consumer of the mpsc queue; the thread a deque belongs to, the consumers steal.
Consumer == CHOOSE c \in Consumers : c \notin Suspended
Owner    == CHOOSE p \in Producers : p \notin Suspended

ASSUME LibraryAssumption ==
    /\ Parts \subseteq {"lock", "deque", "mpmc", "mpsc", "buffer", "codec", "sizes"}
    /\ SpinLimit \in Nat /\ NoOne \notin Threads
    /\ Producers \cap Consumers = {} /\ IsFiniteSet(Producers)
    /\ ~(Producers \subseteq Suspended) /\ ~(Consumers \subseteq Suspended)
    /\ Capacity \in Nat \ {0} /\ MaxBulk \in Nat \ {0}
    /\ DequeItems \in Nat /\ MpmcItems \in Nat /\ MpscItems \in Nat
    \* no index wraps around
    /\ WordMod \in Nat /\ WordMod > MpscItems * Cardinality(Producers) + Capacity
    \* an item is no raw slot
    /\ Nothing \notin Producers \X Nat /\ Nothing \notin Nat
    /\ InitialSize \in Nat /\ Lengths \subseteq Nat /\ Extra \in Nat
    /\ Unit \in Nat \ {0} /\ MaxLoop \in Nat \ {0}

VARIABLES
    part,                             \* the one in use
    state, lPc, spins,
    dHead, dTail, dData, extracted, dPc, top, count, pushed,
    mHead, mTail, sequence, mData, mPc, mPos, want, found, mSent,
    sHead, sTail, written, sData, sPc, sPos, seen, left, sSent,
    mem, capacity, readerIndex, writerIndex, loop, totalN, arrived, taken,
    varint, fields, buffer,
    table

Lock == INSTANCE SpinMutex WITH pc <- lPc
Deque == INSTANCE WorkStealingDeque WITH
    Thieves <- Consumers, MaxItems <- DequeItems, head <- dHead, tail <- dTail,
    data <- dData, pc <- dPc
Mpmc == INSTANCE ArrayMpmcQueue WITH
    MaxItems <- MpmcItems, head <- mHead, tail <- mTail,
    data <- mData, pc <- mPc, pos <- mPos, sent <- mSent
Mpsc == INSTANCE ArrayMpscQueue WITH
    MaxItems <- MpscItems, head <- sHead, tail <- sTail,
    data <- sData, pc <- sPc, pos <- sPos, sent <- sSent
Bytes == INSTANCE Buffer
Message == INSTANCE Codec
Classes == INSTANCE SizeClasses

lockVars == <<state, lPc, spins>>
dequeVars == <<dHead, dTail, dData, extracted, dPc, top, count, pushed>>
mpmcVars == <<mHead, mTail, sequence, mData, mPc, mPos, want, found, mSent>>
mpscVars == <<sHead, sTail, written, sData, sPc, sPos, seen, left, sSent>>
bufferVars == <<mem, capacity, readerIndex, writerIndex, loop, totalN, arrived, taken>>
codecVars == <<varint, fields, buffer>>

vars == <<part, lockVars, dequeVars, mpmcVars, mpscVars, bufferVars, codecVars, table>>

Init == /\ part \in Parts
        /\ Lock!Init /\ Deque!Init /\ Mpmc!Init /\ Mpsc!Init
        /\ Bytes!Init /\ Message!Init /\ Classes!Init
        /\ part # "codec" => varint

\* The parts other than p stay as they are.
Others(p) ==
    /\ UNCHANGED part
    /\ p # "lock"   => UNCHANGED lockVars
    /\ p # "deque"  => UNCHANGED dequeVars
    /\ p # "mpmc"   => UNCHANGED mpmcVars
    /\ p # "mpsc"   => UNCHANGED mpscVars
    /\ p # "buffer" => UNCHANGED bufferVars
    /\ p # "codec"  => UNCHANGED codecVars
    /\ p # "sizes"  => UNCHANGED table

Next == \/ part = "lock" /\ Lock!Next /\ Others("lock")
        \/ part = "deque" /\ Deque!Next /\ Others("deque")
        \/ part = "mpmc" /\ Mpmc!Next /\ Others("mpmc")
        \/ part = "mpsc" /\ Mpsc!Next /\ Others("mpsc")
        \/ part = "buffer" /\ Bytes!Next /\ Others("buffer")
        \/ part = "codec" /\ Message!Next /\ Others("codec")
        \/ part = "sizes" /\ Classes!Next /\ Others("sizes")

\* A thread inside a call is scheduled until it returns, unless it is suspended.  Only
\* the mutex and the deque need all their threads.  Who owns the mutex gives it back.
Fairness ==
    /\ \A t \in Threads :
          WF_lockVars(part = "lock" /\ (Lock!LockStep(t) \/ Lock!UnlockStep(t)))
    /\ WF_dequeVars(part = "deque" /\ (Deque!PushStep \/ Deque!PopStep))
    /\ \A t \in Consumers : WF_dequeVars(part = "deque" /\ Deque!StealStep(t))
    /\ \A t \in Producers \ Suspended :
          /\ WF_mpmcVars(part = "mpmc" /\ Mpmc!EnqStep(t))
          /\ WF_mpscVars(part = "mpsc" /\ Mpsc!PushStep(t))
    /\ \A t \in Consumers \ Suspended : WF_mpmcVars(part = "mpmc" /\ Mpmc!DeqStep(t))
    /\ WF_mpscVars(part = "mpsc" /\ Mpsc!PopStep)

Spec == Init /\ [][Next]_vars /\ Fairness
------------------------------------------------------------------------------
\* SpinMutex: at most one thread owns the lock, it gets it when nobody has it and gives
\* it up itself; no thread sleeps through the last notification; when some thread is
\* trying to get the lock, some thread gets it, as their module states.
MutexRefines == Lock!ImplementsMutex
NoLostWakeup == Lock!NoLostWakeup
DeadlockFree == Lock!DeadlockFree

\* WorkStealingDeque::push, pop, steal: each item pushed reaches exactly one process,
\* intact, from the end of the deque its operation works on.
DequeRefines == Deque!ImplementsWorkDeque

\* ArrayMpmcQueue::enqueue, dequeue and ArrayMpscQueue::push, pop: every item reaches
\* exactly one consumer, intact, in the order in which the places were won.
FifosRefine == Mpmc!ImplementsFifo /\ Mpsc!ImplementsFifo

\* In the ring of each queue values stay in their ranges, a slot holds an object exactly
\* when an index in use maps to it, no two threads work on one slot, and the flags and
\* sequence numbers a thread waits for tell the truth.
SlotsHold == /\ Deque!TypeOK /\ Deque!SlotsAccounted
             /\ Mpmc!TypeOK /\ Mpmc!SlotsExclusive
             /\ Mpsc!TypeOK /\ Mpsc!SlotsExclusive /\ Mpsc!WaitNeverBlocks

\* pop, enqueue and dequeue give up only with a reason: the deque is empty, the first
\* entry missing or unpublished, an index of the last lap not emptied yet.
GiveUpForAReason == /\ []Deque!PopFailsOnlyWhenEmpty
                    /\ Mpmc!EmptyMeansUnpublished /\ Mpmc!FullMeansLapOutstanding

\* Every call returns: in the mpmc and mpsc queues although another thread is suspended
\* for good anywhere in its own call, and the owner's wait for a thief that is emptying a
\* slot of the deque ends.
Idle(t) == /\ mPc[t] = "idle"
           /\ t \in Producers \cup {Consumer} => sPc[t] = "idle"
           /\ t \in Consumers \cup {Owner} => dPc[t] = "idle"
CallsFinish == \A t \in (Producers \cup Consumers) \ Suspended : ~Idle(t) ~> Idle(t)

\* Buffer keeps bytes in order, Deserializer reads what Serializer wrote, and
\* the size classes and the blocks kept by realloc fit, as their modules state.
BytesInOrder   == Bytes!BytesInOrder
DecodesWritten == Message!DecodesWritten
SizesFit       == Classes!ClassesFit /\ Classes!BlocksHold
==============================================================================
