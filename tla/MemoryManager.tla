---------------------------- MODULE MemoryManager ----------------------------
(***************************************************************************)
(* include/resources/memoryManager.hpp: the manager of one memory space.   *)
(* A request is served from the cache of released blocks when one of the   *)
(* very size and of a fitting alignment is there, else from the operating  *)
(* system. A release sends the block to the cache or back to the system,   *)
(* according to the global flag memory::useCache.                          *)
(*                                                                         *)
(* finalize() and disableCache() walk the maps; each turn of their loops   *)
(* is a step, `phase' tells where the walk is, and no other call is served *)
(* before the walk ends (the manager is used by one thread).               *)
(*                                                                         *)
(* A block is its address. `heap' is external: the blocks the operating    *)
(* system has handed out and not got back, each with its true size.        *)
(***************************************************************************)
EXTENDS Integers, Sequences, SequencesExt, PartialMaps, ValWithMax

CONSTANTS
  Ptr,               \* addresses the operating system may return
  Sizes,             \* sizes in bytes a client may ask for
  Alignments,        \* alignments a client may ask for
  DefaultAlignment,  \* DEFAULT_ALIGNMENT
  DeviceBuild,       \* ENABLE_DEVICE_CODE, seen by the manager of the host
  MaxAlloc,          \* bound of nAlloc
  MaxReused          \* bound of nCachedReused

ASSUME PtrAssumption == Ptr \subseteq Nat \ {0}
ASSUME SizesAssumption == Sizes \subseteq Nat
\* No caller of provide() names an alignment of its own, and a stricter one
\* than the default keeps the default: clearCache() relies on it.
ASSUME AlignmentAssumption ==
  /\ DefaultAlignment \in Nat \ {0}
  /\ Alignments \subseteq Nat \ {0}
  /\ \A a \in Alignments : a % DefaultAlignment = 0
ASSUME DeviceBuildAssumption == DeviceBuild \in BOOLEAN
ASSUME BoundsAssumption == MaxAlloc \in Nat /\ MaxReused \in Nat

VARIABLES
  inited,         \* initialize() done, finalize() not yet
  useCache,       \* the global memory::useCache
  used,           \* map: address in use -> size
  cached,         \* map: size -> list of cached addresses, latest last
  usedSize,       \* bytes in use, with their maximum
  cachedSize,     \* bytes in the cache, with their maximum
  nAlloc,         \* allocations asked of the operating system
  nCachedReused,  \* requests served from the cache
  heap,           \* external: address -> size, as the operating system sees it
  asked,          \* history: address in use -> alignment its client asked for
  phase,          \* "idle", or the loop that is running
  crashed         \* CRASH was executed: the program is gone

vars == <<inited, useCache, used, cached, usedSize, cachedSize, nAlloc,
          nCachedReused, heap, asked, phase, crashed>>

statistics == <<nAlloc, nCachedReused>>

------------------------------------------------------------------------------

CachedPtrs == UNION {ToSet(cached[s]) : s \in Sizes}

IsAligned(p, alignment) == p % alignment = 0

\* CRASH prints and aborts: nothing else of the call has an effect.
Crash == /\ crashed' = TRUE
         /\ UNCHANGED <<inited, useCache, used, cached, usedSize, cachedSize,
                        nAlloc, nCachedReused, heap, asked, phase>>

Ready == ~crashed /\ phase = "idle"

Init == /\ inited = FALSE
        /\ useCache \in BOOLEAN
        /\ used = EmptyMap
        /\ cached = [s \in Sizes |-> << >>]
        /\ usedSize = ResetTo(0)
        /\ cachedSize = ResetTo(0)
        /\ nAlloc = 0
        /\ nCachedReused = 0
        /\ heap = EmptyMap
        /\ asked = EmptyMap
        /\ phase = "idle"
        /\ crashed = FALSE

------------------------------------------------------------------------------
(* The private steps.                                                      *)

PushToUsed(p, size, alignment) ==
  /\ used' = Put(used, p, size)
  /\ asked' = Put(asked, p, alignment)
  /\ usedSize' = Increase(usedSize, size)

\* A slip: the total goes down and the map keeps the address.
PopFromUsedKeepingIt(p) ==
  /\ p \in DOMAIN used
  /\ UNCHANGED used
  /\ asked' = Drop(asked, p)
  /\ usedSize' = Decrease(usedSize, used[p])

\* popFromUsed of an address that is there; the other case is a CRASH.
PopFromUsed(p) ==
  /\ p \in DOMAIN used
  /\ used' = Drop(used, p)
  /\ asked' = Drop(asked, p)
  /\ usedSize' = Decrease(usedSize, used[p])

PushToCache(p, size) ==
  /\ cached' = [cached EXCEPT ![size] = Append(@, p)]
  /\ cachedSize' = Increase(cachedSize, size)

\* A slip: any block of the right size will do.
FittingAnyAlignment(size, alignment) == 1..Len(cached[size])

\* The search runs from the latest cached block to the earliest.
Fitting(size, alignment) ==
  {i \in 1..Len(cached[size]) : IsAligned(cached[size][i], alignment)}

\* Two slips: the popped block stays listed; the popped block stays counted.
PopFromCacheKeepingIt(p, size, alignment) ==
  \E i \in Fitting(size, alignment) :
     /\ \A j \in Fitting(size, alignment) : j <= i
     /\ p = cached[size][i]
     /\ UNCHANGED cached
     /\ cachedSize' = IF cachedSize.val >= size THEN Decrease(cachedSize, size)
                                                ELSE cachedSize

PopFromCacheUncounted(p, size, alignment) ==
  \E i \in Fitting(size, alignment) :
     /\ \A j \in Fitting(size, alignment) : j <= i
     /\ p = cached[size][i]
     /\ cached' = [cached EXCEPT ![size] = RemoveAt(@, i)]
     /\ UNCHANGED cachedSize

\* popFromCache when it finds p, the latest fitting block of that size.
PopFromCache(p, size, alignment) ==
  \E i \in Fitting(size, alignment) :
     /\ \A j \in Fitting(size, alignment) : j <= i
     /\ p = cached[size][i]
     /\ cached' = [cached EXCEPT ![size] = RemoveAt(@, i)]
     /\ cachedSize' = Decrease(cachedSize, size)

\* External: posix_memalign succeeds with an aligned block nobody holds.
AllocateRaw(p, size, alignment) ==
  /\ nAlloc < MaxAlloc
  /\ p \notin DOMAIN heap
  /\ IsAligned(p, alignment)
  /\ heap' = Put(heap, p, size)
  /\ nAlloc' = nAlloc + 1

\* A slip: the block is forgotten and not freed.
DeAllocateRawNotFreeing(p) == UNCHANGED heap

\* The host manager of a device build forgets the block without freeing it.
DeAllocateRaw(p) == heap' = IF DeviceBuild THEN heap ELSE Drop(heap, p)

------------------------------------------------------------------------------
(* The calls.                                                              *)

Initialize ==
  /\ Ready
  /\ IF inited
     THEN Crash
     ELSE /\ inited' = TRUE
          /\ usedSize' = Assign(usedSize, 0)
          /\ cachedSize' = Assign(cachedSize, 0)
          /\ UNCHANGED <<useCache, used, cached, statistics, heap, asked,
                         phase, crashed>>

EnableCache == /\ Ready
               /\ useCache' = TRUE
               /\ UNCHANGED <<inited, used, cached, usedSize, cachedSize,
                              statistics, heap, asked, phase, crashed>>

\* A slip: the flag is lowered and the cache left as it is.
DisableCacheOnlyFlag == /\ Ready
                        /\ useCache' = FALSE
                        /\ UNCHANGED <<inited, used, cached, usedSize, cachedSize,
                                       statistics, heap, asked, phase, crashed>>

DisableCache == /\ Ready
                /\ useCache' = FALSE
                /\ phase' = "clearing"
                /\ UNCHANGED <<inited, used, cached, usedSize, cachedSize,
                               statistics, heap, asked, crashed>>

\* The cache is searched even when useCache is off.
ProvideFromCache(p, size, alignment) ==
  /\ Ready /\ inited
  /\ nCachedReused < MaxReused
  /\ PopFromCache(p, size, alignment)
  /\ nCachedReused' = nCachedReused + 1
  /\ PushToUsed(p, size, alignment)
  /\ UNCHANGED <<inited, useCache, nAlloc, heap, phase, crashed>>

ProvideFromSystem(p, size, alignment) ==
  /\ Ready /\ inited
  /\ Fitting(size, alignment) = {}
  /\ AllocateRaw(p, size, alignment)
  /\ PushToUsed(p, size, alignment)
  /\ UNCHANGED <<inited, useCache, cached, cachedSize, nCachedReused, phase,
                 crashed>>

\* posix_memalign fails.
ProvideFails(size, alignment) == /\ Ready /\ inited
                                 /\ Fitting(size, alignment) = {}
                                 /\ Crash

\* Body of release() for a known address, also run by finalize's loop.
GiveUp(p) ==
  /\ PopFromUsed(p)
  /\ IF useCache
     THEN PushToCache(p, used[p]) /\ UNCHANGED heap
     ELSE DeAllocateRaw(p) /\ UNCHANGED <<cached, cachedSize>>
  /\ UNCHANGED <<inited, useCache, statistics, crashed>>

Release(p) == /\ Ready
              /\ IF p \in DOMAIN used THEN GiveUp(p) /\ UNCHANGED phase
                                      ELSE Crash

Finalize ==
  /\ Ready
  /\ IF inited
     THEN /\ inited' = FALSE
          /\ phase' = "releasing"
          /\ UNCHANGED <<useCache, used, cached, usedSize, cachedSize,
                         statistics, heap, asked, crashed>>
     ELSE Crash

\* A turn of releaseAllUsedMemory: the map is walked by increasing address.
ReleaseTurn ==
  /\ ~crashed /\ phase = "releasing"
  /\ \E p \in DOMAIN used : /\ \A q \in DOMAIN used : p <= q
                            /\ GiveUp(p)
  /\ UNCHANGED phase

\* A slip: finalize() stops after the release loop.
ReleaseEndWithoutClearing ==
  /\ ~crashed /\ phase = "releasing"
  /\ DOMAIN used = {}
  /\ phase' = "idle"
  /\ UNCHANGED <<inited, useCache, used, cached, usedSize, cachedSize,
                 statistics, heap, asked, crashed>>

ReleaseEnd == /\ ~crashed /\ phase = "releasing"
              /\ DOMAIN used = {}
              /\ phase' = "clearing"
              /\ UNCHANGED <<inited, useCache, used, cached, usedSize, cachedSize,
                             statistics, heap, asked, crashed>>

\* The sizes clearCache still finds something to pop for, asking always for
\* the default alignment.
Clearable == {s \in Sizes : Fitting(s, DefaultAlignment) # {}}

\* A turn of clearCache that pops a block, sizes by increasing order. A turn
\* that pops nothing frees a null pointer: no effect.
ClearTurn ==
  /\ ~crashed /\ phase = "clearing"
  /\ \E s \in Clearable :
       /\ \A t \in Clearable : s <= t
       /\ \E p \in Ptr : PopFromCache(p, s, DefaultAlignment) /\ DeAllocateRaw(p)
  /\ UNCHANGED <<inited, useCache, used, usedSize, statistics, asked, phase,
                 crashed>>

ClearEnd == /\ ~crashed /\ phase = "clearing"
            /\ Clearable = {}
            /\ phase' = "idle"
            /\ UNCHANGED <<inited, useCache, used, cached, usedSize, cachedSize,
                           statistics, heap, asked, crashed>>

Loops == ReleaseTurn \/ ReleaseEnd \/ ClearTurn \/ ClearEnd

Next == \/ Initialize
        \/ EnableCache
        \/ DisableCache
        \/ \E p \in Ptr, s \in Sizes, a \in Alignments :
              ProvideFromCache(p, s, a) \/ ProvideFromSystem(p, s, a)
        \/ \E s \in Sizes, a \in Alignments : ProvideFails(s, a)
        \/ \E p \in Ptr : Release(p)
        \/ Finalize
        \/ Loops

Spec == Init /\ [][Next]_vars

------------------------------------------------------------------------------
(* What must hold.                                                         *)

TypeOK == /\ inited \in BOOLEAN
          /\ useCache \in BOOLEAN
          /\ used \in [DOMAIN used -> Sizes] /\ DOMAIN used \subseteq Ptr
          /\ cached \in [Sizes -> Seq(Ptr)]
          /\ usedSize \in [val : Int, extreme : Int]
          /\ cachedSize \in [val : Int, extreme : Int]
          /\ nAlloc \in 0..MaxAlloc
          /\ nCachedReused \in 0..MaxReused
          /\ heap \in [DOMAIN heap -> Sizes] /\ DOMAIN heap \subseteq Ptr
          /\ asked \in [DOMAIN used -> Alignments]
          /\ phase \in {"idle", "releasing", "clearing"}
          /\ crashed \in BOOLEAN

\* A block is recorded once in the whole manager: either one client has it, or
\* it waits at one place of one list of the cache. Two records of a block are
\* two tensors writing on each other, after any sequence of calls.
OneOwner ==
  /\ DOMAIN used \cap CachedPtrs = {}
  /\ \A s, t \in Sizes :
       \A i \in 1..Len(cached[s]), j \in 1..Len(cached[t]) :
          cached[s][i] = cached[t][j] => s = t /\ i = j

\* The manager and the operating system agree: every block not given back is
\* recorded under its true size, and nothing recorded was given back. A block
\* is neither lost nor reachable after free, whatever turn a loop has reached.
EveryBlockRecorded ==
  /\ DOMAIN heap = DOMAIN used \cup CachedPtrs
  /\ \A p \in DOMAIN used : heap[p] = used[p]
  /\ \A s \in Sizes : \A p \in ToSet(cached[s]) : heap[p] = s

\* The totals the manager prints are the sums over its maps, and the maxima
\* bound them: every path that moves a block moves both totals.
TotalsMatchMaps ==
  /\ usedSize.val = SumFunction(used)
  /\ cachedSize.val = SumFunction([s \in Sizes |-> s * Len(cached[s])])
  /\ usedSize.val <= usedSize.extreme
  /\ cachedSize.val <= cachedSize.extreme

\* A client gets the alignment it asked for also from a recycled block, that
\* was allocated for a client who asked for another one.
AlignmentHonoured == \A p \in DOMAIN used : IsAligned(p, asked[p])

\* Once disableCache() has returned the cache is empty and stays so, whatever
\* was released before and is released after, until the cache is enabled.
CacheEmptyWhenDisabled == phase = "idle" /\ ~useCache => CachedPtrs = {}

\* A finalized manager has given every block back to the operating system:
\* those its clients forgot, and those the release loop has just cached.
NothingLeftAfterFinalize == phase = "idle" /\ ~inited => DOMAIN heap = {}

\* The manager is an allocator: whatever the cache, the flag and the loops do,
\* a request is answered with a block that no client holds.
Abstract == INSTANCE Allocator WITH held <- used,
                                    served <- nAlloc + nCachedReused
ImplementsAllocator == Abstract!Spec

==============================================================================
