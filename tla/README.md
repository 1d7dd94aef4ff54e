# grill, verified

TLA+ models of the run-time core of **grill**, a C++ library for lattice field
theory: tensors whose components are typed, an even/odd lattice distributed over
MPI ranks and SIMD lanes, fields with halos, and the services they rest on
(memory manager, logger, threads, timers). Source paths are relative to `src/`.

`PROJECT.json` lists components, runs, mutants, hazards, findings and theorems,
and maps each definition to the lines it models.

## 1. Inventory

| part | state it keeps | operations | talks to |
|---|---|---|---|
| memory manager (`include/resources/memoryManager.hpp`) | map of blocks in use, lists of cached blocks by size, totals with maxima, global `useCache` | provide, release, enable/disableCache, initialize, finalize | called by tensors; calls the system allocator |
| value with extreme (`valueWithExtreme.hpp`) | value, maximum | assign, `+=`, `-=`, reset | part of the manager |
| dynamic tensors (`expr/nodes/dynamicTens.hpp`) | sizes, storage pointer, `allocated` | constructors, allocate, assignments, destructor, getRef | memory manager |
| reduction (`expr/operations/reduce.hpp`) | buffer, number of slots left | rounds of parallel `+=` | OpenMP, device kernels |
| lattice (`lattice/universe.hpp`, `lattice/lattice.hpp`) | geometry of this rank and of its SIMD lanes, tables of neighbours, halo filler | init; conversions of coordinates | ranks; fields read its tables |
| fields (`lattice/field.hpp`) | tensor with halo, `haloStatus` | updateHalo (two layouts), assignment | lattice tables, MPI, threads |
| logger (`ios/logger.hpp`), lock (`resources/threads.hpp`) | lock, flags who prints, the open line of each thread | make a line, write, destroy | everyone; `CRASH` is a line |
| scope doer (`resources/scopeDoer.hpp`) | what to undo | set for a scope, restore | flags of the logger |
| timer (`resources/timer.hpp`) | a tree of stopwatches in each process: started flag, measures | name, start, stop, read | `MINIMAL_CRASH` |
| MPI wrapper (`resources/Mpi.hpp`) | rank, number of ranks | barrier, loop on ranks in turn, broadcast, allReduce | MPI, binarizer |
| life cycle (`lib/resources/aliver.cpp`, `lib/debug/`) | flags from the environment | runProgram: initialize, wait for a debugger, body, finalize; signals, `MINIMAL_CRASH` | all services |
| components and loops (`expr/comps/`, `tuples/`) | none (pure, much of it on types) | lists of components, index of an element, loops, components of a product or a trace | tensors, nodes |
| expression nodes (`expr/nodes/`) | references to subexpressions, sizes | make, evaluate on an element, see as registers | tensors, fields, lattice tables |
| assignment (`expr/nodes/node.hpp`, `expr/assign/`) | none | check sizes, choose a loop (SIMD, device, threads, direct), store, close in a new tensor | nodes, OpenMP |
| binarizer (`serialize/binarize.hpp`) | buffer, place of reading | push, read | broadcast |
| file (`ios/file.hpp`) | `FILE*`, format | open, close, print | logger |

What is hard, and what makes each part correct:

- *memory manager*: long sequences of legal calls; a block must have one owner,
  no block may be lost between the maps and the system, recycled blocks must be
  aligned, walks that erase while they iterate must reach everything.
- *tensors*: moves and swaps of ownership; nothing released twice, nothing shared,
  value semantics.
- *reduction*: threads in a round, odd sizes; no race, every element once.
- *lattice*: arithmetic of parities, odd faces, wraps, lanes; each neighbour in the
  right slot, the tables consistent with one another and with the messages.
- *halo exchange*: many messages between the same pair, ranks that run ahead; the
  halo holds what the neighbour had, nobody waits for ever.
- *fields*: a status of the halo kept by each rank by itself, copied with the field,
  not touched by writes; ranks agree on who communicates, an UPDATED halo is the one
  of the present values, room for it is there.
- *logger*: a lock taken in a constructor and released in a destructor under
  conditions read twice; whole lines, lock given back.
- *life cycle, MPI, timers*: barriers that all ranks have to meet the same number of
  times, checks that stop only a rank that prints; turns in order, collectives that
  agree, measures that are right, an end for everybody.
- *expressions and assignment*: which components are contracted, which nodes can be
  evaluated on registers, where an element is, sizes compared in pairs, lazy
  evaluation in place by threads in any order; what is stored is what is meant.

## 2. Modules

| module | models | composes / extends |
|---|---|---|
| `PartialMaps` | `std::map`: empty, put, erase (external) | |
| `ValWithMax` | `ValWithExtreme<T,MAXIMUM>` | |
| `Allocator` | abstract: what a memory manager promises | |
| `MemoryManager` | one manager, host build by default | refines `Allocator` |
| `TensorStorage` | dynamic tensors **over** the manager | extends `MemoryManager` |
| `Reduce` | `reduceOnComp`, `hostReduce`, `deviceReduce` | |
| `EoGeometry` | sites, parities, halos, neighbours, lanes, as operators | |
| `Lattice` | `Lattice::init`, step by step, with its checks | extends `EoGeometry` |
| `HaloExchange` | `updateHalo` on several ranks, with MPI | extends `EoGeometry` |
| `Fields` | life of fields and views on ranks that run the same program | |
| `CompsLists` | lists of components, sizes, index, loops, deducers of products and traces, as operators | |
| `Expressions` | the nodes: how they are made, what they are, what they evaluate to | extends `CompsLists` |
| `Assignment` | `Node::assign` in every build, `fillDynamicTens`, `closeAs` | extends `Expressions` |
| `LoggerLock` | life of log lines, lock, scopes, parallel regions | |
| `Timer` | the stopwatches of all processes, with the clock | |
| `LifeCycle` | runProgram on all ranks, MPI, debugger, signals, the body's calls | extends `Timer` |
| `*Proofs` | theorems about the module of that name (`TensorStorageProofs`: and about the manager; `LifeCycleProofs`: and about the stopwatches) | |
| `MC*` | values of the constants | |

**MemoryManager.** `used`, `cached`, `usedSize`, `cachedSize`, `nAlloc`,
`nCachedReused`, `inited`, `useCache` are the members of the same names. `heap` is
what the operating system has handed out (external), `asked` a history of requested
alignments. `ProvideFromCache`/`ProvideFromSystem`/`ProvideFails` are the outcomes
of `provide`; `Release` is `release`; `finalize` and `disableCache` loop on maps that
their own turns modify, so each turn is an action (`ReleaseTurn`, `ClearTurn`) and
`phase` is the program counter. No other call is served in the middle: the manager
is used by one thread. `CRASH` ends the program (`crashed`): this is what happens
on a rank and thread that prints. `DeviceBuild` selects the branch that
`#if ENABLE_DEVICE_CODE` compiles into the host's `deAllocateRaw`.

**TensorStorage.** A tensor is the record of `DynamicTens`' members; its elements are
one value kept at the block (`mem`), and `meant` is the value the object stands for.
Constructors, assignments and the destructor contain the manager's own action.
What the source leaves undefined (reading or assigning through a storage never set)
is excluded by `Usable`.

**Reduce.** A slot holds how many times each element is counted. `Load`/`Store` are
the two halves of `+=`, in any order among iterations; `EndRound` is the barrier of
the parallel loop. Zero-sized components are excluded (the source reads an empty
buffer).

**EoGeometry, Lattice.** A *grid* is what the tables of a `SubLattice` depend on:
local sides, cuts, parity of the origin, parity direction. `Lattice` runs `init` for
one rank: SIMD ranks, then the ten steps of `SubLattice::init` and
`precomputeHaloFiller` for the local sublattice, then for the SIMD one. Each CRASH
is classified: `input` for checks on arguments, `internal` for checks the code makes
on its own tables. `eoNeighbours`, `eoHaloOffsets` etc. are record fields with the
source's names. The check at `lattice.hpp:1144` sees sides not set yet and never
fires; it has no action.

**HaloExchange.** Every rank runs a `Script` of writes and updates. A value is
(field, global site, version), so that "the right value" is checked exactly. An
update is `StartUpdate` (with `fillLocHalo`), one `FillAndPost` per parity, `Finish`
(`MPI_Waitall` and `fillHaloParity`), or `EarlyReturn`. MPI is external: `Transmit`
reads a posted send at any moment before the wait ends, `Deliver` matches the
oldest message of a (source, rank, tag) link with its oldest receive. Payloads are
read when MPI transmits, not when the send is posted.

**LoggerLock.** `BeginLine` is `logger()`, which decides whether the line prints and
calls the constructor: from then on the thread can only wait for the lock.
`OpenLine` is the constructor that gets it (or needs none) and its `startNewLine`, `Write` one `operator<<`, `CloseLine` the destructor. The condition
`isInsideParallelSection() and not onlyMasterThreadPrint` is read at both ends, as in
the source. `EnterScope`/`LeaveScope` are `SET_FOR_CURRENT_SCOPE`; `Fork`, `Arrive`,
`Join` are a parallel loop and its barrier.

**Fields.** The ranks run one program, chosen as it runs: `ChooseNew`, `ChooseUse`...
put an operation in the queue (`todo`) of every rank, in the ways the scopes of C++
allow, and each rank takes it when it gets there. An object has the members of
`Field`: `haloPresence`, `haloStatus` and `data` (block, sites, `allocated`). A value
is the number of the operation that wrote it. Messages are told apart by their order
only, as those of updates with the same tags are; what they hold face by face is
`HaloExchange`'s. Who exchanges with whom is the constant `Neighbours`. `GetRef` chooses
the status, that the source does not initialize. A `CRASH` ends the program on the ranks
of `Printing` (`Refused`); the others go on past it (`Check`), with their `course`
"astray". There are two: that of `std::swap` on the tensors, which is always refused
(finding 2) and past which storages and flags are swapped, but neither the sizes nor the
presence of the halo (`MoveAssign`), and that of `updateHalo` without a halo, past which
buffers and halo are used all the same. An operation that does not find its room in the
blocks (`Touches`, `InBounds`) is undefined: from there the rank is "lost", may stop and
may send anything (`GoOutOfBounds`, `Wander`). All this lasts until a rank that prints
comes to the same operation. `dirty` and `filled` are history variables of a block: the
field was written after its last exchange, and the halo was ever filled.

**CompsLists, Expressions, Assignment.** A component is a triple of name, row or
column, and size (0: known at run time), a list of components a sequence of them: the
operations on tuples of types are operators on sequences. A node is a record of its
`comps`, dynamic sizes, `canSimdify` with the component it can be seen as registers
on, and subexpressions; the functions that make nodes (`Prod`, `TranspExpr`, `Conj`,
`Shift`...) take the shortcuts of the source, and `Recreate*` are those that make a
node again on other factors. `Eval` gives the value on an element or, on registers, of a lane.
`Assignment` runs a statement: `Tasks` is the list of iterations of the loop that the
build selects, each a list of elements; `Store` takes the next element of any task, as
threads would. `before` keeps the tensors as they were. A device build is taken to have
everything on the device and no SIMD; elements are small integers, complex numbers
pairs of them.

**Timer, LifeCycle.** `timers` holds each process' stopwatches by path from the root;
`ranFor` is a history variable, the time each has run. The actions of `LifeCycle`
follow `initialize`, `possiblyWaitToAttachDebugger`, the body and `finalize` with a
program counter per rank. A body is a script that all ranks run, chosen when the first
gets there: turns, reductions, broadcasts of an object of two members through the
binarizer, starts and stops. A collective call is entered and left in two steps. MPI
is external: the n-th call of a rank meets the n-th of the others. A failed check is
`MinimalCrash` where the rank prints; elsewhere the next line runs (`UseTimer` without
the check). `Signal` is one that ends the process, at any moment: before the traps are
set, where the handler prints, and anywhere for SIGABRT, since `abort` raises it again once
the handler has returned. On a rank that does not print the handler of SIGSEGV, SIGFPE and
SIGBUS returns to the instruction that faulted, for ever: `Fault` (finding 14). SIGINT
and SIGXCPU, that come from outside, change nothing there. `Launcher` ends the other ranks
when one has left without finalizing, as mpirun does; nobody notices a rank at a fault.
`Debugger` sets the flag the master spins on. `ReadFlag` is `is>>flag`: a number is true
unless it is 0, a word is false, an empty variable leaves the flag as it is defined, true.

Composition: `TensorStorage` contains `MemoryManager`'s actions; `Lattice` and
`HaloExchange` share the geometry, and `HaloExchange` computes its copies from the
tables that `Lattice` checks; `SimdSectionsMatch` in `Lattice` is the fact the
buffers of `HaloExchange` rely on. `Expressions` takes the table of neighbours that
`Lattice` checks as a constant, and `Assignment` runs the nodes of `Expressions`. In
`LifeCycle` stopwatches live in a program of many ranks, where checks stop some only.

## 3. Runs

| run | question | bounds, and why they are enough |
|---|---|---|
| `memory_manager` | is it an allocator, is nothing lost, is every total right? | addresses of two alignments, two sizes, two alignments, 4 allocations, 3 reuses: a list can hold two blocks, of which the latest does not fit; both loops meet several lists |
| `tensor_storage` | no double release, no sharing, value semantics | three tensors: a moved-from, a moved-to and a third that takes the block in between |
| `reduce` | sum, races, termination | sizes 1 to 9: odd and even halves at every level (9→5→3→2→1) |
| `lattice` | tables right on every rank and lane, or arguments refused | three dimensions, sides 3 to 8, cuts 1 or 2 for ranks and lanes (both in one direction, too), every parity direction: odd faces, odd origins, empty bulk, refused sides |
| `halo` | right neighbours, both parities, same rank on both sides | 2 ranks, 2 lanes |
| `halo_ring` | same, ranks running ahead, nothing left, all return | 3 ranks, 2 lanes; write, update, write, early return, update of another field |
| `fields` | do ranks stay in step, is an UPDATED halo current, is there room, do updates return, also with a rank that goes past every CRASH? | 2 ranks, one of which prints, 3 fields, 1 view, 4 operations (two constructions, a move assignment, a use of what it leaves; or construct, write or update, copy, use of the copy), a rank at most 3 operations ahead |
| `expressions` | is what is assigned what the expression means, in every build and order? | 28 statements on 14 tensors and fields: products, daggers, traces, bindings on both sides, shifts, even/odd and one parity, three layouts; registers of 2 and 4; the laws of algebra on the same tensors; one statement at a time |
| `lifecycle` | turns in order, collectives agree, measures right, everybody ends | 3 ranks, of which the master prints, bodies of 2 operations, the root stopwatch and one under it, the debugger waited for (`2`, a number) or not (`true`, a word) |
| `logger` | whole lines, lock given back, regions end | 3 threads, 2 lines each, 2 nested scopes, 2 regions |
| `halo_serial` | *violated*: serial layout gets the right neighbours | 3 ranks |
| `logger_lock` | *violated*: who holds the lock has a line | lines that do not print |

Bounds of the specifications: `MaxAlloc`, `MaxReused` (memory manager), the length
of `Script` (halo), `MaxOps`, `MaxLead` (fields), `MaxStatements` (assignment),
`MaxOps`, `MaxTime` (life cycle), `MaxLines`, `MaxScopes`, `MaxRegions` (logger).
They are guards on counters only (`MaxOps` also on what a lost rank sends); `MaxLead` also
stands for the fact that a rank cannot run ahead for ever, which the messages of an update
do not let it do anyway. `Fields` was also run, with the same outcome, on 4 ranks in a ring
(3 operations, 2 fields, a view) and with 5 operations (2 ranks, 2 fields, a view): a
strayed rank that has neighbours who do not print, and programs that use a field again
after its update.

`CHECK_DEADLOCK FALSE`: all these programs end (after `CRASH`, after the script, after
the tables are built, after the reduction, after finalize).
Unwanted waiting is caught by the liveness properties instead.

**Fairness.** `Reduce!FairSpec`: some enabled step is taken (threads of a team are
scheduled). `HaloExchange!FairSpec`: same, for ranks and the progress of MPI on
posted operations. `LoggerLock!FairSpec`: each thread of a region takes a step it
can take for ever; a thread waiting for the lock is not assumed to be served before
others (no strong fairness): the bound on lines makes contention end. Outside of
regions nothing is assumed: the user's program may stop.

`Fields!FairSpec`: each rank takes the step it can take for ever, the
messages of a wait that can end included; what the program does next, and whether a lost
rank sends anything, is not assumed.
`LifeCycle!FairSpec`: the same for each rank, and the body goes on, somebody attaches the
debugger the master waits for, and the launcher ends what is left. Signals, faults and
the clock are not fair.

Conditions of the properties. `EvenNeighboursRight` and `EvenFillerRight` are stated for
even global sides and for even faces; beyond, the code is wrong (findings 3 and 8). So
is `HaloHoldsNeighbours`: the lattices of its runs, and those of its theorem, are
`EvenLattice` (`MCHaloExchange` assumes it, so that TLC evaluates it on each of them):
what `init` checks, plus even sides where ranks cut and faces with an even number of
sites.
`LockMatchesLine` and `AllJoin` are checked where every line made prints; where some
do not, `logger_lock` shows the failure. `RanksAgree`, `UpdatedHaloIsCurrent` and
`UpdatesReturn` stop at an update through a view (finding 7), and the second leaves out
the values, not the filling, of halos of fields written after the exchange (finding 6).
The first two and `RoomForHalo` are about ranks that are `Followed`: that have gone past no
CRASH, or that a rank that prints has overtaken. Nothing holds of a rank that has gone past
one (finding 4); the second half says that this is never seen by the ranks that decide,
and `UpdatesReturn` that the program then ends. The properties of `LifeCycle` ask that
the ranks find the same in the environment: a launcher passes it to all of them, and
nothing in the code compares it. `AllEnd` leaves out the runs that stay with a rank at a
fault (finding 14), which is never one that prints. `AssignedAsEvaluated` is for right hand sides that
read what is assigned, if they do, at the same element.

## 4. Proofs

Checked by tlapm for every value of the constants, under the assumptions named
in the modules.

- `TensorStorageProofs`, first about the manager alone, under `~DeviceBuild`. The listed
  invariants are not inductive
  alone: a walk that releases every block relies on what it has already done. `IInv`
  joins types, `OneOwner`, `EveryBlockRecorded`, alignment of requests, the fact
  that every block in the manager has the default alignment (so that `clearCache`,
  which asks for it, finds every block), and `WalkProgress` (what a phase still has to
  do). Theorems: `Inductive`, `Ownership`, `NoBlockLost`, `Alignment`, `Disabled`,
  `Finalized` and `Refinement`, that the manager implements `Allocator`. The lemmas on
  lists say what appending to and popping from a list of lists without repetitions does.
  `Totals`: the totals counted call by call are the sums over the maps, for finitely
  many sizes (they are machine integers in the code). A sum over a finite map is a fold
  of the community modules; where induction would be used, the lemmas look at a smallest
  set for which they would fail.
- `ReduceProofs`, for every size. `IInv` joins types, the shape of a round
  (`n <= 2*stride`, iterations within range), the freshness of what iterations
  have read, and `CountedOnce`. Theorems: `Inductive`, `Typing`, `EachElementOnce`,
  `NoRace`, `Correct`.
- `TensorStorageProofs`, then about the tensors, under `~DeviceBuild`, for any tensors, values, sizes and addresses
  (the default alignment is one of the alignments: `TensorAlignmentAssumption`). On top
  of the manager's `IInv`, whose steps the actions of tensors contain: types; only living
  tensors hold a block; a block held is in use in the manager; no two tensors hold
  the same; `ReadsAsMeant`; the manager's walks begin after the life of the tensors
  (finalize is the last call). Theorems: `TensorsInductive`, `StorageNeverShared`,
  `ValueSemantics`, `EnoughRoom`.
- `LoggerLockProofs`, for any number of threads, levels and regions. `IInv`: who wrote on
  the unfinished row has a printing line open; in a locked region that line's
  thread holds the lock, elsewhere it is the master; a line that will print was
  allowed to, and the flag does not change while its constructor waits. `OneThreadAtATime` holds
  with muted lines too (they stop the others, they never mix rows); `LockGivenBack`
  needs every line made to print.
- `LifeCycleProofs`, for any number of ranks, any stopwatches, environments and bodies,
  in three parts. *Stopwatches.*
  `MeasuredWhereMasterPassed` compares two ranks and is far from inductive: `LInv` says
  that whether a stopwatch runs follows from the operations the rank has done
  (`RunningAsSaid`: the last of them on it is a start), so that a check fails on all
  ranks or on none; that the master, which prints from its initialization on, has only
  passed checks that hold (`MasterPassed`); that what a rank measures is right as long as
  its checks hold, failed or not by others (`MeasuredIfAllowed`); and that a rank inside
  of a collective call is doing the next operation of the body (`DoingNext`).
  Theorems: `StopwatchesInductive`, `MeasuredThere`.
  *Turns*, on top of `LInv`, under
  `SameEnvironment` (ranks that read different flags may hang in the debugger's
  barrier). The log alone says nothing of who will write next, so `TurnsInv` ties it to
  the calls. All ranks run one program, whose step 0 is the wait for the debugger and
  whose step k is operation k of the body: functions `C` and `T` count the calls
  and turns before each step. `Placed`: the number of calls a rank has made follows
  from where it is. `OwnTurnsOver`: who called again after its turn has ended it.
  `BegunTogether`: a turn that has begun has been waited for by all, dead ranks
  included, whose calls stay. When the barrier of a turn returns, everybody has called
  as often as its owner, hence the owner of the turn before, which may be the last
  rank of the loop before, has left it (`TurnsBeforeOver`). Ranks may end between any two
  steps. Theorems: `TurnsInductive`, `TurnsThere`.
  *Collectives*, on top of both. A meaning `M` says what the n-th call of the program
  should return; it is carried by the invariant as something that exists, since the
  body grows as it is chosen. `CallsMeant`: what a rank has contributed or read in its
  n-th call is what `M` says, hence the same on all ranks, although they may be in
  different calls and some may be dead; the round trip through the binarizer is a lemma.
  Theorems: `CollectivesInductive`, `CollectivesThere`.
- `FieldsProofs`, for any number of ranks, any neighbours, any ranks that print, fields, views
  and operations. Two ranks that are at different places of the program cannot be compared
  directly, so the program chosen so far and the scopes open at each of its places are carried
  by the invariant, as a history that exists. `RoomInv`, with no condition: types, on all ranks;
  the operation at which a rank has gone astray is one that a rank that prints refuses, so that
  no rank that prints is past it (`PastRefusal`, `RefusedIsPast`); on the ranks that are sound,
  what is in scope is what is in scope at their place of the program; fields that own data have
  blocks of their own, with the sites their presence of halo asks for; views are on the block of
  their field; so they are in bounds (`SoundInBounds`). `StepInv`, as long as no view is
  updated: on the ranks that are sound, the objects, the values of the blocks and the exchanges
  done follow from the place of the program, the same for all; the messages on the way to them
  are those of exchanges they have still to come to, also from a rank that has strayed, up to
  the operation it was refused. That a printing rank overtakes nobody who strayed is what turns
  ranks that are `Followed` into ranks that are sound (`FollowedIsSound`). Theorems:
  `RoomInvariant`, `RoomIsThere`, `StepInvariant`, `RanksStayInStep`, `UpdatedIsCurrent`.
- `EoGeometryProofs`, about operators, for any number of directions and any sides. Volume, site and
  coordinates are recursive functions on the directions: they are shown to exist, then
  what holds of them is proved at the smallest direction where it would fail.
  Theorems: `SiteOfCoordsInverse`, `CoordsOfSiteInverse` (round trips between sites and
  coordinates), `NeighbourInverse` (who I send to is who waits for me),
  `SimdSitesInverse` (global coordinates to rank, parity, SIMD site and lane, and back),
  `HaloTaken` (the sites that leave take each slot of the halo once). The last one counts
  the sites of a parity on a face: sites 2i and 2i+1 of a box are one step
  apart, or a carry apart along sides that the parity direction leaves even, so they have
  opposite parities and a slot is half of the number of the site on the face
  (`PairedSites`, `OnePerPair`). An odd face has one site more, the last, and its parity is
  the one that `setEoHalo` adds the slot to (`FaceSizes`). The running offsets of sections
  are intervals one after the other that end at the halo (`SectionsFill`,
  `EoHaloAddsUp`).
  `Across`: step over a face from a site of a lane, and you are on the opposite face of
  the lane across, on this rank or on the next (`LanesAcross`, `StepOver`), with the other
  parity and at the same place of the face. The global site is that of the neighbour. It
  needs lanes that begin on even sites, as `init` asks, and even sides where ranks cut.
- `LatticeProofs`, for any lattices. `BInv`: what has passed the checks of `init` is
  divided by ranks, by lanes and by parity, and the members set so far, step by step and no
  other, are what the geometry of the sublattice says (`Expected`); a sublattice that is
  finished stays so while the other one is built or refused. From it and the lemmas of
  `EoGeometryProofs`: `TablesAccepted` (the code's own checks never fire),
  `NeighboursOneStepAway`, `HaloFilledExactly`, `FillerFitsSections`,
  `SectionsOfLanesMatch` (the list of non local lanes is a recursion on the lanes, as long
  as a face of the box of lanes has ranks), `SitesFoundAgain`. All the properties of the
  `lattice` run are proved, with the conditions of section 3. `AcceptedLattices`: a lattice
  whose tables are finished is `Divided` and `LanesEven`, which is what the lemmas on ranks
  and lanes, and the exchange of halos, start from.
- `HaloExchangeProofs`, for any script, ranks, lanes and, in each link, any order of the
  messages' progress. Which updates exchange messages follows from the
  script; what is in a link is the difference of what its two ends have posted; a
  rank is one update ahead of its neighbours at most, so that an exchange never matches a
  receive of another. `NothingLeft`: once everybody has returned, nothing is on the way.
  Theorems: `HaloInductive`, `HaloTyped`, `NothingLeft`.

  The second part is `HaloHolds`: `HaloHoldsNeighbours` for any number of ranks and lanes,
  in the simdifiable layout, on an `EvenLattice`. That an updated halo holds the right sites
  says nothing of what is on the way, so `DInv` follows a value from where it
  is read to where it ends: the version of a field is the number of writes of the script so
  far (`VersionsFollow`); in an update the halo is first that of a rank alone
  (`FilledAt`); what is posted is the face, packed in order of sites and then of lanes on
  the border (`PackedAt`); the messages of a link are those of the exchanges after the
  last delivered, in order (`MessagesOn`), and a receive is for the opposite face
  (`RecvMeant`), so that with `HInv` the message that meets a receive is the one of this update
  (`MeetsItsUpdate`); what is received is the face of the rank behind (`ReceivedAt`);
  an updated halo holds, behind each lane, the sites of the lane and rank across
  (`UpdatedAt`). That sender and receiver give the sites of a face the same numbers is
  `Across`, and `FoundBehind` turns places of a face into what the tables of
  neighbours find. Theorems: `HaloDataInductive`, `HaloHolds`. The serial layout is left
  out because the property is false there (`halo_serial`), odd cuts and odd faces because
  of findings 3 and 8. TLC found `DInv` true on every state of the `halo` and
  `halo_ring` instances before it was proved.

Model-checked only:

- liveness (`Terminates`, `AllReturn`, `UpdatesReturn`, `AllJoin`, `AllEnd`): out of the
  reach of the prover;
- expressions and assignment: nodes are evaluated by RECURSIVE operators, and what they
  evaluate to is an induction over expressions.

## 5. Findings

With a run that shows them:

- the serial and GPU halo exchange sends the far faces (`halo_serial`);
- a muted line keeps the lock (`logger_lock`).

Met while translating; the models do what the code does, and the properties leave
these cases out where they say so:

1. A move-constructed tensor forgets `allocated`.
2. Move assignment of fields that own their data always ends in a CRASH, because of 1; a rank
   that does not print goes on and swaps storages, not the presence of halos.
3. The halo filler uses offsets of the wrong parity with odd faces.
4. A CRASH on a muted thread or rank does not end the program there.
5. In a device build the host's blocks are never freed.
6. Writing on a field leaves its halo UPDATED; the next update returns at once.
7. The status of the halo of a view is not initialized.
8. With an odd global side, a neighbour across the wrap has the same
   parity and the table points elsewhere. Where ranks cut such a side, the halo across
   the wrap holds other sites.
9. Stopwatches: the comment on `isStoppable` says the opposite of the code; the father
   is not stored and children that start are not counted, so that the check on
   running children never fires.
10. The largest component for the loop of a device is looked for among complements:
    the size found is always 0.
11. Sizes of combined expressions are copied by position, not by component.
12. `finalize` finalizes the device, that nobody has initialized.
13. `WAIT_TO_ATTACH_DEBUGGER=true` is read as false, and an empty one as true.
14. On a rank that does not print a fault repeats for ever: the handler, that says
    "exiting", returns.

The models of one process take `CRASH` as the end of the program; `LoggerLock`, `Fields` and
`LifeCycle` model where it is not.

## 6. Not modelled, and why

- `File`: one call of the C library for each operation, on one object.
- CUDA (`resources/device.hpp`): an external runtime; copies between execution spaces.
- Nodes whose work is all at compile time (casts, subscription by components,
  detection of members, CRTP): no behaviour at run time.
- `crashOnError` of MPI: with the default error handler a failed call does not return.
- Banners, versions, git information, backtraces, colours, the text of messages;
  conversion of durations to text.
- `tensor/` (`stackedVariable.hpp`...): an older form of the tensors, that the library
  does not include.
- Scope doers that are moved, and scopes opened inside parallel regions: no code of the
  library does either.
- Dynamic sizes that differ in more than one component (finding 11): the fields
  and tensors of the `expressions` run have one dynamic component each.

## 7. What could follow

Proofs: the exchange of whole lattices from `Lattice` on, with the tables of each rank in
place of `EoGeometry`'s operators. The laws of lists of components in `CompsLists`
and `Expressions` that need no induction over expressions. A run of `Assignment` with several
statements at a time would only repeat what each does alone, since every statement
ends before the next begins.
