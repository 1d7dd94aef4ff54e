-------------------------------- MODULE Fields --------------------------------
(***************************************************************************)
(* The life of fields (`lattice/field.hpp`): constructed, copied, viewed,  *)
(* written, assigned, updated and destroyed in any order the language      *)
(* allows, by ranks that all run the same program, each at its own pace.   *)
(*                                                                         *)
(* The program is chosen as it runs: an operation goes in the queue of     *)
(* every rank. A value is the number of the operation that wrote it, the   *)
(* same on all ranks. Messages carry no name of a field: the tags of two   *)
(* updates are the same, and they are told apart by their order only.      *)
(* What a message holds, and where it goes, is in HaloExchange.            *)
(*                                                                         *)
(* A CRASH ends the program where its line is printed. A rank that does    *)
(* not print goes on past it, astray: with fields that do not say what     *)
(* they have, and, once it goes out of the bounds of its blocks, doing     *)
(* anything at all, until a rank that prints comes to the same operation.  *)
(***************************************************************************)
EXTENDS Integers, Sequences, FiniteSets, PartialMaps

CONSTANTS
    Ranks,
    Neighbours,  \* rank -> the ranks it exchanges faces with
    Printing,    \* the ranks that print: the master, or more in a scope that lets them
    Owners,      \* names of fields that own their storage
    Views,       \* names of references to fields
    MaxOps,      \* bound: operations of the program
    MaxLead      \* bound: operations a rank is ahead of another one

ASSUME RanksAssumption == IsFiniteSet(Ranks) /\ Ranks # {}
ASSUME NeighboursAssumption ==
    /\ Neighbours \in [Ranks -> SUBSET Ranks]
    /\ \A r \in Ranks : r \notin Neighbours[r] /\ \A s \in Neighbours[r] : r \in Neighbours[s]
ASSUME PrintingAssumption == Printing \subseteq Ranks /\ Printing # {}
ASSUME NamesAssumption == Owners \cap Views = {} /\ "none" \notin Owners \cup Views

VARIABLES
    scope,       \* name -> name of the owner it stands for, or "none"
    nOps,        \* operations chosen
    viewUpdated, \* the program has updated a halo through a view
    todo,        \* per rank: operations it has still to run
    field,       \* per rank and name: the object
    heap,        \* per rank: the blocks of the tensors, by number
    waiting,     \* per rank: the field whose messages it waits for, or "none"
    channel,     \* <<source, destination>> -> values on the way
    course,      \* per rank: "sound", "astray" past a CRASH, or "lost" out of bounds
    crashed      \* the program has ended

vars == <<scope, nOps, viewUpdated, todo, field, heap, waiting, channel, course, crashed>>

Names == Owners \union Views

HaloPresence == {"WITHOUT_HALO", "WITH_HALO"}
HaloStatus == {"NOT_UPDATED", "UPDATED"}

Garbage == 0

Courses == {"sound", "astray", "lost"}

NoField == [haloPresence |-> "none", haloStatus |-> "none",
            data |-> [block |-> 0, sites |-> "none", allocated |-> FALSE]]

\* The sites a block has room for follow from the presence of the halo.
GetNAllocatedSites(haloPresence) ==
    IF haloPresence = "WITH_HALO" THEN "vol+halo" ELSE "vol"

NewBlock(r, sites) ==
    [sites |-> sites, bulk |-> Garbage, halo |-> [s \in Neighbours[r] |-> Garbage],
     filled |-> FALSE, dirty |-> FALSE]

Init ==
    /\ scope = [n \in Names |-> "none"]
    /\ nOps = 0
    /\ viewUpdated = FALSE
    /\ todo = [r \in Ranks |-> <<>>]
    /\ field = [r \in Ranks |-> [n \in Names |-> NoField]]
    /\ heap = [r \in Ranks |-> EmptyMap]
    /\ waiting = [r \in Ranks |-> "none"]
    /\ channel = [l \in Ranks \X Ranks |-> <<>>]
    /\ course = [r \in Ranks |-> "sound"]
    /\ crashed = FALSE

------------------------------------------------------------------------------
(* The program: what the scopes of C++ let it write                        *)

Alive(n) == scope[n] # "none"

Choose(op, newScope) ==
    /\ ~crashed
    /\ nOps < MaxOps
    /\ \A r \in Ranks : Len(todo[r]) < MaxLead
    /\ nOps' = nOps + 1
    /\ todo' = [r \in Ranks |-> Append(todo[r], op)]
    /\ scope' = newScope
    /\ viewUpdated' = (viewUpdated \/ (op.kind = "update" /\ op.name \in Views))
    /\ UNCHANGED <<field, heap, waiting, channel, course, crashed>>

ChooseNew ==
    \E n \in Owners :
        /\ ~Alive(n)
        /\ \/ \E p \in HaloPresence :
                Choose([kind |-> "construct", name |-> n, haloPresence |-> p],
                       [scope EXCEPT ![n] = n])
           \/ \E m \in Owners :
                /\ Alive(m)
                /\ Choose([kind |-> "copyConstruct", name |-> n, oth |-> m],
                          [scope EXCEPT ![n] = n])

ChooseView ==
    \E n \in Views, m \in Owners :
        /\ ~Alive(n) /\ Alive(m)
        /\ Choose([kind |-> "getRef", name |-> n, oth |-> m], [scope EXCEPT ![n] = m])

ChooseUse ==
    \E n \in Names, kind \in {"write", "update", "invalidate"} :
        /\ Alive(n)
        /\ Choose([kind |-> kind, name |-> n], scope)

ChooseAssign ==
    \E n, m \in Owners, kind \in {"copyAssign", "moveAssign"} :
        /\ n # m /\ Alive(n) /\ Alive(m)
        /\ Choose([kind |-> kind, name |-> n, oth |-> m], scope)

\* A reference goes out of scope before what it refers to.
ChooseDestroy ==
    \E n \in Names :
        /\ Alive(n)
        /\ \A v \in Views \ {n} : scope[v] # n
        /\ Choose([kind |-> "destroy", name |-> n], [scope EXCEPT ![n] = "none"])

------------------------------------------------------------------------------
(* What a rank does                                                        *)

Now(r) == Head(todo[r])

\* The number of the operation.
At(r) == nOps - Len(todo[r]) + 1

Mine(r) == field[r][Now(r).name]
Oth(r) == field[r][Now(r).oth]
BlockOf(r, f) == heap[r][f.data.block]

\* MPI_Waitall returns when all messages have come.
Ready(r) ==
    /\ ~crashed
    /\ course[r] # "lost"
    /\ todo[r] # <<>>
    /\ waiting[r] # "none" => \A s \in Neighbours[r] : channel[<<s, r>>] # <<>>

\* The tensors an operation reads or writes, and how far.
Touches(r) ==
    LET mine == <<Mine(r).data, "vol">>
    IN IF waiting[r] # "none" THEN {<<Mine(r).data, "vol+halo">>}
       ELSE IF Now(r).kind = "copyConstruct" THEN {<<Oth(r).data, Oth(r).data.sites>>}
       ELSE IF Now(r).kind = "copyAssign" THEN {mine, <<Oth(r).data, "vol">>}
       ELSE IF Now(r).kind = "write" THEN {mine}
       ELSE IF Now(r).kind = "update" /\ Mine(r).haloStatus = "NOT_UPDATED" THEN {mine}
       ELSE {}

HasRoom(r, data, sites) ==
    /\ data.block \in DOMAIN heap[r]
    /\ heap[r][data.block].sites \in {sites, "vol+halo"}

InBounds(r) == \A t \in Touches(r) : HasRoom(r, t[1], t[2])

Turn(r, kind) == Ready(r) /\ waiting[r] = "none" /\ Now(r).kind = kind /\ InBounds(r)

Done(r) == todo' = [todo EXCEPT ![r] = Tail(@)]

\* ~LoggerLine: exit(1), and the launcher ends the other ranks; what these do in the
\* meantime they do before this step.
Crash(r) ==
    /\ r \in Printing
    /\ crashed' = TRUE
    /\ UNCHANGED <<scope, nOps, viewUpdated, todo, field, heap, waiting, channel, course>>

CrashUnheeded(r, refused) ==
    course' = IF refused THEN [course EXCEPT ![r] = "astray"] ELSE course

\* A check of the code that is passed, for being right or not printing.
Check(r, refused) ==
    /\ refused => r \notin Printing
    /\ course' = IF refused THEN [course EXCEPT ![r] = "astray"] ELSE course

\* An object is made on a new block.
Make(r, haloPresence, haloStatus, content) ==
    /\ field' = [field EXCEPT ![r][Now(r).name] =
                    [haloPresence |-> haloPresence, haloStatus |-> haloStatus,
                     data |-> [block |-> At(r), sites |-> content.sites, allocated |-> TRUE]]]
    /\ heap' = [heap EXCEPT ![r] = Put(@, At(r), content)]
    /\ Done(r)
    /\ UNCHANGED <<scope, nOps, viewUpdated, waiting, channel, course, crashed>>

ConstructUninitialized(r) ==
    /\ Turn(r, "construct")
    /\ \E status \in HaloStatus :
        Make(r, Now(r).haloPresence, status, NewBlock(r, GetNAllocatedSites(Now(r).haloPresence)))

Construct(r) ==
    /\ Turn(r, "construct")
    /\ Make(r, Now(r).haloPresence, "NOT_UPDATED",
            NewBlock(r, GetNAllocatedSites(Now(r).haloPresence)))

CopyConstructBulk(r) ==
    /\ Turn(r, "copyConstruct")
    /\ Make(r, Oth(r).haloPresence, Oth(r).haloStatus,
            [NewBlock(r, Oth(r).data.sites) EXCEPT !.bulk = BlockOf(r, Oth(r)).bulk])

\* The copy of the tensor takes its own sizes, halo included.
CopyConstruct(r) ==
    /\ Turn(r, "copyConstruct")
    /\ Make(r, Oth(r).haloPresence, Oth(r).haloStatus,
            [BlockOf(r, Oth(r)) EXCEPT !.sites = Oth(r).data.sites])

\* getRef and simdify: the status of the halo is not initialized.
GetRef(r) ==
    /\ Turn(r, "getRef")
    /\ \E status \in HaloStatus :
        field' = [field EXCEPT ![r][Now(r).name] =
                     [haloPresence |-> Oth(r).haloPresence, haloStatus |-> status,
                      data |-> Oth(r).data]]
    /\ Done(r)
    /\ UNCHANGED <<scope, nOps, viewUpdated, heap, waiting, channel, course, crashed>>

Overwrite(r, value) ==
    /\ heap' = [heap EXCEPT ![r][Mine(r).data.block].bulk = value,
                            ![r][Mine(r).data.block].dirty = TRUE]
    /\ Done(r)
    /\ UNCHANGED <<scope, nOps, viewUpdated, field, waiting, channel, course, crashed>>

\* Elements, or an expression, are assigned: eval gives access to the data.
Write(r) == Turn(r, "write") /\ Overwrite(r, At(r))

\* On the sizes of getDynamicSizes, that do not count the halo.
CopyAssign(r) == Turn(r, "copyAssign") /\ Overwrite(r, BlockOf(r, Oth(r)).bulk)

(* std::swap(data, oth.data) in steps: the tensor `mine` is moved to a     *)
(* temporary, that takes the storage and leaves both flags down, then is   *)
(* assigned from `oth`, which DynamicTens refuses.                         *)
MovedFrom(d) == [d EXCEPT !.allocated = FALSE]
CanMoveAssign(d, oth) == d.allocated /\ d.sites = oth.sites

SwapIsRefused(d, oth) == ~CanMoveAssign(MovedFrom(d), oth)

\* What each tensor takes from the other: not the sizes.
Taking(d, storage, allocated) == [d EXCEPT !.block = storage, !.allocated = allocated]

MoveAssignSwapping(r) ==
    /\ Turn(r, "moveAssign")
    /\ field' = [field EXCEPT ![r][Now(r).name].data = Oth(r).data,
                              ![r][Now(r).oth].data = Mine(r).data]
    /\ Done(r)
    /\ UNCHANGED <<scope, nOps, viewUpdated, heap, waiting, channel, course, crashed>>

\* Past the refusals, std::swap goes on: the storage of the temporary, whose flag is
\* down, ends in `oth`, and the flag of `oth` in `mine`.
MoveAssign(r) ==
    /\ Turn(r, "moveAssign")
    /\ Check(r, SwapIsRefused(Mine(r).data, Oth(r).data))
    /\ field' = [field EXCEPT
                    ![r][Now(r).name].data = Taking(@, Oth(r).data.block, Oth(r).data.allocated),
                    ![r][Now(r).oth].data = Taking(@, Mine(r).data.block, FALSE)]
    /\ Done(r)
    /\ UNCHANGED <<scope, nOps, viewUpdated, heap, waiting, channel, crashed>>

InvalidateHalo(r) ==
    /\ Turn(r, "invalidate")
    /\ field' = [field EXCEPT ![r][Now(r).name].haloStatus = "NOT_UPDATED"]
    /\ Done(r)
    /\ UNCHANGED <<scope, nOps, viewUpdated, heap, waiting, channel, course, crashed>>

\* "Trying to synchronize the halo but they it is not allocated"
NoHalo(r) == Mine(r).haloPresence = "WITHOUT_HALO"

\* The CRASH of std::swap and of updateHalo, on a rank that prints.
Refused(r) ==
    /\ \/ Turn(r, "moveAssign") /\ SwapIsRefused(Mine(r).data, Oth(r).data)
       \/ Turn(r, "update") /\ NoHalo(r)
    /\ Crash(r)

\* "No need to update the halo"
EarlyReturn(r) ==
    /\ Turn(r, "update")
    /\ Check(r, NoHalo(r))
    /\ Mine(r).haloStatus = "UPDATED"
    /\ Done(r)
    /\ UNCHANGED <<scope, nOps, viewUpdated, field, heap, waiting, channel, crashed>>

\* The buffer is filled and sent.
StartUpdate(r) ==
    /\ Turn(r, "update")
    /\ Check(r, NoHalo(r))
    /\ Mine(r).haloStatus = "NOT_UPDATED"
    /\ channel' = [l \in DOMAIN channel |->
                     IF l[1] = r /\ l[2] \in Neighbours[r]
                     THEN Append(channel[l], BlockOf(r, Mine(r)).bulk)
                     ELSE channel[l]]
    /\ waiting' = [waiting EXCEPT ![r] = Now(r).name]
    /\ UNCHANGED <<scope, nOps, viewUpdated, todo, field, heap, crashed>>

\* All messages have come: the halo is filled.
FinishUpdate(r) ==
    /\ Ready(r)
    /\ InBounds(r)
    /\ waiting[r] # "none"
    /\ heap' = [heap EXCEPT ![r][Mine(r).data.block].halo =
                                [s \in Neighbours[r] |-> Head(channel[<<s, r>>])],
                            ![r][Mine(r).data.block].filled = TRUE,
                            ![r][Mine(r).data.block].dirty = FALSE]
    /\ channel' = [l \in DOMAIN channel |->
                     IF l[2] = r /\ l[1] \in Neighbours[r] THEN Tail(channel[l]) ELSE channel[l]]
    /\ field' = [field EXCEPT ![r][Now(r).name].haloStatus = "UPDATED"]
    /\ waiting' = [waiting EXCEPT ![r] = "none"]
    /\ Done(r)
    /\ UNCHANGED <<scope, nOps, viewUpdated, course, crashed>>

\* An operation goes out of the room of a block, or to one given back: from here on
\* nothing is known of the rank.
GoOutOfBounds(r) ==
    /\ Ready(r)
    /\ ~InBounds(r)
    /\ course' = [course EXCEPT ![r] = "lost"]
    /\ UNCHANGED <<scope, nOps, viewUpdated, todo, field, heap, waiting, channel, crashed>>

\* It stops, or goes on, and may send anything; to take what is sent to it, or not,
\* makes no difference to the others.
Wander(r) ==
    /\ ~crashed
    /\ course[r] = "lost"
    /\ \E s \in Neighbours[r] :
        /\ Len(channel[<<r, s>>]) < MaxOps
        /\ channel' = [channel EXCEPT ![<<r, s>>] = Append(@, Garbage)]
    /\ UNCHANGED <<scope, nOps, viewUpdated, todo, field, heap, waiting, course, crashed>>

\* The tensor gives its block back; a reference has none of its own.
Destroy(r) ==
    /\ Turn(r, "destroy")
    /\ heap' = IF Now(r).name \in Owners /\ Mine(r).data.allocated
               THEN [heap EXCEPT ![r] = Drop(@, Mine(r).data.block)]
               ELSE heap
    /\ field' = [field EXCEPT ![r][Now(r).name] = NoField]
    /\ Done(r)
    /\ UNCHANGED <<scope, nOps, viewUpdated, waiting, channel, course, crashed>>

Step(r) ==
    \/ Construct(r)
    \/ CopyConstruct(r)
    \/ GetRef(r)
    \/ Write(r)
    \/ CopyAssign(r)
    \/ MoveAssign(r)
    \/ InvalidateHalo(r)
    \/ Refused(r)
    \/ EarlyReturn(r)
    \/ StartUpdate(r)
    \/ FinishUpdate(r)
    \/ Destroy(r)
    \/ GoOutOfBounds(r)

Next ==
    \/ ChooseNew
    \/ ChooseView
    \/ ChooseUse
    \/ ChooseAssign
    \/ ChooseDestroy
    \/ \E r \in Ranks : Step(r) \/ Wander(r)

Spec == Init /\ [][Next]_vars

\* Every rank that is not lost goes on; a message that was sent comes.
FairSpec == Spec /\ \A r \in Ranks : WF_vars(Step(r))

------------------------------------------------------------------------------
(***************************************************************************)
(* Properties                                                              *)
(***************************************************************************)

\* A rank that has passed no check it failed, or that a rank that prints has overtaken.
Followed(r) == course[r] = "sound" \/ \E s \in Printing : Len(todo[s]) < Len(todo[r])

(* As long as no halo is updated through a view, whose status is not       *)
(* initialized (`field.hpp:678`), ranks that have run the same operations  *)
(* are in the same state and have left no message to each other: none has  *)
(* returned early from an update that another one took part in. It is so   *)
(* of all ranks that have not gone past a CRASH (`logger.hpp:170`), and    *)
(* none of those that have is overtaken by one that prints.                *)
RanksAgree ==
    \A r, s \in Ranks :
        /\ ~viewUpdated /\ Followed(r) /\ Followed(s)
        /\ Len(todo[r]) = Len(todo[s]) /\ waiting[r] = "none" /\ waiting[s] = "none"
        => /\ channel[<<r, s>>] = <<>>
           /\ DOMAIN heap[r] = DOMAIN heap[s]
           /\ \A n \in Owners :
                /\ field[r][n] = field[s][n]
                /\ field[r][n] # NoField =>
                     BlockOf(r, field[r][n]).bulk = BlockOf(s, field[s][n]).bulk

(* A halo said to be updated was filled, with the present values of the    *)
(* field unless it was written after the exchange: through copies, views,  *)
(* destructions and updates of other fields with the same tags. The code   *)
(* does not invalidate the halo of a field that is written                 *)
(* (`field.hpp:264`), and this is the only way to a halo out of date, on   *)
(* ranks that have not gone past a CRASH.                                  *)
UpdatedHaloIsCurrent ==
    \A r \in Ranks, n \in Owners :
        ~viewUpdated /\ Followed(r) /\ field[r][n].haloStatus = "UPDATED" =>
            LET block == BlockOf(r, field[r][n])
            IN block.filled /\ (~block.dirty => \A s \in Neighbours[r] : block.halo[s] = block.bulk)

(* A field that exists has a block of its own, a view one that exists,     *)
(* and the room for a halo is there when the field says so: updateHalo and *)
(* shift do not go out of it. The move assignment of a field, that swaps   *)
(* the data but not the presence of the halo (`field.hpp:74`), breaks it   *)
(* only on ranks that do not print, past a CRASH, and no rank that prints  *)
(* overtakes them: the program ends first.                                 *)
RoomForHalo ==
    \A r \in Ranks, n \in Names :
        LET f == field[r][n]
        IN Followed(r) /\ f # NoField =>
             /\ f.data.block \in DOMAIN heap[r]
             /\ BlockOf(r, f).sites = GetNAllocatedSites(f.haloPresence)
             /\ \A m \in Owners \ {n} : n \in Owners => field[r][m].data.block # f.data.block

(* An update returns, on every rank, unless the program updates a view or  *)
(* ends: no rank waits in MPI_Waitall (`field.hpp:620`) for one that has   *)
(* returned early. Where a rank has gone past a CRASH, stuck in an update  *)
(* or out of its bounds, the program does end.                             *)
UpdatesReturn ==
    \A r \in Ranks :
        waiting[r] # "none" \/ course[r] # "sound"
            ~> (waiting[r] = "none" /\ course[r] = "sound") \/ viewUpdated \/ crashed

==============================================================================
