----------------------------- MODULE FieldsProofs -----------------------------
(***************************************************************************)
(* Fields of any program, on any number of ranks: there is room for what   *)
(* they say, ranks stay in step, and a halo is out of date only after a    *)
(* write.                                                                  *)
(*                                                                         *)
(* The argument: all ranks run one program, P, whose scopes, A, say what   *)
(* exists before and after each operation, and H which halos there are, so *)
(* which operations are refused. A rank is sound as long as it has not     *)
(* gone past a refusal. What a sound rank has depends on how far it is in  *)
(* the program and on nothing else: F and B are the fields and the values  *)
(* of their blocks after each operation, E the exchanges made. A message   *)
(* on the way to it is one of an exchange it has still to come to, and     *)
(* holds the values of the field at that point of the program.             *)
(*                                                                         *)
(* Of a rank gone past a refusal nothing is known, not even where its      *)
(* blocks end, except that it does not print and that what it had sent     *)
(* before is still there. A rank that prints stops at the refusal, so no   *)
(* such rank is overtaken by one that prints.                              *)
(***************************************************************************)
EXTENDS Fields, SequenceTheorems, TLAPS

------------------------------------------------------------------------------
(* The program.                                                            *)

Ops ==
    [kind : {"construct"}, name : Owners, haloPresence : HaloPresence]
      \cup [kind : {"copyConstruct", "copyAssign", "moveAssign"}, name : Owners, oth : Owners]
      \cup [kind : {"getRef"}, name : Views, oth : Owners]
      \cup [kind : {"write", "update", "invalidate", "destroy"}, name : Names]

\* Operations done.
Pos(r) == nOps - Len(todo[r])

Making == {"construct", "copyConstruct", "getRef"}

\* What the scopes a let the program do.
AllowedIn(op, a) ==
    /\ a[op.name] = "none" <=> op.kind \in Making
    /\ op.kind \in {"copyConstruct", "copyAssign", "moveAssign", "getRef"} =>
          a[op.oth] # "none" /\ op.oth # op.name
    /\ op.kind = "destroy" => \A v \in Views \ {op.name} : a[v] # op.name

With(f, n, x) == [f EXCEPT ![n] = x]

ScopeAfter(op, a) ==
    IF op.kind \in {"construct", "copyConstruct"} THEN With(a, op.name, op.name)
    ELSE IF op.kind = "getRef" THEN With(a, op.name, op.oth)
    ELSE IF op.kind = "destroy" THEN With(a, op.name, "none")
    ELSE a

\* A field that lives stands for itself, a view for a field that lives.
Scoped(a) ==
    /\ a \in [Names -> Owners \cup {"none"}]
    /\ \A n \in Owners : a[n] \in {n, "none"}
    /\ \A v \in Views : a[v] # "none" => a[a[v]] = a[v]

Program(P, A) ==
    /\ P \in [1 .. nOps -> Ops]
    /\ A[nOps] = scope
    /\ \A k \in 0 .. nOps : Scoped(A[k])
    /\ \A k \in 1 .. nOps : AllowedIn(P[k], A[k - 1]) /\ A[k] = ScopeAfter(P[k], A[k - 1])

\* A rank has still to run what remains of the program.
Queued(P) ==
    \A r \in Ranks :
        /\ todo[r] \in Seq(Ops) /\ Len(todo[r]) <= nOps
        /\ \A i \in 1 .. Len(todo[r]) : todo[r][i] = P[Pos(r) + i]

------------------------------------------------------------------------------
(* The objects f of a rank and its blocks h, p operations in the program.  *)

FieldTypes ==
    [haloPresence : HaloPresence \cup {"none"}, haloStatus : HaloStatus \cup {"none"},
     data : [block : Nat, sites : {"none", "vol", "vol+halo"}, allocated : BOOLEAN]]

Blocks(r) ==
    [sites : {"none", "vol", "vol+halo"}, bulk : Nat, halo : [Neighbours[r] -> Nat],
     filled : BOOLEAN, dirty : BOOLEAN]

TypedIn(r, f, h) == f \in [Names -> FieldTypes] /\ h \in [DOMAIN h -> Blocks(r)]

\* What exists is what the scopes say, each field on a block of its own with room for
\* what it says, and each view on the block of its field.
ObjectsIn(f, h, p, a) ==
    /\ DOMAIN h \subseteq 1 .. p
    /\ \A n \in Names : a[n] = "none" => f[n] = NoField
    /\ \A n \in Owners : a[n] # "none" =>
          /\ f[n].haloPresence \in HaloPresence /\ f[n].haloStatus \in HaloStatus
          /\ f[n].data.allocated /\ f[n].data.block \in DOMAIN h
          /\ f[n].data.sites = GetNAllocatedSites(f[n].haloPresence)
          /\ h[f[n].data.block].sites = f[n].data.sites
          /\ \A m \in Owners \ {n} : f[m].data.block # f[n].data.block
    /\ \A v \in Views : a[v] # "none" =>
          /\ f[v].haloPresence = f[a[v]].haloPresence /\ f[v].data = f[a[v]].data
          /\ f[v].haloStatus \in HaloStatus

\* They are those of all ranks at this point of the program.
InStepIn(f, h, shared, bulks) ==
    /\ DOMAIN shared = Owners /\ \A n \in Owners : f[n] = shared[n]
    /\ DOMAIN h = DOMAIN bulks
    /\ \A b \in DOMAIN h : h[b].bulk = bulks[b]

\* A block whose halo was filled, with its present values unless it was written since.
Current(r, block) ==
    block.filled /\ (~block.dirty => \A s \in Neighbours[r] : block.halo[s] = block.bulk)

CurrentIn(r, f, h) ==
    \A n \in Owners : f[n].haloStatus = "UPDATED" => Current(r, h[f[n].data.block])

------------------------------------------------------------------------------
(* The inductive invariant.                                                *)

Typed ==
    /\ nOps \in Nat
    /\ viewUpdated \in BOOLEAN
    /\ todo = [r \in Ranks |-> todo[r]]
    /\ field = [r \in Ranks |-> field[r]]
    /\ heap = [r \in Ranks |-> heap[r]]
    /\ \A r \in Ranks : TypedIn(r, field[r], heap[r])
    /\ waiting \in [Ranks -> Names \cup {"none"}]
    /\ channel \in [Ranks \X Ranks -> Seq(Nat)]
    /\ course \in [Ranks -> Courses]

Waits(r) ==
    waiting[r] # "none" =>
        /\ todo[r] # <<>> /\ Now(r).kind = "update" /\ Now(r).name = waiting[r]
        /\ Mine(r).haloPresence = "WITH_HALO" /\ Mine(r).haloStatus = "NOT_UPDATED"

\* What the fields and views say of their halo, after an operation and before it.
PresenceAfter(op, x) ==
    [n \in Names |->
        IF n # op.name THEN x[n]
        ELSE IF op.kind = "construct" THEN op.haloPresence
        ELSE IF op.kind \in {"copyConstruct", "getRef"} THEN x[op.oth]
        ELSE IF op.kind = "destroy" THEN "none"
        ELSE x[n]]

Presences(P, H) ==
    /\ H[0] = [n \in Names |-> "none"]
    /\ \A k \in 1 .. nOps : H[k] = PresenceAfter(P[k], H[k - 1])

PresentIn(f, x) == \A n \in Names : f[n].haloPresence = x[n]

\* The operations that end in a CRASH: the program says which.
RefusedIn(op, x) ==
    op.kind = "moveAssign" \/ (op.kind = "update" /\ x[op.name] = "WITHOUT_HALO")

Accepted(k, P, H) == \A j \in 1 .. k : ~RefusedIn(P[j], H[j - 1])

Sound(r, P, A, H) ==
    /\ ObjectsIn(field[r], heap[r], Pos(r), A[Pos(r)]) /\ Waits(r)
    /\ PresentIn(field[r], H[Pos(r)])
    /\ Accepted(Pos(r), P, H)

\* Rank r has come to an operation that is refused, and does not print.
PastRefusal(r, P, H) ==
    /\ r \notin Printing
    /\ \E j \in 1 .. nOps : j <= Pos(r) + 1 /\ RefusedIn(P[j], H[j - 1])

Placed(P, A, H) ==
    /\ Program(P, A)
    /\ Queued(P)
    /\ Presences(P, H)
    /\ \A r \in Ranks :
          /\ course[r] = "sound" => Sound(r, P, A, H)
          /\ course[r] # "sound" => PastRefusal(r, P, H)

\* A field made by operation k, on a block with room for what it says.
Object(haloPresence, haloStatus, k) ==
    [haloPresence |-> haloPresence, haloStatus |-> haloStatus,
     data |-> [block |-> k, sites |-> GetNAllocatedSites(haloPresence), allocated |-> TRUE]]

WithStatus(f, n, status) == [f EXCEPT ![n].haloStatus = status]

Overwritten(h, b, value) == [h EXCEPT ![b].bulk = value, ![b].dirty = TRUE]

\* What operation k leaves of the fields and of the values of their blocks.
FieldsAfter(op, k, f) ==
    IF op.kind = "construct"
    THEN With(f, op.name, Object(op.haloPresence, "NOT_UPDATED", k))
    ELSE IF op.kind = "copyConstruct"
    THEN With(f, op.name, Object(f[op.oth].haloPresence, f[op.oth].haloStatus, k))
    ELSE IF op.kind = "invalidate" /\ op.name \in Owners
    THEN WithStatus(f, op.name, "NOT_UPDATED")
    ELSE IF op.kind = "update" THEN WithStatus(f, op.name, "UPDATED")
    ELSE IF op.kind = "destroy" /\ op.name \in Owners THEN With(f, op.name, NoField)
    ELSE f

BulksAfter(op, k, a, f, b) ==
    IF op.kind = "construct" THEN Put(b, k, Garbage)
    ELSE IF op.kind = "copyConstruct" THEN Put(b, k, b[f[op.oth].data.block])
    ELSE IF op.kind = "write" THEN With(b, f[a[op.name]].data.block, k)
    ELSE IF op.kind = "copyAssign"
    THEN With(b, f[a[op.name]].data.block, b[f[op.oth].data.block])
    ELSE IF op.kind = "destroy" /\ op.name \in Owners THEN Drop(b, f[op.name].data.block)
    ELSE b

Exchanges(op, f) ==
    /\ op.kind = "update"
    /\ f[op.name].haloPresence = "WITH_HALO" /\ f[op.name].haloStatus = "NOT_UPDATED"

Shared(P, A, F, B, E) ==
    /\ F[0] = [n \in Owners |-> NoField] /\ B[0] = EmptyMap /\ E[0] = 0
    /\ \A k \in 0 .. nOps : E[k] \in Nat
    /\ \A k \in 1 .. nOps :
          /\ F[k] = FieldsAfter(P[k], k, F[k - 1])
          /\ B[k] = BulksAfter(P[k], k, A[k - 1], F[k - 1], B[k - 1])
          /\ E[k] = E[k - 1] + (IF Exchanges(P[k], F[k - 1]) THEN 1 ELSE 0)
          /\ P[k].kind = "update" => P[k].name \in Owners
          /\ \A j \in 0 .. k - 1 : E[j] <= E[k] /\ (Exchanges(P[k], F[k - 1]) => E[j] < E[k])

\* The messages a rank has sent to each of the others, and those it has received.
Sent(r, E) == E[Pos(r)] + (IF waiting[r] = "none" THEN 0 ELSE 1)

Received(r, E) == E[Pos(r)]

\* The values of the field exchanged in operation k.
Exchanged(k, P, F, B) == B[k - 1][F[k - 1][P[k].name].data.block]

\* What is on the way from s to a sound rank r, in order, is what r has still to come to:
\* all that was sent if s is sound, else what was before the first refusal, and more.
Messages(P, H, F, B, E) ==
    \A r \in Ranks : \A s \in Neighbours[r] : course[r] = "sound" =>
        /\ course[s] = "sound" =>
              /\ Received(r, E) <= Sent(s, E)
              /\ Len(channel[<<s, r>>]) = Sent(s, E) - Received(r, E)
        /\ \A k \in 1 .. nOps :
              /\ Exchanges(P[k], F[k - 1]) /\ Received(r, E) < E[k]
              /\ IF course[s] = "sound" THEN E[k] <= Sent(s, E) ELSE Accepted(k, P, H)
              => /\ E[k] - Received(r, E) <= Len(channel[<<s, r>>])
                 /\ channel[<<s, r>>][E[k] - Received(r, E)] = Exchanged(k, P, F, B)

Agreed(P, A, H, F, B, E) ==
    /\ Shared(P, A, F, B, E)
    /\ \A r \in Ranks : course[r] = "sound" =>
          /\ InStepIn(field[r], heap[r], F[Pos(r)], B[Pos(r)])
          /\ CurrentIn(r, field[r], heap[r])
    /\ \A r \in Ranks : \A s \in Ranks \ Neighbours[r] : channel[<<s, r>>] = <<>>
    /\ Messages(P, H, F, B, E)

RoomInv == Typed /\ \E P, A, H : Placed(P, A, H)

StepInv ==
    ~viewUpdated => \E P, A, H, F, B, E : Placed(P, A, H) /\ Agreed(P, A, H, F, B, E)

------------------------------------------------------------------------------
(* What the operations do to the objects of one rank.                      *)

LEMMA NamesApart ==
  /\ Names = Owners \cup Views /\ Owners \cap Views = {} /\ "none" \notin Names
  /\ NoField \in FieldTypes
BY NamesAssumption DEF Names, NoField, FieldTypes

\* An object is made on a new block.
LEMMA MakesObject ==
  ASSUME NEW r \in Ranks, NEW f, NEW h, NEW p \in Nat, NEW a,
         TypedIn(r, f, h), Scoped(a), ObjectsIn(f, h, p, a),
         NEW n \in Owners, a[n] = "none",
         NEW presence \in HaloPresence, NEW status \in HaloStatus, NEW content \in Blocks(r),
         content.sites = GetNAllocatedSites(presence)
  PROVE  LET object == Object(presence, status, p + 1)
             f2 == With(f, n, object)
             h2 == Put(h, p + 1, content)
         IN /\ TypedIn(r, f2, h2)
            /\ ObjectsIn(f2, h2, p + 1, With(a, n, n))
            /\ \A F, B : InStepIn(f, h, F, B) =>
                  InStepIn(f2, h2, With(F, n, object), Put(B, p + 1, content.bulk))
            /\ CurrentIn(r, f, h)
               /\ (status = "UPDATED" => Current(r, content))
               => CurrentIn(r, f2, h2)
<1> DEFINE a2 == With(a, n, n)
           object == Object(presence, status, p + 1)
           f2 == With(f, n, object)
           h2 == Put(h, p + 1, content)
<1> USE DEF With
<1>1. /\ n \in Names /\ n # "none" /\ Names = Owners \cup Views /\ Owners \cap Views = {}
      /\ "none" \notin Owners
  BY NamesApart
<1>2. /\ DOMAIN h2 = DOMAIN h \cup {p + 1} /\ p + 1 \notin DOMAIN h
      /\ h2[p + 1] = content /\ \A b \in DOMAIN h : h2[b] = h[b]
      /\ DOMAIN h2 \subseteq 1 .. p + 1
  BY DEF Put, ObjectsIn
<1>3. object \in FieldTypes /\ object.haloPresence = presence /\ object.haloStatus = status
      /\ object.data.block = p + 1 /\ object.data.sites = content.sites
      /\ object.data.allocated
  BY DEF FieldTypes, Blocks, Object
<1> HIDE DEF object
<1>4. /\ f2 \in [Names -> FieldTypes] /\ f2[n] = object
      /\ \A m \in Names \ {n} : f2[m] = f[m]
  BY <1>1, <1>3 DEF TypedIn
<1>5. TypedIn(r, f2, h2)
  <2>1. \A b \in DOMAIN h2 : h2[b] \in Blocks(r)
    BY <1>2 DEF TypedIn
  <2>2. h2 = [b \in DOMAIN h2 |-> h2[b]]
    BY <1>2 DEF Put
  <2> QED BY <1>4, <2>1, <2>2 DEF TypedIn
<1>6. a2[n] = n /\ \A m \in Names \ {n} : a2[m] = a[m]
  BY <1>1 DEF Scoped
<1>7. \A m \in Owners \ {n} : f[m].data.block # p + 1
  <2>1. \A m \in Owners : a[m] # "none" => f[m].data.block # p + 1
    BY <1>2 DEF ObjectsIn
  <2>2. \A m \in Owners : a[m] = "none" => f[m].data.block # p + 1
    BY <1>1 DEF ObjectsIn, NoField
  <2> QED BY <2>1, <2>2
<1>8. ASSUME NEW v \in Views, a[v] # "none" PROVE a[v] \in Owners \ {n}
  BY <1>1, <1>8 DEF Scoped
<1> HIDE DEF a2, f2, h2
<1>9. ObjectsIn(f2, h2, p + 1, a2)
  <2>1. \A m \in Names : a2[m] = "none" => f2[m] = NoField
    BY <1>1, <1>4, <1>6 DEF ObjectsIn
  <2>2. ASSUME NEW m \in Owners, a2[m] # "none"
        PROVE  /\ f2[m].haloPresence \in HaloPresence /\ f2[m].haloStatus \in HaloStatus
               /\ f2[m].data.allocated /\ f2[m].data.block \in DOMAIN h2
               /\ f2[m].data.sites = GetNAllocatedSites(f2[m].haloPresence)
               /\ h2[f2[m].data.block].sites = f2[m].data.sites
               /\ \A q \in Owners \ {m} : f2[q].data.block # f2[m].data.block
    <3>1. CASE m = n
      BY <1>1, <1>2, <1>3, <1>4, <1>7, <3>1
    <3>2. CASE m # n
      BY <1>1, <1>2, <1>3, <1>4, <1>6, <2>2, <3>2 DEF ObjectsIn
    <3> QED BY <3>1, <3>2
  <2>3. ASSUME NEW v \in Views, a2[v] # "none"
        PROVE  /\ f2[v].haloPresence = f2[a2[v]].haloPresence /\ f2[v].data = f2[a2[v]].data
               /\ f2[v].haloStatus \in HaloStatus
    <3>1. v \in Names \ {n} /\ a2[v] = a[v]
      BY <1>1, <1>6
    <3>2. f2[v] = f[v] /\ f2[a[v]] = f[a[v]]
      BY <1>1, <1>4, <1>8, <2>3, <3>1
    <3>3. a[v] # "none"
      BY <2>3, <3>1
    <3>4. /\ f[v].haloPresence = f[a[v]].haloPresence /\ f[v].data = f[a[v]].data
          /\ f[v].haloStatus \in HaloStatus
      BY <3>3 DEF ObjectsIn
    <3> QED BY <3>1, <3>2, <3>4
  <2> QED BY <1>2, <2>1, <2>2, <2>3 DEF ObjectsIn
<1>10. ASSUME NEW F, NEW B, InStepIn(f, h, F, B)
       PROVE  InStepIn(f2, h2, With(F, n, object), Put(B, p + 1, content.bulk))
  <2>1. /\ DOMAIN [F EXCEPT ![n] = object] = Owners
        /\ \A m \in Owners : f2[m] = [F EXCEPT ![n] = object][m]
    BY <1>1, <1>4, <1>10 DEF InStepIn
  <2>2. /\ DOMAIN Put(B, p + 1, content.bulk) = DOMAIN h2
        /\ \A b \in DOMAIN h2 : h2[b].bulk = Put(B, p + 1, content.bulk)[b]
    BY <1>2, <1>10 DEF InStepIn, Put
  <2> QED BY <2>1, <2>2 DEF InStepIn
<1>11. ASSUME CurrentIn(r, f, h), status = "UPDATED" => Current(r, content)
       PROVE  CurrentIn(r, f2, h2)
  <2>1. SUFFICES ASSUME NEW m \in Owners, f2[m].haloStatus = "UPDATED"
                 PROVE  Current(r, h2[f2[m].data.block])
    BY DEF CurrentIn
  <2>2. CASE m = n
    BY <1>2, <1>3, <1>4, <1>11, <2>1, <2>2
  <2>3. CASE m # n
    <3>1. f2[m] = f[m] /\ f[m].haloStatus = "UPDATED"
      BY <1>1, <1>4, <2>1, <2>3
    <3>2. f[m].data.block \in DOMAIN h
      BY <1>1, <3>1 DEF ObjectsIn, NoField
    <3>3. h2[f[m].data.block] = h[f[m].data.block]
      BY <1>2, <3>2
    <3> QED BY <1>11, <2>1, <3>1, <3>3 DEF CurrentIn
  <2> QED BY <2>2, <2>3
<1> QED BY <1>5, <1>9, <1>10, <1>11 DEF a2, f2, h2, object

\* What a name stands for has a block.
LEMMA NameHasBlock ==
  ASSUME NEW r \in Ranks, NEW f, NEW h, NEW p \in Nat, NEW a,
         TypedIn(r, f, h), Scoped(a), ObjectsIn(f, h, p, a), NEW n \in Names, a[n] # "none"
  PROVE  /\ a[n] \in Owners /\ a[a[n]] = a[n] /\ a[a[n]] # "none"
         /\ f[n].data = f[a[n]].data /\ f[n].haloPresence = f[a[n]].haloPresence
         /\ f[n].haloPresence \in HaloPresence /\ f[n].haloStatus \in HaloStatus
         /\ f[n].data.block \in DOMAIN h
         /\ h[f[n].data.block].sites = GetNAllocatedSites(f[n].haloPresence)
<1>1. Names = Owners \cup Views /\ "none" \notin Names
  BY NamesApart
<1>2. a[n] \in Owners /\ a[a[n]] = a[n]
  BY <1>1 DEF Scoped
<1>3. PICK m \in Owners : m = a[n]
  BY <1>2
<1>4. a[m] # "none"
  BY <1>2, <1>3
<1>5. /\ f[m].haloPresence \in HaloPresence /\ f[m].haloStatus \in HaloStatus
      /\ f[m].data.block \in DOMAIN h
      /\ h[f[m].data.block].sites = GetNAllocatedSites(f[m].haloPresence)
  BY <1>4 DEF ObjectsIn
<1>6. f[n].data = f[m].data /\ f[n].haloPresence = f[m].haloPresence
      /\ f[n].haloStatus \in HaloStatus
  <2>1. CASE n \in Owners
    BY <1>3, <1>5, <2>1 DEF Scoped
  <2>2. CASE n \in Views
    BY <1>3, <2>2 DEF ObjectsIn
  <2> QED BY <1>1, <2>1, <2>2
<1> QED BY <1>2, <1>3, <1>4, <1>5, <1>6

\* Blocks of the same sites, for the same objects but for their status.
SameButStatus(f, h, f2, h2, a) ==
    /\ DOMAIN h2 = DOMAIN h /\ \A b \in DOMAIN h : h2[b].sites = h[b].sites
    /\ \A n \in Names : /\ f2[n].haloPresence = f[n].haloPresence /\ f2[n].data = f[n].data
                        /\ a[n] = "none" => f2[n] = f[n]
                        /\ a[n] # "none" => f2[n].haloStatus \in HaloStatus

LEMMA SameObjects ==
  ASSUME NEW r \in Ranks, NEW f, NEW h, NEW p \in Nat, NEW a,
         TypedIn(r, f, h), ObjectsIn(f, h, p, a), Scoped(a),
         NEW f2, NEW h2, f2 \in [Names -> FieldTypes], SameButStatus(f, h, f2, h2, a)
  PROVE  ObjectsIn(f2, h2, p + 1, a)
<1> USE DEF SameButStatus
<1>1. Names = Owners \cup Views
  BY NamesApart
<1>2. DOMAIN h2 \subseteq 1 .. p + 1
  BY DEF ObjectsIn
<1>3. \A n \in Names : a[n] = "none" => f2[n] = NoField
  BY DEF ObjectsIn
<1>4. ASSUME NEW n \in Owners, a[n] # "none"
      PROVE  /\ f2[n].haloPresence \in HaloPresence /\ f2[n].haloStatus \in HaloStatus
             /\ f2[n].data.allocated /\ f2[n].data.block \in DOMAIN h2
             /\ f2[n].data.sites = GetNAllocatedSites(f2[n].haloPresence)
             /\ h2[f2[n].data.block].sites = f2[n].data.sites
             /\ \A m \in Owners \ {n} : f2[m].data.block # f2[n].data.block
  <2>1. f2[n].haloPresence = f[n].haloPresence /\ f2[n].data = f[n].data
        /\ f2[n].haloStatus \in HaloStatus
    BY <1>1, <1>4
  <2>2. \A m \in Owners \ {n} : f2[m].data.block # f2[n].data.block
    BY <1>1, <1>4 DEF ObjectsIn
  <2>3. /\ f[n].haloPresence \in HaloPresence
        /\ f[n].data.allocated /\ f[n].data.block \in DOMAIN h
        /\ f[n].data.sites = GetNAllocatedSites(f[n].haloPresence)
        /\ h[f[n].data.block].sites = f[n].data.sites
    BY <1>4 DEF ObjectsIn
  <2> QED BY <2>1, <2>2, <2>3
<1>5. ASSUME NEW v \in Views, a[v] # "none"
      PROVE  /\ f2[v].haloPresence = f2[a[v]].haloPresence /\ f2[v].data = f2[a[v]].data
             /\ f2[v].haloStatus \in HaloStatus
  <2>1. a[v] \in Names /\ v \in Names
    BY <1>1, <1>5 DEF Scoped
  <2>2. f[v].haloPresence = f[a[v]].haloPresence /\ f[v].data = f[a[v]].data
    BY <1>5 DEF ObjectsIn
  <2> QED BY <1>5, <2>1, <2>2
<1> QED BY <1>2, <1>3, <1>4, <1>5 DEF ObjectsIn

\* A block is overwritten, through the name of a field or of a view.
LEMMA OverwritesBlock ==
  ASSUME NEW r \in Ranks, NEW f, NEW h, NEW p \in Nat, NEW a,
         TypedIn(r, f, h), Scoped(a), ObjectsIn(f, h, p, a),
         NEW n \in Names, a[n] # "none", NEW value \in Nat
  PROVE  LET h2 == Overwritten(h, f[n].data.block, value)
         IN /\ TypedIn(r, f, h2)
            /\ ObjectsIn(f, h2, p + 1, a)
            /\ \A F, B : InStepIn(f, h, F, B) =>
                  InStepIn(f, h2, F, With(B, F[a[n]].data.block, value))
            /\ CurrentIn(r, f, h) => CurrentIn(r, f, h2)
<1> USE DEF With
<1> DEFINE b == f[n].data.block
           h2 == Overwritten(h, b, value)
<1>1. a[n] \in Owners /\ f[n].data = f[a[n]].data /\ b \in DOMAIN h
  BY NameHasBlock
<1> HIDE DEF b, h2
<1>2. h2 = [h EXCEPT ![b].bulk = value, ![b].dirty = TRUE]
  BY DEF h2, Overwritten
<1>3. h[b] \in Blocks(r) /\ h \in [DOMAIN h -> Blocks(r)]
  BY <1>1 DEF TypedIn
<1>4. /\ DOMAIN h2 = DOMAIN h /\ h2 = [c \in DOMAIN h |-> h2[c]]
      /\ \A c \in DOMAIN h \ {b} : h2[c] = h[c]
      /\ h2[b] = [h[b] EXCEPT !.bulk = value, !.dirty = TRUE]
  BY <1>1, <1>2, <1>3
<1>5. /\ h2[b] \in Blocks(r) /\ h2[b].sites = h[b].sites /\ h2[b].bulk = value
      /\ h2[b].dirty /\ h2[b].filled = h[b].filled
  <2> DEFINE x == [h[b] EXCEPT !.bulk = value]
  <2>1. x \in Blocks(r) /\ x.sites = h[b].sites /\ x.bulk = value /\ x.filled = h[b].filled
    BY <1>3 DEF Blocks
  <2>2. h2[b] = [x EXCEPT !.dirty = TRUE]
    BY <1>4
  <2> HIDE DEF x
  <2>3. [x EXCEPT !.dirty = TRUE] \in Blocks(r)
    BY <2>1 DEF Blocks
  <2>4. /\ [x EXCEPT !.dirty = TRUE].sites = x.sites /\ [x EXCEPT !.dirty = TRUE].bulk = x.bulk
        /\ [x EXCEPT !.dirty = TRUE].dirty /\ [x EXCEPT !.dirty = TRUE].filled = x.filled
    BY <2>1 DEF Blocks
  <2> QED BY <2>1, <2>2, <2>3, <2>4
<1>6. TypedIn(r, f, h2)
  BY <1>3, <1>4, <1>5 DEF TypedIn
<1>7. ObjectsIn(f, h2, p + 1, a)
  <2>1. \A m \in Names : a[m] # "none" => f[m].haloStatus \in HaloStatus
    BY NameHasBlock
  <2>2. \A c \in DOMAIN h : h2[c].sites = h[c].sites
    BY <1>4, <1>5
  <2>3. f \in [Names -> FieldTypes]
    BY DEF TypedIn
  <2>4. SameButStatus(f, h, f, h2, a)
    BY <1>4, <2>1, <2>2 DEF SameButStatus
  <2> QED BY <2>3, <2>4, SameObjects
<1>8. ASSUME NEW F, NEW B, InStepIn(f, h, F, B)
      PROVE  InStepIn(f, h2, F, With(B, F[a[n]].data.block, value))
  <2>1. F[a[n]].data.block = b
    BY <1>1, <1>8 DEF InStepIn, b
  <2>2. DOMAIN h = DOMAIN B /\ \A c \in DOMAIN h : h[c].bulk = B[c]
    BY <1>8 DEF InStepIn
  <2>3. DOMAIN [B EXCEPT ![b] = value] = DOMAIN h2
    BY <1>4, <2>2
  <2>4. \A c \in DOMAIN h2 : h2[c].bulk = [B EXCEPT ![b] = value][c]
    <3>1. [B EXCEPT ![b] = value][b] = value
      BY <1>1, <2>2 DEF b
    <3>2. \A c \in DOMAIN h \ {b} : [B EXCEPT ![b] = value][c] = B[c]
      BY <2>2
    <3>3. SUFFICES ASSUME NEW c \in DOMAIN h
                   PROVE  h2[c].bulk = [B EXCEPT ![b] = value][c]
      BY <1>4
    <3>4. CASE c = b
      BY <1>5, <3>1, <3>4
    <3>5. CASE c # b
      BY <1>4, <2>2, <3>2, <3>5
    <3> QED BY <3>4, <3>5
  <2>5. DOMAIN F = Owners /\ \A m \in Owners : f[m] = F[m]
    BY <1>8 DEF InStepIn
  <2> QED BY <2>1, <2>3, <2>4, <2>5 DEF InStepIn
<1>9. ASSUME CurrentIn(r, f, h) PROVE CurrentIn(r, f, h2)
  <2>1. SUFFICES ASSUME NEW m \in Owners, f[m].haloStatus = "UPDATED"
                 PROVE  Current(r, h2[f[m].data.block])
    BY DEF CurrentIn
  <2>2. m \in Names /\ f[m].data.block \in DOMAIN h
    BY <2>1, NamesApart, NameHasBlock DEF ObjectsIn, NoField
  <2>3. Current(r, h[f[m].data.block])
    BY <1>9, <2>1 DEF CurrentIn
  <2>4. CASE f[m].data.block = b
    BY <1>5, <2>3, <2>4 DEF Current
  <2>5. CASE f[m].data.block # b
    BY <1>4, <2>2, <2>3, <2>5
  <2> QED BY <2>4, <2>5
<1> QED BY <1>6, <1>7, <1>8, <1>9 DEF h2, b

\* The status of the halo changes, and the halo may be filled.
LEMMA SetsStatus ==
  ASSUME NEW r \in Ranks, NEW f, NEW h, NEW p \in Nat, NEW a,
         TypedIn(r, f, h), Scoped(a), ObjectsIn(f, h, p, a),
         NEW n \in Names, a[n] # "none", NEW status \in HaloStatus,
         NEW h2, DOMAIN h2 = DOMAIN h, h2 \in [DOMAIN h -> Blocks(r)],
         \A b \in DOMAIN h : /\ h2[b].sites = h[b].sites /\ h2[b].bulk = h[b].bulk
                             /\ b # f[n].data.block => h2[b] = h[b]
  PROVE  LET f2 == WithStatus(f, n, status)
         IN /\ TypedIn(r, f2, h2)
            /\ ObjectsIn(f2, h2, p + 1, a)
            /\ \A F, B : InStepIn(f, h, F, B) =>
                  /\ n \in Views => InStepIn(f2, h2, F, B)
                  /\ n \in Owners => InStepIn(f2, h2, WithStatus(F, n, status), B)
            /\ CurrentIn(r, f, h)
               /\ (h2 = h \/ n \in Owners)
               /\ (n \in Owners /\ status = "UPDATED" => Current(r, h2[f[n].data.block]))
               => CurrentIn(r, f2, h2)
<1> DEFINE f2 == WithStatus(f, n, status)
<1> USE DEF WithStatus
<1>1. f \in [Names -> FieldTypes] /\ Names = Owners \cup Views /\ Owners \cap Views = {}
  BY NamesApart DEF TypedIn
<1>2. /\ f2[n] = [f[n] EXCEPT !.haloStatus = status] /\ \A m \in Names \ {n} : f2[m] = f[m]
      /\ f2 = [m \in Names |-> f2[m]]
  BY <1>1
<1> HIDE DEF f2
<1>3. /\ f2[n] \in FieldTypes /\ f2[n].haloPresence = f[n].haloPresence
      /\ f2[n].data = f[n].data /\ f2[n].haloStatus = status
  BY <1>1, <1>2 DEF FieldTypes
<1>4. f2 \in [Names -> FieldTypes]
  BY <1>1, <1>2, <1>3
<1>5. ObjectsIn(f2, h2, p + 1, a)
  <2>1. \A m \in Names : a[m] # "none" => f[m].haloStatus \in HaloStatus
    BY NameHasBlock
  <2>2. \A m \in Names : /\ f2[m].haloPresence = f[m].haloPresence /\ f2[m].data = f[m].data
                         /\ a[m] = "none" => f2[m] = f[m]
                         /\ a[m] # "none" => f2[m].haloStatus \in HaloStatus
    BY <1>2, <1>3, <2>1
  <2>3. DOMAIN h2 = DOMAIN h /\ \A b \in DOMAIN h : h2[b].sites = h[b].sites
    OBVIOUS
  <2>4. SameButStatus(f, h, f2, h2, a)
    BY <2>2, <2>3 DEF SameButStatus
  <2> QED BY <1>4, <2>4, SameObjects
<1>6. ASSUME NEW F, NEW B, InStepIn(f, h, F, B)
      PROVE  /\ n \in Views => InStepIn(f2, h2, F, B)
             /\ n \in Owners => InStepIn(f2, h2, WithStatus(F, n, status), B)
  <2>1. DOMAIN h2 = DOMAIN B /\ \A b \in DOMAIN h2 : h2[b].bulk = B[b]
    BY <1>6 DEF InStepIn
  <2>2. DOMAIN F = Owners /\ DOMAIN [F EXCEPT ![n].haloStatus = status] = Owners
    BY <1>6 DEF InStepIn
  <2>3. n \in Views => \A m \in Owners : f2[m] = F[m]
    BY <1>1, <1>2, <1>6 DEF InStepIn
  <2>4. n \in Owners => \A m \in Owners : f2[m] = [F EXCEPT ![n].haloStatus = status][m]
    BY <1>1, <1>2, <1>6 DEF InStepIn
  <2> QED BY <2>1, <2>2, <2>3, <2>4 DEF InStepIn
<1>7. ASSUME CurrentIn(r, f, h), h2 = h \/ n \in Owners,
             n \in Owners /\ status = "UPDATED" => Current(r, h2[f[n].data.block])
      PROVE  CurrentIn(r, f2, h2)
  <2>1. SUFFICES ASSUME NEW m \in Owners, f2[m].haloStatus = "UPDATED"
                 PROVE  Current(r, h2[f2[m].data.block])
    BY DEF CurrentIn
  <2>2. CASE m = n
    BY <1>3, <1>7, <2>1, <2>2
  <2>3. CASE m # n
    <3>1. f2[m] = f[m] /\ m \in Names
      BY <1>1, <1>2, <2>3
    <3>2. a[m] # "none"
      BY <2>1, <3>1 DEF ObjectsIn, NoField
    <3>3. f[m].data.block \in DOMAIN h
      BY <3>1, <3>2, NameHasBlock
    <3>4. h2[f[m].data.block] = h[f[m].data.block]
      <4>1. CASE n \in Owners
        BY <2>3, <3>2, <3>3, <4>1 DEF ObjectsIn
      <4>2. CASE h2 = h
        BY <4>2
      <4> QED BY <1>7, <4>1, <4>2
    <3> QED BY <1>7, <2>1, <3>1, <3>4 DEF CurrentIn
  <2> QED BY <2>2, <2>3
<1> QED BY <1>4, <1>5, <1>6, <1>7 DEF TypedIn, f2

\* A view of a field is taken, with a status that is not initialized.
Reference(x, status) ==
    [haloPresence |-> x.haloPresence, haloStatus |-> status, data |-> x.data]

LEMMA Refers ==
  ASSUME NEW r \in Ranks, NEW f, NEW h, NEW p \in Nat, NEW a,
         TypedIn(r, f, h), Scoped(a), ObjectsIn(f, h, p, a),
         NEW v \in Views, a[v] = "none", NEW m \in Owners, a[m] # "none",
         NEW status \in HaloStatus
  PROVE  LET f2 == With(f, v, Reference(f[m], status))
         IN /\ TypedIn(r, f2, h)
            /\ ObjectsIn(f2, h, p + 1, With(a, v, m))
            /\ \A F, B : InStepIn(f, h, F, B) => InStepIn(f2, h, F, B)
            /\ CurrentIn(r, f, h) => CurrentIn(r, f2, h)
<1> DEFINE a2 == With(a, v, m)
           f2 == With(f, v, Reference(f[m], status))
<1> USE DEF With, Reference
<1>1. /\ v \in Names /\ m \in Names /\ v # m /\ Names = Owners \cup Views
      /\ Owners \cap Views = {} /\ f \in [Names -> FieldTypes]
  BY NamesApart DEF TypedIn
<1>2. f2[v] = [haloPresence |-> f[m].haloPresence, haloStatus |-> status, data |-> f[m].data]
  BY <1>1
<1>3. f2 = [n \in Names |-> f2[n]] /\ \A n \in Names \ {v} : f2[n] = f[n]
  BY <1>1
<1>4. f2 \in [Names -> FieldTypes]
  <2>1. f2[v] \in FieldTypes
    BY <1>1, <1>2 DEF FieldTypes
  <2> QED BY <1>1, <1>3, <2>1
<1>5. /\ a2[v] = m /\ m # "none" /\ a[m] = m /\ \A n \in Names \ {v} : a2[n] = a[n]
      /\ \A w \in Views : a[w] # "none" => a[w] \in Owners
  BY <1>1, NamesApart DEF Scoped
<1> HIDE DEF a2, f2
<1>6. ObjectsIn(f2, h, p + 1, a2)
  <2>1. DOMAIN h \subseteq 1 .. p + 1 /\ \A n \in Names : a2[n] = "none" => f2[n] = NoField
    <3>1. \A n \in Names \ {v} : a[n] = "none" => f[n] = NoField
      BY DEF ObjectsIn
    <3>2. DOMAIN h \subseteq 1 .. p + 1
      BY DEF ObjectsIn
    <3> QED BY <1>3, <1>5, <3>1, <3>2
  <2>2. ASSUME NEW n \in Owners, a2[n] # "none"
        PROVE  /\ f2[n].haloPresence \in HaloPresence /\ f2[n].haloStatus \in HaloStatus
               /\ f2[n].data.allocated /\ f2[n].data.block \in DOMAIN h
               /\ f2[n].data.sites = GetNAllocatedSites(f2[n].haloPresence)
               /\ h[f2[n].data.block].sites = f2[n].data.sites
               /\ \A q \in Owners \ {n} : f2[q].data.block # f2[n].data.block
    <3>1. n \in Names \ {v} /\ f2[n] = f[n] /\ a[n] # "none"
      BY <1>1, <1>3, <1>5, <2>2
    <3>2. \A q \in Owners : f2[q] = f[q]
      BY <1>1, <1>3
    <3> QED BY <3>1, <3>2 DEF ObjectsIn
  <2>3. ASSUME NEW w \in Views, a2[w] # "none"
        PROVE  /\ f2[w].haloPresence = f2[a2[w]].haloPresence /\ f2[w].data = f2[a2[w]].data
               /\ f2[w].haloStatus \in HaloStatus
    <3>1. CASE w = v
      BY <1>1, <1>2, <1>3, <1>5, <3>1
    <3>2. CASE w # v
      <4>1. w \in Names \ {v} /\ a2[w] = a[w] /\ a[w] \in Names \ {v}
        BY <1>1, <1>5, <2>3, <3>2
      <4>2. f2[w] = f[w] /\ f2[a[w]] = f[a[w]]
        BY <1>3, <4>1
      <4>3. /\ f[w].haloPresence = f[a[w]].haloPresence /\ f[w].data = f[a[w]].data
            /\ f[w].haloStatus \in HaloStatus
        BY <2>3, <4>1 DEF ObjectsIn
      <4> QED BY <4>1, <4>2, <4>3
    <3> QED BY <3>1, <3>2
  <2> QED BY <2>1, <2>2, <2>3 DEF ObjectsIn
<1>7. \A n \in Owners : f2[n] = f[n]
  BY <1>1, <1>3
<1>8. TypedIn(r, f2, h) /\ \A F, B : InStepIn(f, h, F, B) => InStepIn(f2, h, F, B)
  BY <1>4, <1>7 DEF TypedIn, InStepIn
<1>9. CurrentIn(r, f, h) => CurrentIn(r, f2, h)
  BY <1>7 DEF CurrentIn
<1> QED BY <1>6, <1>8, <1>9 DEF a2, f2

\* A field that nothing refers to is destroyed, and its block is given back.
LEMMA DestroysField ==
  ASSUME NEW r \in Ranks, NEW f, NEW h, NEW p \in Nat, NEW a,
         TypedIn(r, f, h), Scoped(a), ObjectsIn(f, h, p, a),
         NEW n \in Owners, a[n] # "none", \A v \in Views : a[v] # n
  PROVE  LET f2 == With(f, n, NoField)
             h2 == Drop(h, f[n].data.block)
         IN /\ TypedIn(r, f2, h2)
            /\ ObjectsIn(f2, h2, p + 1, With(a, n, "none"))
            /\ \A F, B : InStepIn(f, h, F, B) =>
                  InStepIn(f2, h2, With(F, n, NoField), Drop(B, F[n].data.block))
            /\ CurrentIn(r, f, h) => CurrentIn(r, f2, h2)
<1> DEFINE a2 == With(a, n, "none")
           b == f[n].data.block
           f2 == With(f, n, NoField)
           h2 == Drop(h, b)
<1> USE DEF With
<1>1. /\ n \in Names /\ Names = Owners \cup Views /\ Owners \cap Views = {}
      /\ f \in [Names -> FieldTypes] /\ NoField \in FieldTypes
  BY NamesApart DEF TypedIn
<1>2. f2 \in [Names -> FieldTypes] /\ f2[n] = NoField /\ \A m \in Names \ {n} : f2[m] = f[m]
  BY <1>1
<1>3. a2[n] = "none" /\ \A m \in Names \ {n} : a2[m] = a[m]
  BY <1>1 DEF Scoped
<1>4. DOMAIN h2 = DOMAIN h \ {b} /\ h2 = [c \in DOMAIN h2 |-> h2[c]]
      /\ \A c \in DOMAIN h2 : h2[c] = h[c]
  BY DEF Drop, Restrict
<1>5. TypedIn(r, f2, h2)
  <2>1. \A c \in DOMAIN h2 : h2[c] \in Blocks(r)
    BY <1>4 DEF TypedIn
  <2> QED BY <1>2, <1>4, <2>1 DEF TypedIn
<1>6. \A m \in Owners \ {n} : f[m].data.block # b
  BY DEF ObjectsIn
<1>7. ASSUME NEW v \in Views, a[v] # "none" PROVE a[v] \in Owners \ {n}
  BY <1>1, <1>7 DEF Scoped
<1>8. ASSUME NEW m \in Owners \ {n}, a[m] # "none"
      PROVE  f[m].data.block \in DOMAIN h2
  BY <1>4, <1>6, <1>8 DEF ObjectsIn
<1> HIDE DEF a2, f2, h2
<1>9. ObjectsIn(f2, h2, p + 1, a2)
  <2>1. DOMAIN h2 \subseteq 1 .. p + 1 /\ \A m \in Names : a2[m] = "none" => f2[m] = NoField
    BY <1>1, <1>2, <1>3, <1>4 DEF ObjectsIn
  <2>2. ASSUME NEW m \in Owners, a2[m] # "none"
        PROVE  /\ f2[m].haloPresence \in HaloPresence /\ f2[m].haloStatus \in HaloStatus
               /\ f2[m].data.allocated /\ f2[m].data.block \in DOMAIN h2
               /\ f2[m].data.sites = GetNAllocatedSites(f2[m].haloPresence)
               /\ h2[f2[m].data.block].sites = f2[m].data.sites
               /\ \A q \in Owners \ {m} : f2[q].data.block # f2[m].data.block
    <3>1. m \in Owners \ {n} /\ f2[m] = f[m] /\ a[m] # "none"
      BY <1>1, <1>2, <1>3, <2>2
    <3>2. f[m].data.block \in DOMAIN h2 /\ h2[f[m].data.block] = h[f[m].data.block]
      BY <1>4, <1>8, <3>1
    <3>3. f[m].data.block \in Nat \ {0}
      BY <3>1 DEF ObjectsIn
    <3>4. ASSUME NEW q \in Owners \ {m} PROVE f2[q].data.block # f[m].data.block
      <4>1. CASE q = n
        BY <1>2, <3>3, <4>1 DEF NoField
      <4>2. CASE q # n
        BY <1>1, <1>2, <3>1, <4>2 DEF ObjectsIn
      <4> QED BY <4>1, <4>2
    <3>5. /\ f[m].haloPresence \in HaloPresence /\ f[m].haloStatus \in HaloStatus
          /\ f[m].data.allocated
          /\ f[m].data.sites = GetNAllocatedSites(f[m].haloPresence)
          /\ h[f[m].data.block].sites = f[m].data.sites
      BY <3>1 DEF ObjectsIn
    <3> QED BY <3>1, <3>2, <3>4, <3>5
  <2>3. ASSUME NEW w \in Views, a2[w] # "none"
        PROVE  /\ f2[w].haloPresence = f2[a2[w]].haloPresence /\ f2[w].data = f2[a2[w]].data
               /\ f2[w].haloStatus \in HaloStatus
    <3>1. w \in Names \ {n} /\ a2[w] = a[w] /\ a[w] # "none"
      BY <1>1, <1>3, <2>3
    <3>2. a[w] \in Names \ {n}
      BY <1>1, <1>7, <3>1
    <3>3. f2[w] = f[w] /\ f2[a[w]] = f[a[w]]
      BY <1>2, <3>1, <3>2
    <3>4. /\ f[w].haloPresence = f[a[w]].haloPresence /\ f[w].data = f[a[w]].data
          /\ f[w].haloStatus \in HaloStatus
      BY <3>1 DEF ObjectsIn
    <3> QED BY <3>1, <3>3, <3>4
  <2> QED BY <2>1, <2>2, <2>3 DEF ObjectsIn
<1>10. ASSUME NEW F, NEW B, InStepIn(f, h, F, B)
       PROVE  InStepIn(f2, h2, With(F, n, NoField), Drop(B, F[n].data.block))
  <2>1. /\ DOMAIN [F EXCEPT ![n] = NoField] = Owners
        /\ \A m \in Owners : f2[m] = [F EXCEPT ![n] = NoField][m]
    BY <1>1, <1>2, <1>10 DEF InStepIn
  <2>2. F[n].data.block = b /\ DOMAIN h = DOMAIN B /\ \A c \in DOMAIN h : h[c].bulk = B[c]
    BY <1>10 DEF InStepIn
  <2>3. DOMAIN Drop(B, b) = DOMAIN h2 /\ \A c \in DOMAIN h2 : h2[c].bulk = Drop(B, b)[c]
    BY <1>4, <2>2 DEF Drop, Restrict
  <2> QED BY <2>1, <2>2, <2>3 DEF InStepIn
<1>11. ASSUME CurrentIn(r, f, h) PROVE CurrentIn(r, f2, h2)
  <2>1. SUFFICES ASSUME NEW m \in Owners, f2[m].haloStatus = "UPDATED"
                 PROVE  Current(r, h2[f2[m].data.block])
    BY DEF CurrentIn
  <2>2. m # n /\ f2[m] = f[m] /\ a[m] # "none"
    BY <1>1, <1>2, <2>1 DEF NoField, ObjectsIn
  <2>3. h2[f[m].data.block] = h[f[m].data.block]
    BY <1>4, <1>8, <2>2
  <2> QED BY <1>11, <2>1, <2>2, <2>3 DEF CurrentIn
<1> QED BY <1>5, <1>9, <1>10, <1>11 DEF a2, f2, h2

\* A view goes out of scope.
LEMMA DestroysView ==
  ASSUME NEW r \in Ranks, NEW f, NEW h, NEW p \in Nat, NEW a,
         TypedIn(r, f, h), Scoped(a), ObjectsIn(f, h, p, a), NEW v \in Views
  PROVE  LET f2 == With(f, v, NoField)
         IN /\ TypedIn(r, f2, h)
            /\ ObjectsIn(f2, h, p + 1, With(a, v, "none"))
            /\ \A F, B : InStepIn(f, h, F, B) => InStepIn(f2, h, F, B)
            /\ CurrentIn(r, f, h) => CurrentIn(r, f2, h)
<1> DEFINE a2 == With(a, v, "none")
           f2 == With(f, v, NoField)
<1> USE DEF With
<1>1. /\ v \in Names /\ Names = Owners \cup Views /\ Owners \cap Views = {}
      /\ f \in [Names -> FieldTypes] /\ NoField \in FieldTypes
  BY NamesApart DEF TypedIn
<1>2. f2 \in [Names -> FieldTypes] /\ f2[v] = NoField /\ \A m \in Names \ {v} : f2[m] = f[m]
  BY <1>1
<1>3. /\ a2[v] = "none" /\ \A m \in Names \ {v} : a2[m] = a[m]
      /\ \A w \in Views : a[w] # "none" => a[w] \in Owners
  BY <1>1 DEF Scoped
<1> HIDE DEF a2, f2
<1>4. \A n \in Owners : f2[n] = f[n] /\ a2[n] = a[n]
  BY <1>1, <1>2, <1>3
<1>5. ObjectsIn(f2, h, p + 1, a2)
  <2>1. DOMAIN h \subseteq 1 .. p + 1 /\ \A n \in Names : a2[n] = "none" => f2[n] = NoField
    BY <1>1, <1>2, <1>3 DEF ObjectsIn
  <2>2. ASSUME NEW w \in Views, a2[w] # "none"
        PROVE  /\ f2[w].haloPresence = f2[a2[w]].haloPresence /\ f2[w].data = f2[a2[w]].data
               /\ f2[w].haloStatus \in HaloStatus
    <3>1. w \in Names \ {v} /\ a2[w] = a[w] /\ a[w] \in Owners
      BY <1>1, <1>3, <2>2
    <3>2. f2[w] = f[w] /\ f2[a[w]] = f[a[w]]
      BY <1>2, <1>4, <3>1
    <3> QED BY <2>2, <3>1, <3>2 DEF ObjectsIn
  <2>3. ASSUME NEW n \in Owners, a2[n] # "none"
        PROVE  /\ f2[n].haloPresence \in HaloPresence /\ f2[n].haloStatus \in HaloStatus
               /\ f2[n].data.allocated /\ f2[n].data.block \in DOMAIN h
               /\ f2[n].data.sites = GetNAllocatedSites(f2[n].haloPresence)
               /\ h[f2[n].data.block].sites = f2[n].data.sites
               /\ \A q \in Owners \ {n} : f2[q].data.block # f2[n].data.block
    BY <1>4, <2>3 DEF ObjectsIn
  <2> QED BY <2>1, <2>2, <2>3 DEF ObjectsIn
<1>6. TypedIn(r, f2, h) /\ \A F, B : InStepIn(f, h, F, B) => InStepIn(f2, h, F, B)
  BY <1>2, <1>4 DEF TypedIn, InStepIn
<1>7. CurrentIn(r, f, h) => CurrentIn(r, f2, h)
  BY <1>4 DEF CurrentIn
<1> QED BY <1>5, <1>6, <1>7 DEF a2, f2

------------------------------------------------------------------------------
(* A rank runs the next operation of the program.                          *)

LEMMA NextOperation ==
  ASSUME NEW P, NEW A, NEW H, Typed, Placed(P, A, H), NEW r \in Ranks, todo[r] # <<>>
  PROVE  /\ Pos(r) \in 0 .. nOps - 1 /\ At(r) = Pos(r) + 1 /\ Pos(r) \in Nat
         /\ Now(r) = P[Pos(r) + 1] /\ Now(r) \in Ops
         /\ Scoped(A[Pos(r)]) /\ AllowedIn(Now(r), A[Pos(r)])
         /\ A[Pos(r) + 1] = ScopeAfter(Now(r), A[Pos(r)])
         /\ H[Pos(r) + 1] = PresenceAfter(Now(r), H[Pos(r)])
         /\ TypedIn(r, field[r], heap[r])
         /\ course[r] = "sound" =>
               /\ ObjectsIn(field[r], heap[r], Pos(r), A[Pos(r)])
               /\ PresentIn(field[r], H[Pos(r)])
<1>1. /\ todo[r] \in Seq(Ops) /\ Len(todo[r]) <= nOps /\ nOps \in Nat
      /\ \A i \in 1 .. Len(todo[r]) : todo[r][i] = P[Pos(r) + i]
  BY DEF Placed, Queued, Typed
<1>2. Len(todo[r]) \in Nat \ {0} /\ Head(todo[r]) = todo[r][1]
  BY <1>1
<1>3. Pos(r) \in 0 .. nOps - 1 /\ At(r) = Pos(r) + 1
  BY <1>1, <1>2 DEF Pos, At
<1>4. Now(r) = P[Pos(r) + 1]
  BY <1>1, <1>2 DEF Now
<1>5. Pos(r) + 1 \in 1 .. nOps /\ Pos(r) \in 0 .. nOps /\ (Pos(r) + 1) - 1 = Pos(r)
  BY <1>1, <1>3
<1>6. Program(P, A) /\ Presences(P, H)
  BY DEF Placed
<1>7. P[Pos(r) + 1] \in Ops /\ Scoped(A[Pos(r)])
  BY <1>5, <1>6 DEF Program
<1>8. /\ AllowedIn(P[Pos(r) + 1], A[Pos(r)])
      /\ A[Pos(r) + 1] = ScopeAfter(P[Pos(r) + 1], A[Pos(r)])
  BY <1>5, <1>6 DEF Program
<1>9. H[Pos(r) + 1] = PresenceAfter(P[Pos(r) + 1], H[Pos(r)])
  BY <1>5, <1>6 DEF Presences
<1> QED BY <1>3, <1>4, <1>7, <1>8, <1>9 DEF Placed, Sound, Typed

\* Rank r has run its operation, that leaves the objects f2 and the blocks h2.
Moves(r, f2, h2) ==
    /\ Done(r)
    /\ field' = [field EXCEPT ![r] = f2] /\ heap' = [heap EXCEPT ![r] = h2]
    /\ UNCHANGED <<scope, nOps, viewUpdated, course>>

\* Ranks have less to run.
LEMMA QueueAdvances ==
  ASSUME NEW P, NEW A, NEW H, Typed, Placed(P, A, H), NEW r \in Ranks, todo[r] # <<>>, Done(r),
         UNCHANGED <<scope, nOps>>
  PROVE  /\ Program(P, A)' /\ Queued(P)' /\ Presences(P, H)'
         /\ Pos(r)' = Pos(r) + 1 /\ \A s \in Ranks \ {r} : Pos(s)' = Pos(s) /\ todo'[s] = todo[s]
         /\ todo' = [s \in Ranks |-> todo'[s]]
<1>1. nOps' = nOps /\ nOps \in Nat /\ scope' = scope /\ todo' = [todo EXCEPT ![r] = Tail(@)]
  BY DEF Done, Typed
<1>2. /\ todo'[r] = Tail(todo[r]) /\ todo' = [s \in Ranks |-> todo'[s]]
      /\ \A s \in Ranks \ {r} : todo'[s] = todo[s]
  BY <1>1 DEF Typed
<1>3. /\ todo[r] \in Seq(Ops) /\ Len(todo[r]) \in Nat \ {0} /\ Len(todo[r]) <= nOps
      /\ \A i \in 1 .. Len(todo[r]) : todo[r][i] = P[Pos(r) + i]
  BY <1>1 DEF Placed, Queued
<1>4. /\ Tail(todo[r]) \in Seq(Ops) /\ Len(Tail(todo[r])) = Len(todo[r]) - 1
      /\ \A i \in 1 .. Len(todo[r]) - 1 : Tail(todo[r])[i] = todo[r][i + 1]
  BY <1>3
<1>5. Pos(r)' = Pos(r) + 1 /\ Pos(r) \in Nat
  <2>1. Len(todo'[r]) = Len(todo[r]) - 1
    BY <1>2, <1>4
  <2>2. nOps' = nOps /\ nOps \in Nat /\ Len(todo[r]) \in Nat /\ Len(todo[r]) <= nOps
    BY <1>1, <1>3
  <2> QED BY <2>1, <2>2 DEF Pos
<1>6. \A s \in Ranks \ {r} : Pos(s)' = Pos(s)
  BY <1>1, <1>2 DEF Pos
<1>7. Queued(P)'
  <2>1. SUFFICES ASSUME NEW s \in Ranks
                 PROVE  /\ todo'[s] \in Seq(Ops) /\ Len(todo'[s]) <= nOps
                        /\ \A i \in 1 .. Len(todo'[s]) : todo'[s][i] = P[Pos(s)' + i]
    BY <1>1 DEF Queued
  <2>2. CASE s = r
    <3>1. ASSUME NEW i \in 1 .. Len(todo[r]) - 1
          PROVE  Tail(todo[r])[i] = P[Pos(r)' + i]
      <4>1. i + 1 \in 1 .. Len(todo[r]) /\ Pos(r)' + i = Pos(r) + (i + 1)
        <5>1. Len(todo[r]) \in Nat /\ Pos(r) \in Nat /\ Pos(r)' = Pos(r) + 1
          BY <1>3, <1>5
        <5>2. i \in Nat /\ 1 <= i /\ i <= Len(todo[r]) - 1
          BY <3>1, <5>1
        <5> QED BY <5>1, <5>2
      <4> QED BY <1>3, <1>4, <4>1
    <3>2. Len(todo[r]) - 1 <= nOps
      BY <1>1, <1>3
    <3> QED BY <1>2, <1>4, <2>2, <3>1, <3>2
  <2>3. CASE s # r
    BY <1>2, <1>6, <2>1, <2>3 DEF Placed, Queued
  <2> QED BY <2>2, <2>3
<1>8. Program(P, A)' /\ Presences(P, H)'
  BY <1>1 DEF Placed, Program, Presences
<1> QED BY <1>2, <1>5, <1>6, <1>7, <1>8

\* These are what the program has at this point, and the operation is not refused.
Left(r, P, A, H, f2, h2) ==
    /\ TypedIn(r, f2, h2) /\ ObjectsIn(f2, h2, Pos(r) + 1, A[Pos(r) + 1])
    /\ PresentIn(f2, H[Pos(r) + 1]) /\ ~RefusedIn(Now(r), H[Pos(r)])

LEMMA RankMoves ==
  ASSUME NEW P, NEW A, NEW H, Typed, Placed(P, A, H), NEW r \in Ranks, course[r] = "sound",
         todo[r] # <<>>, NEW f2, NEW h2, Moves(r, f2, h2),
         Left(r, P, A, H, f2, h2),
         waiting' = [waiting EXCEPT ![r] = "none"], channel' \in [Ranks \X Ranks -> Seq(Nat)]
  PROVE  /\ Typed' /\ Placed(P, A, H)'
         /\ Pos(r)' = Pos(r) + 1 /\ field'[r] = f2 /\ heap'[r] = h2 /\ waiting'[r] = "none"
         /\ \A s \in Ranks \ {r} : /\ Pos(s)' = Pos(s) /\ field'[s] = field[s]
                                   /\ heap'[s] = heap[s] /\ waiting'[s] = waiting[s]
<1>1. /\ nOps' = nOps /\ nOps \in Nat /\ scope' = scope /\ viewUpdated' = viewUpdated
      /\ course' = course /\ Done(r)
      /\ field' = [field EXCEPT ![r] = f2] /\ heap' = [heap EXCEPT ![r] = h2]
  BY DEF Moves, Typed
<1>2. /\ field'[r] = f2 /\ heap'[r] = h2 /\ waiting'[r] = "none"
      /\ field' = [s \in Ranks |-> field'[s]] /\ heap' = [s \in Ranks |-> heap'[s]]
  BY <1>1 DEF Typed
<1>3. \A s \in Ranks \ {r} : /\ field'[s] = field[s] /\ heap'[s] = heap[s]
                             /\ waiting'[s] = waiting[s]
  BY <1>1 DEF Typed
<1>4. /\ Program(P, A)' /\ Queued(P)' /\ Presences(P, H)' /\ Pos(r)' = Pos(r) + 1
      /\ \A s \in Ranks \ {r} : Pos(s)' = Pos(s) /\ todo'[s] = todo[s]
      /\ todo' = [s \in Ranks |-> todo'[s]]
  BY <1>1, QueueAdvances
<1>5. Sound(r, P, A, H)'
  <2>1. Pos(r) \in Nat /\ Now(r) = P[Pos(r) + 1] /\ Accepted(Pos(r), P, H)
    BY NextOperation DEF Placed, Sound
  <2> USE DEF Left
  <2>2. Accepted(Pos(r) + 1, P, H)
    <3>1. SUFFICES ASSUME NEW j \in 1 .. Pos(r) + 1 PROVE ~RefusedIn(P[j], H[j - 1])
      BY DEF Accepted
    <3>2. CASE j = Pos(r) + 1
      <4>1. j - 1 = Pos(r)
        BY <2>1, <3>2
      <4> QED BY <2>1, <3>2, <4>1
    <3>3. CASE j # Pos(r) + 1
      <4>1. j \in 1 .. Pos(r)
        BY <2>1, <3>3
      <4> QED BY <2>1, <4>1 DEF Accepted
    <3> QED BY <3>2, <3>3
  <2>3. Accepted(Pos(r), P, H)'
    BY <1>4, <2>2 DEF Accepted
  <2>4. Waits(r)'
    BY <1>2 DEF Waits
  <2> QED BY <1>2, <1>4, <2>3, <2>4 DEF Sound
<1>6. ASSUME NEW s \in Ranks \ {r}
      PROVE  /\ course'[s] = "sound" => Sound(s, P, A, H)'
             /\ course'[s] # "sound" => PastRefusal(s, P, H)'
  <2>1. Waits(s) => Waits(s)'
    BY <1>1, <1>3, <1>4 DEF Waits, Now, Mine
  <2>2. Accepted(Pos(s), P, H) => Accepted(Pos(s), P, H)'
    BY <1>4 DEF Accepted
  <2>3. course[s] = "sound" => Sound(s, P, A, H)'
    BY <1>3, <1>4, <2>1, <2>2 DEF Placed, Sound
  <2>4. course[s] # "sound" => PastRefusal(s, P, H)'
    BY <1>1, <1>4 DEF Placed, PastRefusal
  <2> QED BY <1>1, <2>3, <2>4
<1>7. Placed(P, A, H)'
  BY <1>1, <1>4, <1>5, <1>6 DEF Placed
<1>8. Typed'
  <2>1. \A s \in Ranks : TypedIn(s, field'[s], heap'[s])
    BY <1>2, <1>3 DEF Typed, Left
  <2>2. waiting' \in [Ranks -> Names \cup {"none"}] /\ viewUpdated' \in BOOLEAN
    BY <1>1 DEF Typed
  <2>3. course' \in [Ranks -> Courses]
    BY <1>1 DEF Typed
  <2> QED BY <1>1, <1>2, <1>4, <2>1, <2>2, <2>3 DEF Typed
<1> QED BY <1>2, <1>3, <1>4, <1>7, <1>8

LEMMA SameMessages ==
  ASSUME NEW P, NEW H, NEW F, NEW B, NEW E, Messages(P, H, F, B, E),
         UNCHANGED <<nOps, channel, course>>,
         \A s \in Ranks : Sent(s, E)' = Sent(s, E) /\ Received(s, E)' = Received(s, E)
  PROVE  Messages(P, H, F, B, E)'
<1>1. ASSUME NEW r \in Ranks, NEW s \in Neighbours[r], course[r] = "sound"
      PROVE  /\ course[s] = "sound" =>
                   /\ Received(r, E)' <= Sent(s, E)'
                   /\ Len(channel[<<s, r>>]) = Sent(s, E)' - Received(r, E)'
             /\ \A k \in 1 .. nOps :
                   /\ Exchanges(P[k], F[k - 1]) /\ Received(r, E)' < E[k]
                   /\ IF course[s] = "sound" THEN E[k] <= Sent(s, E)' ELSE Accepted(k, P, H)
                   => /\ E[k] - Received(r, E)' <= Len(channel[<<s, r>>])
                      /\ channel[<<s, r>>][E[k] - Received(r, E)'] = Exchanged(k, P, F, B)
  <2>1. s \in Ranks
    BY NeighboursAssumption
  <2>2. /\ course[s] = "sound" =>
                   /\ Received(r, E) <= Sent(s, E)
                   /\ Len(channel[<<s, r>>]) = Sent(s, E) - Received(r, E)
        /\ \A k \in 1 .. nOps :
                   /\ Exchanges(P[k], F[k - 1]) /\ Received(r, E) < E[k]
                   /\ IF course[s] = "sound" THEN E[k] <= Sent(s, E) ELSE Accepted(k, P, H)
                   => /\ E[k] - Received(r, E) <= Len(channel[<<s, r>>])
                      /\ channel[<<s, r>>][E[k] - Received(r, E)] = Exchanged(k, P, F, B)
    BY <1>1 DEF Messages
  <2> QED BY <2>1, <2>2
<1> QED BY <1>1 DEF Messages, Exchanged, Exchanges, Accepted

\* The operation leaves what it leaves on all ranks, and is no exchange.
Fits(r, P, A, H, f2, h2) ==
    /\ Left(r, P, A, H, f2, h2)
    /\ \A F, B, E : Agreed(P, A, H, F, B, E) =>
          /\ InStepIn(f2, h2, F[Pos(r) + 1], B[Pos(r) + 1]) /\ CurrentIn(r, f2, h2)
          /\ E[Pos(r) + 1] = E[Pos(r)]

LEMMA RankStaysInStep ==
  ASSUME NEW P, NEW A, NEW H, Typed, Placed(P, A, H), NEW r \in Ranks, course[r] = "sound",
         todo[r] # <<>>, NEW f2, NEW h2, Moves(r, f2, h2), Fits(r, P, A, H, f2, h2),
         waiting[r] = "none", UNCHANGED <<waiting, channel>>
  PROVE  /\ Typed' /\ Placed(P, A, H)'
         /\ \A F, B, E : Agreed(P, A, H, F, B, E) => Agreed(P, A, H, F, B, E)'
<1>1. waiting' = [waiting EXCEPT ![r] = "none"] /\ channel' \in [Ranks \X Ranks -> Seq(Nat)]
  BY DEF Typed
<1>2. /\ Typed' /\ Placed(P, A, H)'
      /\ Pos(r)' = Pos(r) + 1 /\ field'[r] = f2 /\ heap'[r] = h2 /\ waiting'[r] = "none"
      /\ \A s \in Ranks \ {r} : /\ Pos(s)' = Pos(s) /\ field'[s] = field[s]
                                /\ heap'[s] = heap[s] /\ waiting'[s] = waiting[s]
  <2>1. Left(r, P, A, H, f2, h2)
    BY DEF Fits
  <2>2. /\ Typed /\ Placed(P, A, H) /\ r \in Ranks /\ course[r] = "sound" /\ todo[r] # <<>>
        /\ Moves(r, f2, h2)
    OBVIOUS
  <2> QED BY ONLY <1>1, <2>1, <2>2, RankMoves
<1>3. ASSUME NEW F, NEW B, NEW E, Agreed(P, A, H, F, B, E)
      PROVE  Agreed(P, A, H, F, B, E)'
  <2>1. /\ InStepIn(f2, h2, F[Pos(r) + 1], B[Pos(r) + 1]) /\ CurrentIn(r, f2, h2)
        /\ E[Pos(r) + 1] = E[Pos(r)]
    BY <1>3 DEF Fits
  <2>2. nOps' = nOps /\ course' = course
    BY DEF Moves
  <2>3. Shared(P, A, F, B, E)'
    BY <1>3, <2>2 DEF Agreed, Shared
  <2>4. ASSUME NEW s \in Ranks, course'[s] = "sound"
        PROVE  /\ InStepIn(field'[s], heap'[s], F[Pos(s)'], B[Pos(s)'])
               /\ CurrentIn(s, field'[s], heap'[s])
    BY <1>2, <1>3, <2>1, <2>2, <2>4 DEF Agreed
  <2>5. \A s \in Ranks : Sent(s, E)' = Sent(s, E) /\ Received(s, E)' = Received(s, E)
    BY <1>2, <2>1 DEF Sent, Received
  <2>6. Messages(P, H, F, B, E)'
    BY <1>3, <2>2, <2>5, SameMessages DEF Agreed
  <2>7. \A q \in Ranks : \A s \in Ranks \ Neighbours[q] : channel'[<<s, q>>] = <<>>
    BY <1>3 DEF Agreed
  <2> QED BY <2>3, <2>4, <2>6, <2>7 DEF Agreed
<1> QED BY <1>2, <1>3

LEMMA NextShared ==
  ASSUME NEW P, NEW A, NEW H, Typed, Placed(P, A, H), NEW r \in Ranks,
         course[r] = "sound", todo[r] # <<>>,
         NEW F, NEW B, NEW E, Agreed(P, A, H, F, B, E)
  PROVE  /\ InStepIn(field[r], heap[r], F[Pos(r)], B[Pos(r)])
         /\ CurrentIn(r, field[r], heap[r])
         /\ F[Pos(r) + 1] = FieldsAfter(Now(r), Pos(r) + 1, F[Pos(r)])
         /\ B[Pos(r) + 1] = BulksAfter(Now(r), Pos(r) + 1, A[Pos(r)], F[Pos(r)], B[Pos(r)])
         /\ E[Pos(r)] \in Nat
         /\ E[Pos(r) + 1] = E[Pos(r)] + (IF Exchanges(Now(r), F[Pos(r)]) THEN 1 ELSE 0)
         /\ Now(r).kind = "update" => Now(r).name \in Owners
<1>1. Pos(r) \in 0 .. nOps - 1 /\ Now(r) = P[Pos(r) + 1]
  BY NextOperation
<1>2. Pos(r) + 1 \in 1 .. nOps /\ (Pos(r) + 1) - 1 = Pos(r) /\ Pos(r) \in 0 .. nOps
  BY <1>1 DEF Typed
<1>3. Shared(P, A, F, B, E)
  BY DEF Agreed
<1>4. /\ F[Pos(r) + 1] = FieldsAfter(P[Pos(r) + 1], Pos(r) + 1, F[Pos(r)])
      /\ B[Pos(r) + 1] = BulksAfter(P[Pos(r) + 1], Pos(r) + 1, A[Pos(r)], F[Pos(r)], B[Pos(r)])
      /\ E[Pos(r) + 1] = E[Pos(r)] + (IF Exchanges(P[Pos(r) + 1], F[Pos(r)]) THEN 1 ELSE 0)
      /\ P[Pos(r) + 1].kind = "update" => P[Pos(r) + 1].name \in Owners
  BY <1>2, <1>3 DEF Shared
<1>5. E[Pos(r)] \in Nat
  BY <1>2, <1>3 DEF Shared
<1> QED BY <1>1, <1>4, <1>5 DEF Agreed

------------------------------------------------------------------------------
(* The operations.                                                         *)

\* What the operations name.
LEMMA OpsNames ==
  ASSUME NEW op \in Ops
  PROVE  /\ op.name \in Names
         /\ op.kind \in {"construct", "copyConstruct", "copyAssign", "moveAssign"} =>
               op.name \in Owners
         /\ op.kind = "getRef" => op.name \in Views
         /\ op.kind = "construct" => op.haloPresence \in HaloPresence
         /\ op.kind \in {"copyConstruct", "copyAssign", "moveAssign", "getRef"} =>
               op.oth \in Owners
BY DEF Ops, Names

LEMMA ConstructFits ==
  ASSUME NEW P, NEW A, NEW H, Typed, Placed(P, A, H), NEW r \in Ranks,
         course[r] = "sound", Construct(r)
  PROVE  \E f2, h2 : Moves(r, f2, h2) /\ Fits(r, P, A, H, f2, h2)
<1> DEFINE p == Pos(r)
           a == A[Pos(r)]
           op == Now(r)
           n == Now(r).name
           presence == Now(r).haloPresence
           content == NewBlock(r, GetNAllocatedSites(presence))
           f2 == With(field[r], n, Object(presence, "NOT_UPDATED", p + 1))
           h2 == Put(heap[r], p + 1, content)
<1>1. todo[r] # <<>> /\ op.kind = "construct"
  BY DEF Construct, Turn, Ready
<1>2. /\ p \in Nat /\ At(r) = p + 1 /\ op \in Ops /\ Scoped(a) /\ AllowedIn(op, a)
      /\ A[p + 1] = ScopeAfter(op, a)
      /\ TypedIn(r, field[r], heap[r]) /\ ObjectsIn(field[r], heap[r], p, a)
  BY <1>1, NextOperation
<1>3. n \in Owners /\ presence \in HaloPresence /\ a[n] = "none"
  BY <1>1, <1>2, OpsNames DEF AllowedIn, Making
<1>4. /\ content \in Blocks(r) /\ content.sites = GetNAllocatedSites(presence)
      /\ content.bulk = Garbage /\ "NOT_UPDATED" \in HaloStatus
  BY DEF NewBlock, Blocks, GetNAllocatedSites, Garbage, HaloStatus
<1>5. Moves(r, f2, h2)
  BY <1>2 DEF Construct, Make, Moves, Typed, With, Object, NewBlock
<1>6. A[p + 1] = With(a, n, n)
  BY <1>1, <1>2 DEF ScopeAfter
<1> HIDE DEF p, a, content
<1>7. /\ TypedIn(r, f2, h2) /\ ObjectsIn(f2, h2, p + 1, With(a, n, n))
      /\ \A F, B : InStepIn(field[r], heap[r], F, B) =>
            InStepIn(f2, h2, With(F, n, Object(presence, "NOT_UPDATED", p + 1)),
                     Put(B, p + 1, content.bulk))
      /\ CurrentIn(r, field[r], heap[r]) => CurrentIn(r, f2, h2)
  BY <1>2, <1>3, <1>4, MakesObject
<1> HIDE DEF f2, h2
<1>8. ASSUME NEW F, NEW B, NEW E, Agreed(P, A, H, F, B, E)
      PROVE  /\ InStepIn(f2, h2, F[p + 1], B[p + 1]) /\ CurrentIn(r, f2, h2)
             /\ E[p + 1] = E[p]
  <2>1. /\ InStepIn(field[r], heap[r], F[p], B[p]) /\ CurrentIn(r, field[r], heap[r])
        /\ F[p + 1] = FieldsAfter(op, p + 1, F[p])
        /\ B[p + 1] = BulksAfter(op, p + 1, a, F[p], B[p])
        /\ E[p + 1] = E[p] + (IF Exchanges(op, F[p]) THEN 1 ELSE 0) /\ E[p] \in Nat
    BY <1>1, <1>8, NextShared DEF p, a
  <2>2. F[p + 1] = With(F[p], n, Object(presence, "NOT_UPDATED", p + 1))
    BY <1>1, <2>1 DEF FieldsAfter
  <2>3. B[p + 1] = Put(B[p], p + 1, content.bulk) /\ E[p + 1] = E[p]
    BY <1>1, <1>4, <2>1 DEF BulksAfter, Exchanges
  <2> QED BY <1>7, <2>1, <2>2, <2>3
<1>9. PresentIn(f2, H[p + 1]) /\ ~RefusedIn(op, H[p])
  <2>1. H[p + 1] = PresenceAfter(op, H[p]) /\ PresentIn(field[r], H[p])
    BY <1>1, NextOperation DEF p
  <2>2. f2[n].haloPresence = presence /\ \A q \in Names \ {n} : f2[q] = field[r][q]
    BY <1>2, <1>3, NamesApart DEF f2, With, Object, TypedIn
  <2> QED BY <1>1, <2>1, <2>2 DEF PresentIn, PresenceAfter, RefusedIn
<1> QED BY <1>5, <1>6, <1>7, <1>8, <1>9 DEF Fits, Left, p

LEMMA CopyConstructFits ==
  ASSUME NEW P, NEW A, NEW H, Typed, Placed(P, A, H), NEW r \in Ranks,
         course[r] = "sound", CopyConstruct(r)
  PROVE  \E f2, h2 : Moves(r, f2, h2) /\ Fits(r, P, A, H, f2, h2)
<1> DEFINE p == Pos(r)
           a == A[Pos(r)]
           op == Now(r)
           n == op.name
           m == op.oth
           oth == field[r][op.oth]
           content == [heap[r][oth.data.block] EXCEPT !.sites = oth.data.sites]
           f2 == With(field[r], n, Object(oth.haloPresence, oth.haloStatus, p + 1))
           h2 == Put(heap[r], p + 1, content)
<1>1. todo[r] # <<>> /\ op.kind = "copyConstruct"
  BY DEF CopyConstruct, Turn, Ready
<1>2. /\ p \in Nat /\ At(r) = p + 1 /\ op \in Ops /\ Scoped(a) /\ AllowedIn(op, a)
      /\ A[p + 1] = ScopeAfter(op, a)
      /\ TypedIn(r, field[r], heap[r]) /\ ObjectsIn(field[r], heap[r], p, a)
  BY <1>1, NextOperation
<1>3. n \in Owners /\ m \in Owners /\ a[n] = "none" /\ a[m] # "none"
  BY <1>1, <1>2, OpsNames DEF AllowedIn, Making
<1>4. /\ oth.haloPresence \in HaloPresence /\ oth.haloStatus \in HaloStatus
      /\ oth.data.block \in DOMAIN heap[r] /\ content \in Blocks(r)
      /\ content.sites = GetNAllocatedSites(oth.haloPresence)
      /\ oth.data.sites = content.sites /\ content = heap[r][oth.data.block]
  <2>1. /\ oth.haloPresence \in HaloPresence /\ oth.haloStatus \in HaloStatus
        /\ oth.data.block \in DOMAIN heap[r]
        /\ oth.data.sites = GetNAllocatedSites(oth.haloPresence)
        /\ heap[r][oth.data.block].sites = oth.data.sites
    BY <1>2, <1>3 DEF ObjectsIn
  <2>2. heap[r][oth.data.block] \in Blocks(r)
    BY <1>2, <2>1 DEF TypedIn
  <2>3. content = heap[r][oth.data.block]
    <3> DEFINE block == heap[r][oth.data.block]
    <3>1. block \in Blocks(r) /\ block.sites = oth.data.sites
      BY <2>1, <2>2
    <3> HIDE DEF block
    <3>2. [block EXCEPT !.sites = oth.data.sites] = block
      BY <3>1 DEF Blocks
    <3> QED BY <3>2 DEF block
  <2> QED BY <2>1, <2>2, <2>3
<1>5. Moves(r, f2, h2)
  BY <1>2, <1>4 DEF CopyConstruct, Make, Moves, Typed, With, Object, Oth, BlockOf
<1>6. A[p + 1] = With(a, n, n)
  BY <1>1, <1>2 DEF ScopeAfter
<1> HIDE DEF p, a, content, oth, op
<1>7. /\ TypedIn(r, f2, h2) /\ ObjectsIn(f2, h2, p + 1, With(a, n, n))
      /\ \A F, B : InStepIn(field[r], heap[r], F, B) =>
            InStepIn(f2, h2, With(F, n, Object(oth.haloPresence, oth.haloStatus, p + 1)),
                     Put(B, p + 1, content.bulk))
      /\ CurrentIn(r, field[r], heap[r])
         /\ (oth.haloStatus = "UPDATED" => Current(r, content))
         => CurrentIn(r, f2, h2)
  BY <1>2, <1>3, <1>4, MakesObject
<1> HIDE DEF f2, h2
<1>8. ASSUME NEW F, NEW B, NEW E, Agreed(P, A, H, F, B, E)
      PROVE  /\ InStepIn(f2, h2, F[p + 1], B[p + 1]) /\ CurrentIn(r, f2, h2)
             /\ E[p + 1] = E[p]
  <2>1. /\ InStepIn(field[r], heap[r], F[p], B[p]) /\ CurrentIn(r, field[r], heap[r])
        /\ F[p + 1] = FieldsAfter(op, p + 1, F[p])
        /\ B[p + 1] = BulksAfter(op, p + 1, a, F[p], B[p])
        /\ E[p + 1] = E[p] + (IF Exchanges(op, F[p]) THEN 1 ELSE 0) /\ E[p] \in Nat
    BY <1>1, <1>8, NextShared DEF p, a, op
  <2>2. F[p][m] = oth /\ B[p][oth.data.block] = content.bulk
    BY <1>3, <1>4, <2>1 DEF InStepIn, oth
  <2>3. F[p + 1] = With(F[p], n, Object(oth.haloPresence, oth.haloStatus, p + 1))
    BY <1>1, <2>1, <2>2 DEF FieldsAfter
  <2>4. B[p + 1] = Put(B[p], p + 1, content.bulk) /\ E[p + 1] = E[p]
    BY <1>1, <2>1, <2>2 DEF BulksAfter, Exchanges
  <2>5. oth.haloStatus = "UPDATED" => Current(r, content)
    BY <1>3, <1>4, <2>1 DEF CurrentIn, oth
  <2> QED BY <1>7, <2>1, <2>3, <2>4, <2>5
<1>9. PresentIn(f2, H[p + 1]) /\ ~RefusedIn(op, H[p])
  <2>1. H[p + 1] = PresenceAfter(op, H[p]) /\ PresentIn(field[r], H[p])
    BY <1>1, NextOperation DEF p, op
  <2>2. /\ f2[n].haloPresence = field[r][m].haloPresence /\ n \in Names /\ m \in Names
        /\ \A q \in Names \ {n} : f2[q] = field[r][q]
    BY <1>2, <1>3, NamesApart DEF f2, With, Object, TypedIn, oth
  <2> QED BY <1>1, <2>1, <2>2 DEF PresentIn, PresenceAfter, RefusedIn
<1> QED BY <1>5, <1>6, <1>7, <1>8, <1>9 DEF Fits, Left, p, op

LEMMA GetRefFits ==
  ASSUME NEW P, NEW A, NEW H, Typed, Placed(P, A, H), NEW r \in Ranks,
         course[r] = "sound", GetRef(r)
  PROVE  \E f2, h2 : Moves(r, f2, h2) /\ Fits(r, P, A, H, f2, h2)
<1> DEFINE p == Pos(r)
           a == A[Pos(r)]
           op == Now(r)
           n == op.name
           m == op.oth
           h == heap[r]
<1>1. todo[r] # <<>> /\ op.kind = "getRef"
  BY DEF GetRef, Turn, Ready
<1>2. /\ p \in Nat /\ op \in Ops /\ Scoped(a) /\ AllowedIn(op, a)
      /\ A[p + 1] = ScopeAfter(op, a)
      /\ TypedIn(r, field[r], h) /\ ObjectsIn(field[r], h, p, a)
  BY <1>1, NextOperation
<1>3. n \in Views /\ m \in Owners /\ a[n] = "none" /\ a[m] # "none"
  BY <1>1, <1>2, OpsNames DEF AllowedIn, Making
<1>4. PICK status \in HaloStatus :
        field' = [field EXCEPT ![r][n] =
                     [haloPresence |-> Oth(r).haloPresence, haloStatus |-> status,
                      data |-> Oth(r).data]]
  BY DEF GetRef
<1> DEFINE f2 == With(field[r], n, Reference(field[r][m], status))
<1>5. Moves(r, f2, h)
  BY <1>4 DEF GetRef, Moves, Typed, With, Reference, Oth
<1>6. A[p + 1] = With(a, n, m)
  BY <1>1, <1>2 DEF ScopeAfter
<1> HIDE DEF p, a, op, h
<1>7. /\ TypedIn(r, f2, h) /\ ObjectsIn(f2, h, p + 1, With(a, n, m))
      /\ \A F, B : InStepIn(field[r], h, F, B) => InStepIn(f2, h, F, B)
      /\ CurrentIn(r, field[r], h) => CurrentIn(r, f2, h)
  BY <1>2, <1>3, Refers
<1> HIDE DEF f2
<1>8. ASSUME NEW F, NEW B, NEW E, Agreed(P, A, H, F, B, E)
      PROVE  /\ InStepIn(f2, h, F[p + 1], B[p + 1]) /\ CurrentIn(r, f2, h)
             /\ E[p + 1] = E[p]
  <2>1. /\ InStepIn(field[r], h, F[p], B[p]) /\ CurrentIn(r, field[r], h)
        /\ F[p + 1] = FieldsAfter(op, p + 1, F[p])
        /\ B[p + 1] = BulksAfter(op, p + 1, a, F[p], B[p])
        /\ E[p + 1] = E[p] + (IF Exchanges(op, F[p]) THEN 1 ELSE 0) /\ E[p] \in Nat
    BY <1>1, <1>8, NextShared DEF p, a, h, op
  <2>2. F[p + 1] = F[p] /\ B[p + 1] = B[p] /\ E[p + 1] = E[p]
    BY <1>1, <2>1 DEF FieldsAfter, BulksAfter, Exchanges
  <2> QED BY <1>7, <2>1, <2>2
<1>9. PresentIn(f2, H[p + 1]) /\ ~RefusedIn(op, H[p])
  <2>1. H[p + 1] = PresenceAfter(op, H[p]) /\ PresentIn(field[r], H[p])
    BY <1>1, NextOperation DEF p, op
  <2>2. /\ f2[n].haloPresence = field[r][m].haloPresence /\ n \in Names /\ m \in Names
        /\ \A q \in Names \ {n} : f2[q] = field[r][q]
    BY <1>2, <1>3, NamesApart DEF f2, With, Reference, TypedIn
  <2> QED BY <1>1, <2>1, <2>2 DEF PresentIn, PresenceAfter, RefusedIn
<1> QED BY <1>5, <1>6, <1>7, <1>8, <1>9 DEF Fits, Left, p, op

\* The block of a name is overwritten, with a value that is the same on all ranks.
LEMMA OverwriteFits ==
  ASSUME NEW P, NEW A, NEW H, Typed, Placed(P, A, H), NEW r \in Ranks,
         course[r] = "sound", todo[r] # <<>>,
         NEW value \in Nat, Overwrite(r, value), Now(r).kind \in {"write", "copyAssign"},
         \A F, B, E : Agreed(P, A, H, F, B, E) =>
            B[Pos(r) + 1] =
                With(B[Pos(r)], F[Pos(r)][A[Pos(r)][Now(r).name]].data.block, value)
  PROVE  \E f2, h2 : Moves(r, f2, h2) /\ Fits(r, P, A, H, f2, h2)
<1> DEFINE p == Pos(r)
           a == A[Pos(r)]
           op == Now(r)
           f == field[r]
           n == op.name
           b == field[r][Now(r).name].data.block
           h2 == Overwritten(heap[r], f[n].data.block, value)
<1>1. /\ p \in Nat /\ op \in Ops /\ Scoped(a) /\ AllowedIn(op, a)
      /\ A[p + 1] = ScopeAfter(op, a) /\ TypedIn(r, f, heap[r]) /\ ObjectsIn(f, heap[r], p, a)
  BY NextOperation
<1>2. n \in Names /\ a[n] # "none" /\ op.kind \in {"write", "copyAssign"}
  BY <1>1, OpsNames DEF AllowedIn, Making
<1>3. heap' = [heap EXCEPT ![r] = h2]
  <2>1. heap' = [heap EXCEPT ![r][b].bulk = value, ![r][b].dirty = TRUE]
    BY DEF Overwrite, Mine
  <2>2. heap = [s \in Ranks |-> heap[s]]
    BY DEF Typed
  <2>3. h2 = [heap[r] EXCEPT ![b].bulk = value, ![b].dirty = TRUE]
    BY DEF Overwritten
  <2> HIDE DEF b, h2
  <2> QED BY <2>1, <2>2, <2>3, ZenonT(30)
<1>4. Moves(r, f, h2)
  BY <1>3 DEF Overwrite, Moves, Typed
<1>5. A[p + 1] = a
  BY <1>1, <1>2 DEF ScopeAfter
<1> HIDE DEF p, a, f, op, b
<1>6. /\ TypedIn(r, f, h2) /\ ObjectsIn(f, h2, p + 1, a)
      /\ \A F, B : InStepIn(f, heap[r], F, B) =>
            InStepIn(f, h2, F, With(B, F[a[n]].data.block, value))
      /\ CurrentIn(r, f, heap[r]) => CurrentIn(r, f, h2)
  BY <1>1, <1>2, OverwritesBlock
<1> HIDE DEF h2
<1>7. ASSUME NEW F, NEW B, NEW E, Agreed(P, A, H, F, B, E)
      PROVE  /\ InStepIn(f, h2, F[p + 1], B[p + 1]) /\ CurrentIn(r, f, h2)
             /\ E[p + 1] = E[p]
  <2>1. /\ InStepIn(f, heap[r], F[p], B[p]) /\ CurrentIn(r, f, heap[r])
        /\ F[p + 1] = FieldsAfter(op, p + 1, F[p])
        /\ E[p + 1] = E[p] + (IF Exchanges(op, F[p]) THEN 1 ELSE 0) /\ E[p] \in Nat
    BY <1>7, NextShared DEF p, a, f, op
  <2>2. F[p + 1] = F[p] /\ E[p + 1] = E[p]
    BY <1>2, <2>1 DEF FieldsAfter, Exchanges
  <2>3. B[p + 1] = With(B[p], F[p][a[n]].data.block, value)
    BY <1>7 DEF p, a, op
  <2> QED BY <1>6, <2>1, <2>2, <2>3
<1>8. PresentIn(f, H[p + 1]) /\ ~RefusedIn(op, H[p])
  <2>1. H[p + 1] = PresenceAfter(op, H[p]) /\ PresentIn(f, H[p])
    BY NextOperation DEF p, op, f
  <2> QED BY <1>2, <2>1 DEF PresentIn, PresenceAfter, RefusedIn
<1> QED BY <1>4, <1>5, <1>6, <1>7, <1>8 DEF Fits, Left, p, op

LEMMA WriteFits ==
  ASSUME NEW P, NEW A, NEW H, Typed, Placed(P, A, H), NEW r \in Ranks, course[r] = "sound", Write(r)
  PROVE  \E f2, h2 : Moves(r, f2, h2) /\ Fits(r, P, A, H, f2, h2)
<1>1. todo[r] # <<>> /\ Now(r).kind = "write" /\ Overwrite(r, At(r))
  BY DEF Write, Turn, Ready
<1>2. At(r) = Pos(r) + 1 /\ At(r) \in Nat
  BY <1>1, NextOperation
<1>3. ASSUME NEW F, NEW B, NEW E, Agreed(P, A, H, F, B, E)
      PROVE  B[Pos(r) + 1] =
                With(B[Pos(r)], F[Pos(r)][A[Pos(r)][Now(r).name]].data.block, At(r))
  <2>1. B[Pos(r) + 1] = BulksAfter(Now(r), Pos(r) + 1, A[Pos(r)], F[Pos(r)], B[Pos(r)])
    BY <1>1, <1>3, NextShared
  <2> QED BY <1>1, <1>2, <2>1 DEF BulksAfter
<1> QED BY <1>1, <1>2, <1>3, OverwriteFits

LEMMA CopyAssignFits ==
  ASSUME NEW P, NEW A, NEW H, Typed, Placed(P, A, H), NEW r \in Ranks,
         course[r] = "sound", CopyAssign(r)
  PROVE  \E f2, h2 : Moves(r, f2, h2) /\ Fits(r, P, A, H, f2, h2)
<1> DEFINE m == Now(r).oth
           value == heap[r][field[r][m].data.block].bulk
<1>1. todo[r] # <<>> /\ Now(r).kind = "copyAssign" /\ Overwrite(r, value)
  BY DEF CopyAssign, Turn, Ready, BlockOf, Oth
<1>2. /\ Now(r) \in Ops /\ AllowedIn(Now(r), A[Pos(r)]) /\ TypedIn(r, field[r], heap[r])
      /\ ObjectsIn(field[r], heap[r], Pos(r), A[Pos(r)])
  BY <1>1, NextOperation
<1>3. m \in Owners /\ A[Pos(r)][m] # "none"
  BY <1>1, <1>2, OpsNames DEF AllowedIn
<1>4. field[r][m].data.block \in DOMAIN heap[r]
  BY <1>2, <1>3 DEF ObjectsIn
<1>5. heap[r][field[r][m].data.block] \in Blocks(r)
  BY <1>2, <1>4 DEF TypedIn
<1>6. value \in Nat
  BY <1>5 DEF Blocks
<1> HIDE DEF value
<1>7. ASSUME NEW F, NEW B, NEW E, Agreed(P, A, H, F, B, E)
      PROVE  B[Pos(r) + 1] =
                With(B[Pos(r)], F[Pos(r)][A[Pos(r)][Now(r).name]].data.block, value)
  <2>1. /\ B[Pos(r) + 1] = BulksAfter(Now(r), Pos(r) + 1, A[Pos(r)], F[Pos(r)], B[Pos(r)])
        /\ InStepIn(field[r], heap[r], F[Pos(r)], B[Pos(r)])
    BY <1>1, <1>7, NextShared
  <2>2. B[Pos(r)][F[Pos(r)][m].data.block] = value
    BY <1>3, <1>4, <2>1 DEF InStepIn, value
  <2> QED BY <1>1, <2>1, <2>2 DEF BulksAfter
<1> QED BY <1>1, <1>6, <1>7, OverwriteFits

\* Only the status changes.
LEMMA WithStatusKeeps ==
  ASSUME NEW f, f \in [Names -> FieldTypes], NEW n \in Names, NEW status
  PROVE  \A q \in Names : WithStatus(f, n, status)[q].haloPresence = f[q].haloPresence
BY DEF WithStatus, FieldTypes

LEMMA InvalidateHaloFits ==
  ASSUME NEW P, NEW A, NEW H, Typed, Placed(P, A, H), NEW r \in Ranks,
         course[r] = "sound", InvalidateHalo(r)
  PROVE  \E f2, h2 : Moves(r, f2, h2) /\ Fits(r, P, A, H, f2, h2)
<1> DEFINE p == Pos(r)
           a == A[Pos(r)]
           op == Now(r)
           n == op.name
           h == heap[r]
           f2 == WithStatus(field[r], n, "NOT_UPDATED")
<1>1. todo[r] # <<>> /\ op.kind = "invalidate"
  BY DEF InvalidateHalo, Turn, Ready
<1>2. /\ p \in Nat /\ op \in Ops /\ Scoped(a) /\ AllowedIn(op, a)
      /\ A[p + 1] = ScopeAfter(op, a)
      /\ TypedIn(r, field[r], h) /\ ObjectsIn(field[r], h, p, a)
  BY <1>1, NextOperation
<1>3. n \in Names /\ a[n] # "none" /\ "NOT_UPDATED" \in HaloStatus
  BY <1>1, <1>2, OpsNames DEF AllowedIn, Making, HaloStatus
<1>4. Moves(r, f2, h)
  <2>1. field' = [field EXCEPT ![r][n].haloStatus = "NOT_UPDATED"]
    BY DEF InvalidateHalo
  <2>2. field' = [field EXCEPT ![r] = f2]
    BY <2>1 DEF WithStatus
  <2> QED BY <2>2 DEF InvalidateHalo, Moves, Typed
<1>5. A[p + 1] = a
  BY <1>1, <1>2 DEF ScopeAfter
<1>6. h \in [DOMAIN h -> Blocks(r)]
  BY <1>2 DEF TypedIn
<1> HIDE DEF p, a, op, h
<1>7. /\ TypedIn(r, f2, h) /\ ObjectsIn(f2, h, p + 1, a)
      /\ \A F, B : InStepIn(field[r], h, F, B) =>
            /\ n \in Views => InStepIn(f2, h, F, B)
            /\ n \in Owners => InStepIn(f2, h, WithStatus(F, n, "NOT_UPDATED"), B)
      /\ CurrentIn(r, field[r], h) => CurrentIn(r, f2, h)
  BY <1>2, <1>3, <1>6, SetsStatus
<1> HIDE DEF f2
<1>8. ASSUME NEW F, NEW B, NEW E, Agreed(P, A, H, F, B, E)
      PROVE  /\ InStepIn(f2, h, F[p + 1], B[p + 1]) /\ CurrentIn(r, f2, h)
             /\ E[p + 1] = E[p]
  <2>1. /\ InStepIn(field[r], h, F[p], B[p]) /\ CurrentIn(r, field[r], h)
        /\ F[p + 1] = FieldsAfter(op, p + 1, F[p])
        /\ B[p + 1] = BulksAfter(op, p + 1, a, F[p], B[p])
        /\ E[p + 1] = E[p] + (IF Exchanges(op, F[p]) THEN 1 ELSE 0) /\ E[p] \in Nat
    BY <1>1, <1>8, NextShared DEF p, a, h, op
  <2>2. F[p + 1] = (IF n \in Owners THEN WithStatus(F[p], n, "NOT_UPDATED") ELSE F[p])
    BY <1>1, <2>1 DEF FieldsAfter
  <2>3. B[p + 1] = B[p] /\ E[p + 1] = E[p]
    BY <1>1, <2>1 DEF BulksAfter, Exchanges
  <2> QED BY <1>3, <1>7, <2>1, <2>2, <2>3, NamesApart
<1>9. PresentIn(f2, H[p + 1]) /\ ~RefusedIn(op, H[p])
  <2>1. H[p + 1] = PresenceAfter(op, H[p]) /\ PresentIn(field[r], H[p])
    BY <1>1, NextOperation DEF p, op
  <2>2. \A q \in Names : f2[q].haloPresence = field[r][q].haloPresence
    BY <1>2, <1>3, WithStatusKeeps DEF f2, TypedIn
  <2> QED BY <1>1, <2>1, <2>2 DEF PresentIn, PresenceAfter, RefusedIn
<1> QED BY <1>4, <1>5, <1>7, <1>8, <1>9 DEF Fits, Left, p, op

LEMMA EarlyReturnFits ==
  ASSUME NEW P, NEW A, NEW H, Typed, Placed(P, A, H), NEW r \in Ranks,
         course[r] = "sound", EarlyReturn(r),
         ~NoHalo(r)
  PROVE  \E f2, h2 : Moves(r, f2, h2) /\ Fits(r, P, A, H, f2, h2)
<1> DEFINE p == Pos(r)
           a == A[Pos(r)]
           op == Now(r)
           n == op.name
           f == field[r]
           h == heap[r]
<1>1. todo[r] # <<>> /\ op.kind = "update" /\ f[n].haloStatus = "UPDATED"
  BY DEF EarlyReturn, Turn, Ready, Mine
<1>2. /\ p \in Nat /\ op \in Ops /\ Scoped(a) /\ AllowedIn(op, a)
      /\ A[p + 1] = ScopeAfter(op, a) /\ TypedIn(r, f, h) /\ ObjectsIn(f, h, p, a)
  BY <1>1, NextOperation
<1>3. Moves(r, f, h)
  BY DEF EarlyReturn, Moves, Typed, Check
<1>4. A[p + 1] = a
  BY <1>1, <1>2 DEF ScopeAfter
<1> HIDE DEF p, a, op, f, h
<1>5. ObjectsIn(f, h, p + 1, a)
  <2>1. \A m \in Names : a[m] # "none" => f[m].haloStatus \in HaloStatus
    BY <1>2, NameHasBlock
  <2>2. SameButStatus(f, h, f, h, a)
    BY <2>1 DEF SameButStatus
  <2>3. f \in [Names -> FieldTypes]
    BY <1>2 DEF TypedIn
  <2> QED BY <1>2, <2>2, <2>3, SameObjects
<1>6. ASSUME NEW F, NEW B, NEW E, Agreed(P, A, H, F, B, E)
      PROVE  InStepIn(f, h, F[p + 1], B[p + 1]) /\ CurrentIn(r, f, h) /\ E[p + 1] = E[p]
  <2>1. /\ InStepIn(f, h, F[p], B[p]) /\ CurrentIn(r, f, h)
        /\ F[p + 1] = FieldsAfter(op, p + 1, F[p])
        /\ B[p + 1] = BulksAfter(op, p + 1, a, F[p], B[p])
        /\ E[p + 1] = E[p] + (IF Exchanges(op, F[p]) THEN 1 ELSE 0) /\ E[p] \in Nat
        /\ n \in Owners
    BY <1>1, <1>6, NextShared DEF p, a, f, h, op
  <2>2. f[n] = F[p][n] /\ DOMAIN F[p] = Owners /\ F[p][n].haloStatus = "UPDATED"
    BY <1>1, <2>1 DEF InStepIn
  <2>3. F[p + 1] = WithStatus(F[p], n, "UPDATED") /\ B[p + 1] = B[p] /\ E[p + 1] = E[p]
    BY <1>1, <2>1, <2>2 DEF FieldsAfter, BulksAfter, Exchanges
  <2>4. /\ DOMAIN F[p + 1] = Owners
        /\ \A m \in Owners : F[p + 1][m] = IF m = n THEN [F[p][n] EXCEPT !.haloStatus = "UPDATED"]
                                           ELSE F[p][m]
    BY <2>1, <2>2, <2>3 DEF WithStatus
  <2>5. f[n] \in FieldTypes
    BY <1>2, <2>1, NamesApart DEF TypedIn
  <2>6. [f[n] EXCEPT !.haloStatus = "UPDATED"] = f[n]
    BY <1>1, <2>5 DEF FieldTypes
  <2>7. \A m \in Owners : f[m] = F[p + 1][m]
    BY <2>1, <2>2, <2>4, <2>6 DEF InStepIn
  <2> QED BY <2>1, <2>3, <2>4, <2>7 DEF InStepIn
<1>7. PresentIn(f, H[p + 1]) /\ ~RefusedIn(op, H[p])
  <2>1. H[p + 1] = PresenceAfter(op, H[p]) /\ PresentIn(f, H[p])
    BY <1>1, NextOperation DEF p, op, f
  <2>2. n \in Names /\ f[n].haloPresence # "WITHOUT_HALO"
    BY <1>2, OpsNames DEF NoHalo, Mine, f, op
  <2> QED BY <1>1, <2>1, <2>2 DEF PresentIn, PresenceAfter, RefusedIn
<1> QED BY <1>2, <1>3, <1>4, <1>5, <1>6, <1>7 DEF Fits, Left, p, op

LEMMA DestroyFits ==
  ASSUME NEW P, NEW A, NEW H, Typed, Placed(P, A, H), NEW r \in Ranks,
         course[r] = "sound", Destroy(r)
  PROVE  \E f2, h2 : Moves(r, f2, h2) /\ Fits(r, P, A, H, f2, h2)
<1> DEFINE p == Pos(r)
           a == A[Pos(r)]
           op == Now(r)
           n == op.name
           f == field[r]
           h == heap[r]
           f2 == With(f, n, NoField)
           h2 == IF n \in Owners THEN Drop(h, f[n].data.block) ELSE h
<1>1. todo[r] # <<>> /\ op.kind = "destroy"
  BY DEF Destroy, Turn, Ready
<1>2. /\ p \in Nat /\ op \in Ops /\ Scoped(a) /\ AllowedIn(op, a)
      /\ A[p + 1] = ScopeAfter(op, a) /\ TypedIn(r, f, h) /\ ObjectsIn(f, h, p, a)
  BY <1>1, NextOperation
<1>3. /\ n \in Names /\ a[n] # "none" /\ \A v \in Views \ {n} : a[v] # n
      /\ A[p + 1] = With(a, n, "none")
  BY <1>1, <1>2, OpsNames DEF AllowedIn, Making, ScopeAfter
<1>4. n \in Owners => f[n].data.allocated /\ \A v \in Views : a[v] # n
  BY <1>2, <1>3, NamesApart DEF ObjectsIn
<1>5. Moves(r, f2, h2)
  <2>1. heap' = [heap EXCEPT ![r] = h2]
    BY <1>4 DEF Destroy, Mine, Typed
  <2>2. field' = [field EXCEPT ![r] = f2]
    BY DEF Destroy, With
  <2> QED BY <2>1, <2>2 DEF Destroy, Moves
<1>8. PresentIn(f2, H[p + 1]) /\ ~RefusedIn(op, H[p])
  <2>1. H[p + 1] = PresenceAfter(op, H[p]) /\ PresentIn(f, H[p])
    BY <1>1, NextOperation
  <2>2. f2[n].haloPresence = "none" /\ \A q \in Names \ {n} : f2[q] = f[q]
    BY <1>2, <1>3 DEF f2, With, TypedIn, NoField
  <2> HIDE DEF f2, p, f
  <2> QED BY <1>1, <2>1, <2>2 DEF PresentIn, PresenceAfter, RefusedIn
<1> HIDE DEF p, a, op, f, h
<1>6. CASE n \in Owners
  <2>1. /\ TypedIn(r, f2, h2) /\ ObjectsIn(f2, h2, p + 1, With(a, n, "none"))
        /\ \A F, B : InStepIn(f, h, F, B) =>
              InStepIn(f2, h2, With(F, n, NoField), Drop(B, F[n].data.block))
        /\ CurrentIn(r, f, h) => CurrentIn(r, f2, h2)
    BY <1>2, <1>3, <1>4, <1>6, DestroysField
  <2> HIDE DEF f2, h2
  <2>2. ASSUME NEW F, NEW B, NEW E, Agreed(P, A, H, F, B, E)
        PROVE  /\ InStepIn(f2, h2, F[p + 1], B[p + 1]) /\ CurrentIn(r, f2, h2)
               /\ E[p + 1] = E[p]
    <3>1. /\ InStepIn(f, h, F[p], B[p]) /\ CurrentIn(r, f, h)
          /\ F[p + 1] = FieldsAfter(op, p + 1, F[p])
          /\ B[p + 1] = BulksAfter(op, p + 1, a, F[p], B[p])
          /\ E[p + 1] = E[p] + (IF Exchanges(op, F[p]) THEN 1 ELSE 0) /\ E[p] \in Nat
      BY <1>1, <2>2, NextShared DEF p, a, f, h, op
    <3>2. /\ F[p + 1] = With(F[p], n, NoField) /\ B[p + 1] = Drop(B[p], F[p][n].data.block)
          /\ E[p + 1] = E[p]
      BY <1>1, <1>6, <3>1 DEF FieldsAfter, BulksAfter, Exchanges
    <3> QED BY <2>1, <3>1, <3>2
  <2> QED BY <1>3, <1>5, <1>8, <2>1, <2>2 DEF Fits, Left, p, op
<1>7. CASE n \in Views
  <2>1. h2 = h /\ n \notin Owners
    BY <1>7, NamesApart
  <2>2. /\ TypedIn(r, f2, h) /\ ObjectsIn(f2, h, p + 1, With(a, n, "none"))
        /\ \A F, B : InStepIn(f, h, F, B) => InStepIn(f2, h, F, B)
        /\ CurrentIn(r, f, h) => CurrentIn(r, f2, h)
    BY <1>2, <1>7, DestroysView
  <2> HIDE DEF f2, h2
  <2>3. ASSUME NEW F, NEW B, NEW E, Agreed(P, A, H, F, B, E)
        PROVE  /\ InStepIn(f2, h2, F[p + 1], B[p + 1]) /\ CurrentIn(r, f2, h2)
               /\ E[p + 1] = E[p]
    <3>1. /\ InStepIn(f, h, F[p], B[p]) /\ CurrentIn(r, f, h)
          /\ F[p + 1] = FieldsAfter(op, p + 1, F[p])
          /\ B[p + 1] = BulksAfter(op, p + 1, a, F[p], B[p])
          /\ E[p + 1] = E[p] + (IF Exchanges(op, F[p]) THEN 1 ELSE 0) /\ E[p] \in Nat
      BY <1>1, <2>3, NextShared DEF p, a, f, h, op
    <3>2. F[p + 1] = F[p] /\ B[p + 1] = B[p] /\ E[p + 1] = E[p]
      BY <1>1, <2>1, <3>1 DEF FieldsAfter, BulksAfter, Exchanges
    <3> QED BY <2>1, <2>2, <3>1, <3>2
  <2> QED BY <1>3, <1>5, <1>8, <2>1, <2>2, <2>3 DEF Fits, Left, p, op
<1> QED BY <1>3, <1>6, <1>7, NamesApart

\* The exchange of an operation is the next one, for a rank that is at this operation only.
LEMMA NextExchange ==
  ASSUME NEW P, NEW A, NEW H, Typed, Placed(P, A, H), NEW r \in Ranks,
         course[r] = "sound", todo[r] # <<>>,
         Now(r).kind = "update", Mine(r).haloPresence = "WITH_HALO",
         Mine(r).haloStatus = "NOT_UPDATED", NEW F, NEW B, NEW E, Agreed(P, A, H, F, B, E)
  PROVE  /\ Exchanges(P[Pos(r) + 1], F[Pos(r)]) /\ Now(r).name \in Owners
         /\ E[Pos(r)] \in Nat /\ E[Pos(r) + 1] = E[Pos(r)] + 1
         /\ Exchanged(Pos(r) + 1, P, F, B) = BlockOf(r, Mine(r)).bulk
         /\ \A k \in 1 .. nOps :
               Exchanges(P[k], F[k - 1]) /\ E[k] = E[Pos(r)] + 1 => k = Pos(r) + 1
<1> DEFINE p == Pos(r)
           n == Now(r).name
<1>1. /\ p \in 0 .. nOps - 1 /\ Now(r) = P[p + 1] /\ nOps \in Nat /\ Scoped(A[p])
      /\ n \in Names /\ A[p][n] # "none"
      /\ TypedIn(r, field[r], heap[r]) /\ ObjectsIn(field[r], heap[r], p, A[p])
  BY NextOperation, OpsNames DEF Typed, AllowedIn, Making
<1>2. /\ InStepIn(field[r], heap[r], F[p], B[p]) /\ n \in Owners /\ E[p] \in Nat
      /\ E[p + 1] = E[p] + (IF Exchanges(Now(r), F[p]) THEN 1 ELSE 0)
  BY NextShared
<1>3. field[r][n] = F[p][n] /\ field[r][n].data.block \in DOMAIN heap[r]
  BY <1>1, <1>2, NameHasBlock DEF InStepIn
<1>4. Exchanges(Now(r), F[p])
  BY <1>2, <1>3 DEF Exchanges, Mine
<1>5. (p + 1) - 1 = p /\ p + 1 \in 1 .. nOps
  BY <1>1
<1>6. Exchanged(p + 1, P, F, B) = BlockOf(r, Mine(r)).bulk
  BY <1>1, <1>2, <1>3, <1>5 DEF Exchanged, BlockOf, Mine, InStepIn
<1>7. ASSUME NEW k \in 1 .. nOps, Exchanges(P[k], F[k - 1]), E[k] = E[p] + 1
      PROVE  k = p + 1
  <2>1. \A i \in 1 .. nOps : \A j \in 0 .. i - 1 :
            E[j] <= E[i] /\ (Exchanges(P[i], F[i - 1]) => E[j] < E[i])
    BY DEF Agreed, Shared
  <2>2. E[k] \in Nat /\ E[p + 1] \in Nat /\ k \in Nat /\ p \in Nat
    BY <1>1, <1>2, <1>7
  <2>3. CASE k > p + 1
    <3>1. p + 1 \in 0 .. k - 1
      BY <2>2, <2>3
    <3>2. E[p + 1] < E[k]
      BY <1>7, <2>1, <3>1
    <3> QED BY <1>2, <1>4, <1>7, <2>2, <3>2
  <2>4. CASE k < p + 1
    <3>1. CASE k = p
      BY <1>2, <1>7, <3>1
    <3>2. CASE k < p
      <4>1. k \in 0 .. p - 1 /\ p \in 1 .. nOps
        BY <1>1, <2>2, <3>2
      <4>2. E[k] <= E[p]
        BY <2>1, <4>1
      <4> QED BY <1>2, <1>7, <4>2
    <3> QED BY <2>2, <2>4, <3>1, <3>2
  <2> QED BY <2>2, <2>3, <2>4
<1> QED BY <1>1, <1>2, <1>4, <1>6, <1>7

LEMMA StartUpdateKeeps ==
  ASSUME NEW P, NEW A, NEW H, Typed, Placed(P, A, H), NEW r \in Ranks,
         course[r] = "sound", StartUpdate(r),
         ~NoHalo(r)
  PROVE  /\ Typed' /\ Placed(P, A, H)'
         /\ \A F, B, E : Agreed(P, A, H, F, B, E) => Agreed(P, A, H, F, B, E)'
<1> DEFINE n == Now(r).name
           bulk == BlockOf(r, Mine(r)).bulk
<1>1. /\ todo[r] # <<>> /\ waiting[r] = "none" /\ Now(r).kind = "update"
      /\ Mine(r).haloPresence = "WITH_HALO" /\ Mine(r).haloStatus = "NOT_UPDATED"
      /\ waiting' = [waiting EXCEPT ![r] = n]
      /\ UNCHANGED <<scope, nOps, viewUpdated, todo, field, heap, course>>
  <2>1. /\ todo[r] # <<>> /\ waiting[r] = "none" /\ Now(r).kind = "update"
        /\ Mine(r).haloStatus = "NOT_UPDATED" /\ waiting' = [waiting EXCEPT ![r] = n]
        /\ UNCHANGED <<scope, nOps, viewUpdated, todo, field, heap, course>>
    BY DEF StartUpdate, Turn, Ready, Check
  <2>2. Mine(r).haloPresence \in HaloPresence
    BY <2>1, NextOperation, OpsNames, NameHasBlock DEF AllowedIn, Making, Mine
  <2> QED BY <2>1, <2>2 DEF NoHalo, HaloPresence
<1>2. n \in Names /\ n # "none"
  BY <1>1, NextOperation, OpsNames, NamesApart
<1>3. bulk \in Nat
  <2>1. /\ TypedIn(r, field[r], heap[r]) /\ Scoped(A[Pos(r)]) /\ A[Pos(r)][n] # "none"
        /\ ObjectsIn(field[r], heap[r], Pos(r), A[Pos(r)]) /\ Pos(r) \in Nat
    BY <1>1, NextOperation DEF AllowedIn, Making
  <2>2. field[r][n].data.block \in DOMAIN heap[r]
    BY <1>2, <2>1, NameHasBlock
  <2>3. heap[r][field[r][n].data.block] \in Blocks(r)
    BY <2>1, <2>2 DEF TypedIn
  <2> QED BY <2>3 DEF BlockOf, Mine, Blocks
<1> HIDE DEF n, bulk
<1>4. /\ DOMAIN channel = Ranks \X Ranks /\ DOMAIN channel' = Ranks \X Ranks
      /\ \A l \in Ranks \X Ranks : channel[l] \in Seq(Nat)
      /\ \A s, q \in Ranks :
            channel'[<<s, q>>] = IF s = r /\ q \in Neighbours[r]
                                 THEN Append(channel[<<s, q>>], bulk)
                                 ELSE channel[<<s, q>>]
  BY DEF StartUpdate, Typed, bulk
<1>5. channel' \in [Ranks \X Ranks -> Seq(Nat)]
  <2>1. channel' = [l \in DOMAIN channel |->
                     IF l[1] = r /\ l[2] \in Neighbours[r]
                     THEN Append(channel[l], bulk) ELSE channel[l]]
    BY DEF StartUpdate, bulk
  <2> QED BY <1>3, <1>4, <2>1
<1>6. /\ waiting' \in [Ranks -> Names \cup {"none"}] /\ waiting'[r] = n
      /\ \A s \in Ranks \ {r} : waiting'[s] = waiting[s]
  BY <1>1, <1>2 DEF Typed
<1>7. Typed'
  BY <1>1, <1>5, <1>6 DEF Typed
<1>8. \A s \in Ranks : Pos(s)' = Pos(s)
  BY <1>1 DEF Pos
<1>9. Placed(P, A, H)'
  <2>1. Program(P, A)' /\ Queued(P)' /\ Presences(P, H)'
    <3>1. Program(P, A)' /\ Presences(P, H)'
      BY <1>1 DEF Placed, Program, Presences
    <3>2. Queued(P)'
      BY <1>1, <1>8 DEF Placed, Queued
    <3> QED BY <3>1, <3>2
  <2>2. ASSUME NEW s \in Ranks
        PROVE  /\ course'[s] = "sound" => Sound(s, P, A, H)'
               /\ course'[s] # "sound" => PastRefusal(s, P, H)'
    <3>1. Accepted(Pos(s), P, H) => Accepted(Pos(s), P, H)'
      BY <1>8 DEF Accepted
    <3>2. Waits(s) => Waits(s)'
      <4>1. CASE s = r
        BY <1>1, <1>6, <4>1 DEF Waits, Now, Mine, n
      <4>2. CASE s # r
        BY <1>1, <1>6, <4>2 DEF Waits, Now, Mine
      <4> QED BY <4>1, <4>2
    <3>3. course[s] = "sound" => Sound(s, P, A, H)'
      BY <1>1, <1>8, <3>1, <3>2 DEF Placed, Sound
    <3>4. course[s] # "sound" => PastRefusal(s, P, H)'
      BY <1>1, <1>8 DEF Placed, PastRefusal
    <3> QED BY <1>1, <3>3, <3>4
  <2> QED BY <2>1, <2>2 DEF Placed
<1>10. ASSUME NEW F, NEW B, NEW E, Agreed(P, A, H, F, B, E)
       PROVE  Agreed(P, A, H, F, B, E)'
  <2>1. Shared(P, A, F, B, E)'
    BY <1>1, <1>10 DEF Agreed, Shared
  <2>2. ASSUME NEW s \in Ranks, course'[s] = "sound"
        PROVE  /\ InStepIn(field'[s], heap'[s], F[Pos(s)'], B[Pos(s)'])
               /\ CurrentIn(s, field'[s], heap'[s])
    BY <1>1, <1>8, <1>10, <2>2 DEF Agreed
  <2>3. /\ E[Pos(r)] \in Nat /\ Exchanged(Pos(r) + 1, P, F, B) = bulk
        /\ \A k \in 1 .. nOps :
              Exchanges(P[k], F[k - 1]) /\ E[k] = E[Pos(r)] + 1 => k = Pos(r) + 1
    BY <1>1, <1>10, NextExchange DEF bulk
  <2>4. /\ Sent(r, E) = E[Pos(r)] /\ Sent(r, E)' = E[Pos(r)] + 1
        /\ \A s \in Ranks \ {r} : Sent(s, E)' = Sent(s, E)
        /\ \A s \in Ranks : Received(s, E)' = Received(s, E)
    BY <1>1, <1>2, <1>6, <1>8, <2>3 DEF Sent, Received
  <2>5. \A k \in 1 .. nOps : E[k] \in Nat
    BY <1>10 DEF Agreed, Shared, Typed
  <2>6. \A s \in Ranks : Received(s, E) \in Nat
    <3>1. \A s \in Ranks : Pos(s) \in 0 .. nOps
      BY DEF Placed, Queued, Pos, Typed
    <3> QED BY <1>10, <3>1 DEF Agreed, Shared, Received
  <2>7. ASSUME NEW q \in Ranks, NEW s \in Neighbours[q], course[q] = "sound"
        PROVE  /\ course[s] = "sound" =>
                     /\ Received(q, E)' <= Sent(s, E)'
                     /\ Len(channel'[<<s, q>>]) = Sent(s, E)' - Received(q, E)'
               /\ \A k \in 1 .. nOps :
                     /\ Exchanges(P[k], F[k - 1]) /\ Received(q, E)' < E[k]
                     /\ IF course[s] = "sound" THEN E[k] <= Sent(s, E)' ELSE Accepted(k, P, H)
                     => /\ E[k] - Received(q, E)' <= Len(channel'[<<s, q>>])
                        /\ channel'[<<s, q>>][E[k] - Received(q, E)'] = Exchanged(k, P, F, B)
    <3> s \in Ranks /\ q \in Neighbours[s]
      BY NeighboursAssumption
    <3>1. /\ course[s] = "sound" =>
                /\ Received(q, E) <= Sent(s, E)
                /\ Len(channel[<<s, q>>]) = Sent(s, E) - Received(q, E)
          /\ \A k \in 1 .. nOps :
                /\ Exchanges(P[k], F[k - 1]) /\ Received(q, E) < E[k]
                /\ IF course[s] = "sound" THEN E[k] <= Sent(s, E) ELSE Accepted(k, P, H)
                => /\ E[k] - Received(q, E) <= Len(channel[<<s, q>>])
                   /\ channel[<<s, q>>][E[k] - Received(q, E)] = Exchanged(k, P, F, B)
      BY <1>10, <2>7 DEF Agreed, Messages
    <3>2. CASE s # r
      <4>1. /\ channel'[<<s, q>>] = channel[<<s, q>>] /\ Received(q, E)' = Received(q, E)
            /\ Sent(s, E)' = Sent(s, E)
        BY <1>4, <2>4, <3>2
      <4> QED BY <3>1, <4>1
    <3>3. CASE s = r
      <4>1. channel'[<<s, q>>] = Append(channel[<<s, q>>], bulk) /\ channel[<<s, q>>] \in Seq(Nat)
        BY <1>4, <2>7, <3>3
      <4>2. /\ Len(channel'[<<s, q>>]) = Len(channel[<<s, q>>]) + 1
            /\ \A i \in 1 .. Len(channel[<<s, q>>]) : channel'[<<s, q>>][i] = channel[<<s, q>>][i]
            /\ channel'[<<s, q>>][Len(channel[<<s, q>>]) + 1] = bulk
        BY <1>3, <4>1
      <4>3. /\ Received(q, E) <= E[Pos(r)] /\ Len(channel[<<s, q>>]) = E[Pos(r)] - Received(q, E)
        BY <2>4, <3>1, <3>3
      <4>4. ASSUME NEW k \in 1 .. nOps, Exchanges(P[k], F[k - 1]), Received(q, E) < E[k],
                   E[k] <= E[Pos(r)] + 1
            PROVE  /\ E[k] - Received(q, E) <= Len(channel'[<<s, q>>])
                   /\ channel'[<<s, q>>][E[k] - Received(q, E)] = Exchanged(k, P, F, B)
        <5>1. E[k] - Received(q, E) <= Len(channel'[<<s, q>>])
          BY <2>3, <2>5, <2>6, <4>2, <4>3, <4>4
        <5>2. CASE E[k] = E[Pos(r)] + 1
          <6>1. E[k] - Received(q, E) = Len(channel[<<s, q>>]) + 1
            BY <2>3, <2>6, <4>3, <5>2
          <6> QED BY <2>3, <4>2, <4>4, <5>1, <5>2, <6>1
        <5>3. CASE E[k] # E[Pos(r)] + 1
          <6>1. E[k] <= Sent(s, E)
            BY <2>3, <2>4, <2>5, <3>3, <4>4, <5>3
          <6>2. E[k] - Received(q, E) \in 1 .. Len(channel[<<s, q>>])
            BY <2>3, <2>4, <2>5, <2>6, <3>3, <4>3, <4>4, <6>1
          <6>3. channel[<<s, q>>][E[k] - Received(q, E)] = Exchanged(k, P, F, B)
            BY <3>1, <3>3, <4>4, <6>1
          <6> QED BY <4>2, <5>1, <6>2, <6>3
        <5> QED BY <5>2, <5>3
      <4>5. Received(q, E) <= E[Pos(r)] + 1
            /\ Len(channel'[<<s, q>>]) = (E[Pos(r)] + 1) - Received(q, E)
        BY <2>3, <2>6, <4>2, <4>3
      <4> QED BY <2>4, <3>3, <4>4, <4>5
    <3> QED BY <3>2, <3>3
  <2>8. Messages(P, H, F, B, E)'
    BY <1>1, <2>7 DEF Messages, Exchanged, Exchanges, Accepted
  <2>9. \A q \in Ranks : \A s \in Ranks \ Neighbours[q] : channel'[<<s, q>>] = <<>>
    <3>1. SUFFICES ASSUME NEW q \in Ranks, NEW s \in Ranks \ Neighbours[q]
                   PROVE  channel'[<<s, q>>] = <<>>
      OBVIOUS
    <3>2. ~(s = r /\ q \in Neighbours[r])
      BY <3>1, NeighboursAssumption
    <3>3. channel'[<<s, q>>] = channel[<<s, q>>]
      BY <1>4, <3>2
    <3> QED BY <1>10, <3>3 DEF Agreed
  <2> QED BY <2>1, <2>2, <2>8, <2>9 DEF Agreed
<1> QED BY <1>7, <1>9, <1>10

\* A block whose halo is filled.
Filled(h, b, halo) == [h EXCEPT ![b].halo = halo, ![b].filled = TRUE, ![b].dirty = FALSE]

LEMMA FillsBlock ==
  ASSUME NEW r, NEW h, h \in [DOMAIN h -> Blocks(r)], NEW b \in DOMAIN h,
         NEW halo \in [Neighbours[r] -> Nat]
  PROVE  LET h2 == Filled(h, b, halo)
         IN /\ h2 \in [DOMAIN h -> Blocks(r)] /\ DOMAIN h2 = DOMAIN h
            /\ \A c \in DOMAIN h : /\ h2[c].sites = h[c].sites /\ h2[c].bulk = h[c].bulk
                                   /\ c # b => h2[c] = h[c]
            /\ h2[b].halo = halo /\ h2[b].filled
<1> DEFINE h2 == Filled(h, b, halo)
           x == [h[b] EXCEPT !.halo = halo]
           y == [x EXCEPT !.filled = TRUE]
<1>1. /\ DOMAIN h2 = DOMAIN h /\ h2 = [c \in DOMAIN h |-> h2[c]]
      /\ \A c \in DOMAIN h \ {b} : h2[c] = h[c]
      /\ h2[b] = [y EXCEPT !.dirty = FALSE]
  BY DEF Filled
<1>2. x \in Blocks(r) /\ x.sites = h[b].sites /\ x.bulk = h[b].bulk /\ x.halo = halo
  <2>1. h[b] \in Blocks(r)
    OBVIOUS
  <2> QED BY <2>1 DEF Blocks
<1> HIDE DEF h2, x
<1>3. /\ y \in Blocks(r) /\ y.sites = h[b].sites /\ y.bulk = h[b].bulk /\ y.halo = halo
      /\ y.filled
  BY <1>2 DEF Blocks
<1> HIDE DEF y
<1>4. [y EXCEPT !.dirty = FALSE] \in Blocks(r)
  BY <1>3 DEF Blocks
<1>5. /\ [y EXCEPT !.dirty = FALSE].sites = y.sites /\ [y EXCEPT !.dirty = FALSE].bulk = y.bulk
      /\ [y EXCEPT !.dirty = FALSE].halo = y.halo
      /\ [y EXCEPT !.dirty = FALSE].filled = y.filled
  BY <1>3 DEF Blocks
<1>6. /\ h2[b] \in Blocks(r) /\ h2[b].sites = h[b].sites /\ h2[b].bulk = h[b].bulk
      /\ h2[b].halo = halo /\ h2[b].filled
  BY <1>1, <1>3, <1>4, <1>5
<1>7. \A c \in DOMAIN h : h2[c] \in Blocks(r)
  BY <1>1, <1>6
<1> QED BY <1>1, <1>6, <1>7 DEF h2

LEMMA FinishUpdateKeeps ==
  ASSUME NEW P, NEW A, NEW H, Typed, Placed(P, A, H), NEW r \in Ranks,
         course[r] = "sound", FinishUpdate(r)
  PROVE  /\ Typed' /\ Placed(P, A, H)'
         /\ \A F, B, E : Agreed(P, A, H, F, B, E) => Agreed(P, A, H, F, B, E)'
<1> DEFINE p == Pos(r)
           a == A[Pos(r)]
           n == Now(r).name
           h == heap[r]
           b == field[r][Now(r).name].data.block
           halo == [s \in Neighbours[r] |-> Head(channel[<<s, r>>])]
           f2 == WithStatus(field[r], n, "UPDATED")
           h2 == Filled(heap[r], b, halo)
<1>1. /\ todo[r] # <<>> /\ waiting[r] # "none" /\ Now(r).kind = "update"
      /\ Mine(r).haloPresence = "WITH_HALO" /\ Mine(r).haloStatus = "NOT_UPDATED"
      /\ \A s \in Neighbours[r] : channel[<<s, r>>] # <<>>
  BY DEF FinishUpdate, Placed, Sound, Waits, Ready
<1>2. /\ p \in Nat /\ Now(r) \in Ops /\ Scoped(a) /\ AllowedIn(Now(r), a)
      /\ A[p + 1] = ScopeAfter(Now(r), a)
      /\ TypedIn(r, field[r], h) /\ ObjectsIn(field[r], h, p, a)
  BY <1>1, NextOperation
<1>3. /\ n \in Names /\ a[n] # "none" /\ A[p + 1] = a /\ "UPDATED" \in HaloStatus
      /\ b \in DOMAIN h /\ h \in [DOMAIN h -> Blocks(r)]
  <2>1. n \in Names /\ a[n] # "none" /\ A[p + 1] = a /\ "UPDATED" \in HaloStatus
    BY <1>1, <1>2, OpsNames DEF AllowedIn, Making, ScopeAfter, HaloStatus
  <2> QED BY <1>2, <2>1, NameHasBlock DEF TypedIn
<1>4. \A l \in Ranks \X Ranks : channel[l] \in Seq(Nat)
  BY DEF Typed
<1>5. halo \in [Neighbours[r] -> Nat]
  BY <1>1, <1>4, NeighboursAssumption
<1>6. Moves(r, f2, h2)
  <2>1. heap' = [heap EXCEPT ![r][b].halo = halo, ![r][b].filled = TRUE, ![r][b].dirty = FALSE]
    BY DEF FinishUpdate, Mine
  <2>2. heap = [s \in Ranks |-> heap[s]]
    BY DEF Typed
  <2>3. h2 = [heap[r] EXCEPT ![b].halo = halo, ![b].filled = TRUE, ![b].dirty = FALSE]
    BY DEF Filled
  <2>4. heap' = [heap EXCEPT ![r] = h2]
    <3> HIDE DEF b, h2, halo
    <3> QED BY <2>1, <2>2, <2>3, ZenonT(30)
  <2>5. field' = [field EXCEPT ![r] = f2]
    <3>1. field' = [field EXCEPT ![r][n].haloStatus = "UPDATED"]
      BY DEF FinishUpdate
    <3> QED BY <3>1 DEF WithStatus
  <2> QED BY <2>4, <2>5 DEF FinishUpdate, Moves
<1>7. waiting' = [waiting EXCEPT ![r] = "none"]
  BY DEF FinishUpdate
<1>8. \A s, q \in Ranks :
        channel'[<<s, q>>] = IF q = r /\ s \in Neighbours[r] THEN Tail(channel[<<s, q>>])
                             ELSE channel[<<s, q>>]
  BY DEF FinishUpdate, Typed
<1>9. channel' \in [Ranks \X Ranks -> Seq(Nat)]
  <2>1. channel' = [l \in Ranks \X Ranks |->
                     IF l[2] = r /\ l[1] \in Neighbours[r] THEN Tail(channel[l]) ELSE channel[l]]
    BY DEF FinishUpdate, Typed
  <2>2. ASSUME NEW l \in Ranks \X Ranks, l[2] = r, l[1] \in Neighbours[r]
        PROVE  Tail(channel[l]) \in Seq(Nat)
    <3>1. l = <<l[1], r>>
      BY <2>2
    <3>2. channel[l] # <<>> /\ channel[l] \in Seq(Nat)
      BY <1>1, <1>4, <2>2, <3>1
    <3> QED BY <3>2
  <2> QED BY <1>4, <2>1, <2>2
<1> HIDE DEF p, a, h, b, halo, h2
<1>10. /\ h2 \in [DOMAIN h -> Blocks(r)] /\ DOMAIN h2 = DOMAIN h
       /\ \A c \in DOMAIN h : /\ h2[c].sites = h[c].sites /\ h2[c].bulk = h[c].bulk
                              /\ c # b => h2[c] = h[c]
       /\ h2[b].halo = halo /\ h2[b].filled
  BY <1>3, <1>5, FillsBlock DEF h2, h
<1>11. b = field[r][n].data.block
  BY DEF b
<1>12. /\ TypedIn(r, f2, h2) /\ ObjectsIn(f2, h2, p + 1, a)
       /\ \A F, B : InStepIn(field[r], h, F, B) /\ n \in Owners =>
             InStepIn(f2, h2, WithStatus(F, n, "UPDATED"), B)
       /\ CurrentIn(r, field[r], h) /\ n \in Owners
          /\ Current(r, h2[b])
          => CurrentIn(r, f2, h2)
  <2>1. \A c \in DOMAIN h : /\ h2[c].sites = h[c].sites /\ h2[c].bulk = h[c].bulk
                           /\ c # field[r][n].data.block => h2[c] = h[c]
    BY <1>10, <1>11
  <2>2. /\ TypedIn(r, f2, h2) /\ ObjectsIn(f2, h2, p + 1, a)
        /\ \A F, B : InStepIn(field[r], h, F, B) =>
              /\ n \in Views => InStepIn(f2, h2, F, B)
              /\ n \in Owners => InStepIn(f2, h2, WithStatus(F, n, "UPDATED"), B)
        /\ CurrentIn(r, field[r], h)
           /\ (h2 = h \/ n \in Owners)
           /\ (n \in Owners /\ "UPDATED" = "UPDATED" =>
                 Current(r, h2[field[r][n].data.block]))
           => CurrentIn(r, f2, h2)
    BY <1>2, <1>3, <1>10, <2>1, SetsStatus
  <2> QED BY <1>11, <2>2
<1>13. PresentIn(f2, H[p + 1]) /\ ~RefusedIn(Now(r), H[p])
  <2>1. H[p + 1] = PresenceAfter(Now(r), H[p]) /\ PresentIn(field[r], H[p])
    BY <1>1, NextOperation DEF p
  <2>2. \A q \in Names : f2[q].haloPresence = field[r][q].haloPresence
    BY <1>2, <1>3, WithStatusKeeps DEF f2, TypedIn
  <2>3. H[p][n] = "WITH_HALO"
    BY <1>1, <1>3, <2>1 DEF PresentIn, Mine
  <2> QED BY <1>1, <2>1, <2>2, <2>3 DEF PresentIn, PresenceAfter, RefusedIn
<1> HIDE DEF f2
<1>14. /\ Typed' /\ Placed(P, A, H)'
       /\ Pos(r)' = p + 1 /\ field'[r] = f2 /\ heap'[r] = h2 /\ waiting'[r] = "none"
       /\ \A s \in Ranks \ {r} : /\ Pos(s)' = Pos(s) /\ field'[s] = field[s]
                                 /\ heap'[s] = heap[s] /\ waiting'[s] = waiting[s]
  <2>1. Left(r, P, A, H, f2, h2)
    BY <1>3, <1>12, <1>13 DEF p, a, Left
  <2>2. /\ Typed /\ Placed(P, A, H) /\ r \in Ranks /\ course[r] = "sound" /\ todo[r] # <<>>
    BY <1>1
  <2>3. /\ Typed' /\ Placed(P, A, H)'
        /\ Pos(r)' = Pos(r) + 1 /\ field'[r] = f2 /\ heap'[r] = h2 /\ waiting'[r] = "none"
        /\ \A s \in Ranks \ {r} : /\ Pos(s)' = Pos(s) /\ field'[s] = field[s]
                                  /\ heap'[s] = heap[s] /\ waiting'[s] = waiting[s]
    BY ONLY <1>6, <1>7, <1>9, <2>1, <2>2, RankMoves
  <2> QED BY <2>3 DEF p
<1>15. ASSUME NEW F, NEW B, NEW E, Agreed(P, A, H, F, B, E)
       PROVE  Agreed(P, A, H, F, B, E)'
  <2>1. nOps' = nOps /\ nOps \in Nat /\ course' = course
    BY <1>6 DEF Moves, Typed
  <2>2. Shared(P, A, F, B, E)'
    BY <1>15, <2>1 DEF Agreed, Shared
  <2>3. /\ Exchanges(P[p + 1], F[p]) /\ n \in Owners
        /\ E[p] \in Nat /\ E[p + 1] = E[p] + 1
        /\ Exchanged(p + 1, P, F, B) = h[b].bulk
    BY <1>1, <1>15, NextExchange DEF p, h, b, BlockOf, Mine
  <2>4. /\ InStepIn(field[r], h, F[p], B[p]) /\ CurrentIn(r, field[r], h)
        /\ F[p + 1] = FieldsAfter(Now(r), p + 1, F[p])
        /\ B[p + 1] = BulksAfter(Now(r), p + 1, a, F[p], B[p])
    BY <1>1, <1>15, NextShared DEF p, a, h
  <2>5. F[p + 1] = WithStatus(F[p], n, "UPDATED") /\ B[p + 1] = B[p]
    BY <1>1, <2>4 DEF FieldsAfter, BulksAfter
  <2>6. /\ Received(r, E) = E[p] /\ Received(r, E)' = E[p] + 1
        /\ \A s \in Ranks \ {r} : Received(s, E)' = Received(s, E)
        /\ \A s \in Ranks : Sent(s, E)' = Sent(s, E)
    BY <1>1, <1>14, <2>3 DEF Sent, Received, p
  <2>7. \A s \in Ranks : Sent(s, E) \in Nat /\ Received(s, E) \in Nat
    <3>1. \A s \in Ranks : Pos(s) \in 0 .. nOps
      BY DEF Placed, Queued, Pos, Typed
    <3> QED BY <1>15, <3>1 DEF Agreed, Shared, Received, Sent
  <2>8. \A k \in 1 .. nOps : E[k] \in Nat
    BY <1>15, <2>1 DEF Agreed, Shared
  <2>9. p + 1 \in 1 .. nOps /\ (p + 1) - 1 = p
    BY <1>1, <2>1, NextOperation DEF p
  <2>10. ASSUME NEW q \in Ranks, NEW s \in Neighbours[q], course[q] = "sound"
         PROVE  /\ course[s] = "sound" =>
                      /\ Received(q, E) <= Sent(s, E)
                      /\ Len(channel[<<s, q>>]) = Sent(s, E) - Received(q, E)
                /\ \A k \in 1 .. nOps :
                      /\ Exchanges(P[k], F[k - 1]) /\ Received(q, E) < E[k]
                      /\ IF course[s] = "sound" THEN E[k] <= Sent(s, E) ELSE Accepted(k, P, H)
                      => /\ E[k] - Received(q, E) <= Len(channel[<<s, q>>])
                         /\ channel[<<s, q>>][E[k] - Received(q, E)] = Exchanged(k, P, F, B)
    BY <1>15, <2>10 DEF Agreed, Messages
  <2>11. ASSUME NEW s \in Neighbours[r]
         PROVE  /\ course[s] = "sound" => E[p] + 1 <= Sent(s, E)
                /\ Head(channel[<<s, r>>]) = h[b].bulk
    <3>1. channel[<<s, r>>] \in Seq(Nat) /\ channel[<<s, r>>] # <<>> /\ s \in Ranks
      BY <1>1, <1>4, NeighboursAssumption
    <3>2. Len(channel[<<s, r>>]) >= 1 /\ Head(channel[<<s, r>>]) = channel[<<s, r>>][1]
      BY <3>1
    <3>3. course[s] = "sound" => E[p] + 1 <= Sent(s, E)
      BY <2>3, <2>6, <2>7, <2>10, <3>1, <3>2
    <3>4. E[p + 1] - Received(r, E) = 1 /\ Received(r, E) < E[p + 1]
      BY <2>3, <2>6
    <3>5. Accepted(p + 1, P, H)
      <4>1. Accepted(p, P, H) /\ Now(r) = P[p + 1]
        BY <1>1, NextOperation DEF Placed, Sound, p
      <4>2. SUFFICES ASSUME NEW j \in 1 .. p + 1 PROVE ~RefusedIn(P[j], H[j - 1])
        BY DEF Accepted
      <4>3. CASE j = p + 1
        BY <1>13, <2>9, <4>1, <4>3
      <4>4. CASE j # p + 1
        <5>1. j \in 1 .. p
          BY <1>2, <4>4
        <5> QED BY <4>1, <5>1 DEF Accepted
      <4> QED BY <4>3, <4>4
    <3>6. IF course[s] = "sound" THEN E[p + 1] <= Sent(s, E) ELSE Accepted(p + 1, P, H)
      BY <2>3, <3>3, <3>5
    <3>7. channel[<<s, r>>][E[p + 1] - Received(r, E)] = Exchanged(p + 1, P, F, B)
      BY <2>3, <2>9, <2>10, <3>4, <3>6
    <3> QED BY <2>3, <3>2, <3>3, <3>4, <3>7
  <2>12. InStepIn(f2, h2, F[p + 1], B[p + 1])
    BY <1>12, <2>3, <2>4, <2>5
  <2>13. CurrentIn(r, f2, h2)
    <3>1. \A s \in Neighbours[r] : h2[b].halo[s] = h2[b].bulk
      BY <1>3, <1>10, <2>11 DEF halo
    <3> QED BY <1>10, <1>12, <2>3, <2>4, <3>1 DEF Current
  <2>14. ASSUME NEW s \in Ranks, course'[s] = "sound"
         PROVE  /\ InStepIn(field'[s], heap'[s], F[Pos(s)'], B[Pos(s)'])
                /\ CurrentIn(s, field'[s], heap'[s])
    BY <1>14, <1>15, <2>1, <2>12, <2>13, <2>14 DEF Agreed
  <2>15. ASSUME NEW q \in Ranks, NEW s \in Neighbours[q], course[q] = "sound"
         PROVE  /\ course[s] = "sound" =>
                      /\ Received(q, E)' <= Sent(s, E)'
                      /\ Len(channel'[<<s, q>>]) = Sent(s, E)' - Received(q, E)'
                /\ \A k \in 1 .. nOps :
                      /\ Exchanges(P[k], F[k - 1]) /\ Received(q, E)' < E[k]
                      /\ IF course[s] = "sound" THEN E[k] <= Sent(s, E)' ELSE Accepted(k, P, H)
                      => /\ E[k] - Received(q, E)' <= Len(channel'[<<s, q>>])
                         /\ channel'[<<s, q>>][E[k] - Received(q, E)'] = Exchanged(k, P, F, B)
    <3> s \in Ranks
      BY NeighboursAssumption
    <3>1. CASE q # r
      <4>1. channel'[<<s, q>>] = channel[<<s, q>>] /\ Received(q, E)' = Received(q, E)
            /\ Sent(s, E)' = Sent(s, E)
        BY <1>8, <2>6, <3>1
      <4> QED BY <2>10, <2>15, <4>1
    <3>2. CASE q = r
      <4>1. /\ channel'[<<s, q>>] = Tail(channel[<<s, q>>]) /\ channel[<<s, q>>] \in Seq(Nat)
            /\ channel[<<s, q>>] # <<>> /\ s \in Neighbours[r]
        BY <1>1, <1>4, <1>8, <2>15, <3>2
      <4>2. /\ Len(channel'[<<s, q>>]) = Len(channel[<<s, q>>]) - 1
            /\ Len(channel[<<s, q>>]) \in Nat
            /\ \A i \in 1 .. Len(channel[<<s, q>>]) - 1 :
                  channel'[<<s, q>>][i] = channel[<<s, q>>][i + 1]
        BY <4>1
      <4>3. /\ Received(q, E)' = E[p] + 1 /\ Received(q, E) = E[p] /\ Sent(s, E)' = Sent(s, E)
            /\ Sent(s, E) \in Nat
        BY <2>6, <2>7, <3>2
      <4>4. course[s] = "sound" =>
               E[p] + 1 <= Sent(s, E) /\ Len(channel[<<s, q>>]) = Sent(s, E) - E[p]
        BY <2>10, <2>11, <2>15, <3>2, <4>1, <4>3
      <4>5. ASSUME NEW k \in 1 .. nOps, Exchanges(P[k], F[k - 1]), E[p] + 1 < E[k],
                   IF course[s] = "sound" THEN E[k] <= Sent(s, E) ELSE Accepted(k, P, H)
            PROVE  /\ E[k] - (E[p] + 1) <= Len(channel'[<<s, q>>])
                   /\ channel'[<<s, q>>][E[k] - (E[p] + 1)] = Exchanged(k, P, F, B)
        <5>1. E[k] \in Nat /\ E[p] \in Nat /\ E[p] < E[k]
          BY <2>3, <2>8, <4>5
        <5>2. /\ E[k] - E[p] <= Len(channel[<<s, q>>])
              /\ channel[<<s, q>>][E[k] - E[p]] = Exchanged(k, P, F, B)
          BY <2>10, <2>15, <4>3, <4>5, <5>1
        <5>3. /\ E[k] - (E[p] + 1) \in 1 .. Len(channel[<<s, q>>]) - 1
              /\ (E[k] - (E[p] + 1)) + 1 = E[k] - E[p]
          <6> DEFINE now == E[k]
                     past == E[p]
                     size == Len(channel[<<s, q>>])
          <6>1. /\ now \in Nat /\ past \in Nat /\ size \in Nat /\ past + 1 < now
                /\ now - past <= size
            BY <4>2, <4>5, <5>1, <5>2
          <6> HIDE DEF now, past, size
          <6>2. now - (past + 1) \in 1 .. size - 1 /\ (now - (past + 1)) + 1 = now - past
            BY <6>1
          <6> QED BY <6>2 DEF now, past, size
        <5>4. channel'[<<s, q>>][E[k] - (E[p] + 1)] = channel[<<s, q>>][E[k] - E[p]]
          BY <4>2, <5>3
        <5> QED BY <4>2, <5>2, <5>3, <5>4
      <4>6. course[s] = "sound" =>
               /\ E[p] + 1 <= Sent(s, E)
               /\ Len(channel'[<<s, q>>]) = Sent(s, E) - (E[p] + 1)
        BY <2>3, <4>2, <4>3, <4>4
      <4> QED BY <4>3, <4>5, <4>6
    <3> QED BY <3>1, <3>2
  <2>16. Messages(P, H, F, B, E)'
    BY <2>1, <2>15 DEF Messages, Exchanged, Exchanges, Accepted
  <2>17. \A q \in Ranks : \A s \in Ranks \ Neighbours[q] : channel'[<<s, q>>] = <<>>
    BY <1>8, <1>15 DEF Agreed
  <2> QED BY <2>2, <2>14, <2>16, <2>17 DEF Agreed
<1> QED BY <1>14, <1>15

------------------------------------------------------------------------------
(* The program gets longer.                                                *)

LEMMA ScopesStayScoped ==
  ASSUME NEW a, Scoped(a), NEW op \in Ops, AllowedIn(op, a)
  PROVE  Scoped(ScopeAfter(op, a))
<1> DEFINE n == op.name
           a2 == ScopeAfter(op, a)
<1>1. /\ n \in Names /\ Names = Owners \cup Views /\ Owners \cap Views = {}
      /\ "none" \notin Owners /\ a \in [Names -> Owners \cup {"none"}]
  BY OpsNames, NamesApart DEF Scoped
<1>2. CASE op.kind \in {"construct", "copyConstruct"}
  <2>1. n \in Owners /\ a2 = [a EXCEPT ![n] = n]
    BY <1>2, OpsNames DEF ScopeAfter, With
  <2>2. a2 \in [Names -> Owners \cup {"none"}] /\ a2[n] = n /\ \A m \in Names \ {n} : a2[m] = a[m]
    BY <1>1, <2>1
  <2>3. ASSUME NEW v \in Views, a2[v] # "none" PROVE a2[a2[v]] = a2[v]
    <3>1. a2[v] = a[v] /\ a[v] \in Owners /\ a[a[v]] = a[v]
      BY <1>1, <2>1, <2>2, <2>3 DEF Scoped
    <3> QED BY <1>1, <2>2, <3>1
  <2> QED BY <1>1, <2>1, <2>2, <2>3 DEF Scoped
<1>3. CASE op.kind = "getRef"
  <2>1. n \in Views /\ op.oth \in Owners /\ a2 = [a EXCEPT ![n] = op.oth] /\ a[op.oth] = op.oth
    BY <1>3, OpsNames DEF ScopeAfter, With, AllowedIn, Scoped
  <2>2. /\ a2 \in [Names -> Owners \cup {"none"}] /\ a2[n] = op.oth
        /\ \A m \in Names \ {n} : a2[m] = a[m]
    BY <1>1, <2>1
  <2>3. ASSUME NEW v \in Views, a2[v] # "none" PROVE a2[a2[v]] = a2[v]
    <3>1. CASE v = n
      BY <1>1, <2>1, <2>2, <3>1
    <3>2. CASE v # n
      <4>1. a2[v] = a[v] /\ a[v] \in Owners /\ a[a[v]] = a[v]
        BY <1>1, <2>2, <2>3, <3>2 DEF Scoped
      <4> QED BY <1>1, <2>1, <2>2, <4>1
    <3> QED BY <3>1, <3>2
  <2> QED BY <1>1, <2>1, <2>2, <2>3 DEF Scoped
<1>4. CASE op.kind = "destroy"
  <2>1. a2 = [a EXCEPT ![n] = "none"] /\ \A v \in Views \ {n} : a[v] # n
    BY <1>4 DEF ScopeAfter, With, AllowedIn
  <2>2. /\ a2 \in [Names -> Owners \cup {"none"}] /\ a2[n] = "none"
        /\ \A m \in Names \ {n} : a2[m] = a[m]
    BY <1>1, <2>1
  <2>3. ASSUME NEW v \in Views, a2[v] # "none" PROVE a2[a2[v]] = a2[v]
    <3>1. v # n /\ a2[v] = a[v] /\ a[v] \in Owners /\ a[a[v]] = a[v] /\ a[v] # n
      BY <1>1, <2>1, <2>2, <2>3 DEF Scoped
    <3> QED BY <1>1, <2>2, <3>1
  <2> QED BY <1>1, <2>2, <2>3 DEF Scoped
<1>5. CASE op.kind \notin {"construct", "copyConstruct", "getRef", "destroy"}
  BY <1>5 DEF ScopeAfter
<1> QED BY <1>2, <1>3, <1>4, <1>5

\* A function of the points of the program, one operation further.
Longer(f, first, last, x) == [k \in first .. last + 1 |-> IF k = last + 1 THEN x ELSE f[k]]

LEMMA LongerIs ==
  ASSUME NEW f, NEW first \in 0 .. 1, NEW last \in Nat, NEW x
  PROVE  /\ Longer(f, first, last, x)[last + 1] = x
         /\ \A k \in first .. last : Longer(f, first, last, x)[k] = f[k]
BY DEF Longer

LEMMA ChooseKeepsPlaces ==
  ASSUME NEW P, NEW A, NEW H, Typed, Placed(P, A, H), NEW op \in Ops, AllowedIn(op, scope),
         Choose(op, ScopeAfter(op, scope)), NEW N \in Nat, N = nOps, NEW P2, NEW A2,
         P2 = Longer(P, 1, N, op), A2 = Longer(A, 0, N, ScopeAfter(op, scope)),
         NEW H2, H2 = Longer(H, 0, N, PresenceAfter(op, H[N]))
  PROVE  /\ Typed' /\ Placed(P2, A2, H2)'
         /\ \A r \in Ranks : Pos(r)' = Pos(r) /\ Pos(r) \in 0 .. N
<1>1. /\ nOps' = N + 1 /\ todo' = [r \in Ranks |-> Append(todo[r], op)]
      /\ scope' = ScopeAfter(op, scope)
      /\ viewUpdated' = (viewUpdated \/ (op.kind = "update" /\ op.name \in Views))
      /\ UNCHANGED <<field, heap, waiting, channel, course>>
  BY DEF Choose
<1>2. Program(P, A) /\ Queued(P) /\ Presences(P, H)
  BY DEF Placed
<1>3. /\ P2[N + 1] = op /\ \A k \in 1 .. N : P2[k] = P[k]
      /\ A2[N + 1] = ScopeAfter(op, scope) /\ \A k \in 0 .. N : A2[k] = A[k]
  <2>1. 0 \in 0 .. 1 /\ 1 \in 0 .. 1
    OBVIOUS
  <2>2. /\ Longer(P, 1, N, op)[N + 1] = op
        /\ \A k \in 1 .. N : Longer(P, 1, N, op)[k] = P[k]
    BY ONLY N \in Nat, <2>1, LongerIs
  <2>3. /\ Longer(A, 0, N, ScopeAfter(op, scope))[N + 1] = ScopeAfter(op, scope)
        /\ \A k \in 0 .. N : Longer(A, 0, N, ScopeAfter(op, scope))[k] = A[k]
    <3>1. PICK x : x = ScopeAfter(op, scope)
      OBVIOUS
    <3>2. Longer(A, 0, N, x)[N + 1] = x /\ \A k \in 0 .. N : Longer(A, 0, N, x)[k] = A[k]
      BY ONLY N \in Nat, <2>1, LongerIs
    <3> QED BY ONLY <3>1, <3>2
  <2> QED BY ONLY P2 = Longer(P, 1, N, op), A2 = Longer(A, 0, N, ScopeAfter(op, scope)),
                  <2>2, <2>3
<1>4. H2[N + 1] = PresenceAfter(op, H[N]) /\ \A k \in 0 .. N : H2[k] = H[k]
  <2>1. 0 \in 0 .. 1 /\ 1 \in 0 .. 1
    OBVIOUS
  <2>2. PICK x : x = PresenceAfter(op, H[N])
    OBVIOUS
  <2>3. Longer(H, 0, N, x)[N + 1] = x /\ \A k \in 0 .. N : Longer(H, 0, N, x)[k] = H[k]
    BY ONLY N \in Nat, <2>1, LongerIs
  <2> QED BY ONLY H2 = Longer(H, 0, N, PresenceAfter(op, H[N])), <2>2, <2>3
<1>5. Typed'
  <2>1. viewUpdated' \in BOOLEAN /\ nOps' \in Nat /\ todo' = [r \in Ranks |-> todo'[r]]
    BY <1>1
  <2> QED BY <1>1, <2>1 DEF Typed
<1>6. Program(P2, A2)'
  <2>1. P2 \in [1 .. N + 1 -> Ops]
    <3>1. P2 = [k \in 1 .. N + 1 |-> P2[k]]
      BY DEF Longer
    <3>2. ASSUME NEW k \in 1 .. N + 1 PROVE P2[k] \in Ops
      <4>1. CASE k = N + 1
        BY <1>3, <4>1
      <4>2. CASE k # N + 1
        BY <1>2, <1>3, <4>2 DEF Program
      <4> QED BY <4>1, <4>2
    <3> QED BY <3>1, <3>2
  <2>2. A[N] = scope /\ Scoped(scope) /\ Scoped(ScopeAfter(op, scope))
    BY <1>2, ScopesStayScoped DEF Program
  <2>3. ASSUME NEW k \in 0 .. N + 1 PROVE Scoped(A2[k])
    <3>1. CASE k = N + 1
      BY <1>3, <2>2, <3>1
    <3>2. CASE k # N + 1
      BY <1>2, <1>3, <3>2 DEF Program
    <3> QED BY <3>1, <3>2
  <2>4. ASSUME NEW k \in 1 .. N + 1
        PROVE  AllowedIn(P2[k], A2[k - 1]) /\ A2[k] = ScopeAfter(P2[k], A2[k - 1])
    <3>1. CASE k = N + 1
      <4>1. k - 1 = N /\ N \in 0 .. N
        BY <3>1
      <4> QED BY <1>3, <2>2, <3>1, <4>1
    <3>2. CASE k # N + 1
      <4>1. k \in 1 .. N /\ k \in 0 .. N /\ k - 1 \in 0 .. N
        BY <3>2
      <4>2. P2[k] = P[k] /\ A2[k] = A[k] /\ A2[k - 1] = A[k - 1]
        BY <1>3, <4>1
      <4> QED BY <1>2, <4>1, <4>2 DEF Program
    <3> QED BY <3>1, <3>2
  <2> QED BY <1>1, <1>3, <2>1, <2>3, <2>4 DEF Program
<1>7. ASSUME NEW r \in Ranks
      PROVE  /\ todo[r] \in Seq(Ops) /\ Len(todo[r]) \in Nat /\ Len(todo[r]) <= N
             /\ Len(todo'[r]) = Len(todo[r]) + 1 /\ todo'[r] \in Seq(Ops)
             /\ \A i \in 1 .. Len(todo[r]) : todo'[r][i] = todo[r][i]
             /\ todo'[r][Len(todo[r]) + 1] = op
             /\ Pos(r)' = Pos(r) /\ Pos(r) = N - Len(todo[r]) /\ Pos(r) \in 0 .. N
  <2>1. /\ todo[r] \in Seq(Ops) /\ Len(todo[r]) \in Nat /\ Len(todo[r]) <= N
        /\ todo'[r] = Append(todo[r], op)
    BY <1>1, <1>2 DEF Queued
  <2>2. /\ Len(todo'[r]) = Len(todo[r]) + 1 /\ todo'[r] \in Seq(Ops)
        /\ \A i \in 1 .. Len(todo[r]) : todo'[r][i] = todo[r][i]
        /\ todo'[r][Len(todo[r]) + 1] = op
    BY <2>1
  <2>3. Pos(r)' = Pos(r) /\ Pos(r) = N - Len(todo[r])
    <3>1. nOps' = N + 1 /\ Len(todo'[r]) = Len(todo[r]) + 1 /\ Len(todo[r]) \in Nat
      BY <1>1, <2>1, <2>2
    <3> QED BY <3>1 DEF Pos
  <2> QED BY <2>1, <2>2, <2>3
<1>8. Queued(P2)'
  <2>1. SUFFICES ASSUME NEW r \in Ranks, NEW i \in 1 .. Len(todo[r]) + 1
                 PROVE  todo'[r][i] = P2[Pos(r) + i]
    BY <1>1, <1>7 DEF Queued
  <2>2. CASE i = Len(todo[r]) + 1
    <3>1. Pos(r) + i = N + 1
      BY <1>7, <2>2
    <3> QED BY <1>3, <1>7, <2>2, <3>1
  <2>3. CASE i # Len(todo[r]) + 1
    <3>1. i \in 1 .. Len(todo[r]) /\ Pos(r) + i \in 1 .. N
      BY <1>7, <2>3
    <3>2. todo[r][i] = P[Pos(r) + i]
      BY <1>2, <3>1 DEF Queued
    <3> QED BY <1>3, <1>7, <3>1, <3>2
  <2> QED BY <2>2, <2>3
<1>9. Presences(P2, H2)'
  <2>1. H2[0] = [n \in Names |-> "none"]
    BY <1>2, <1>4 DEF Presences
  <2>2. ASSUME NEW k \in 1 .. N + 1 PROVE H2[k] = PresenceAfter(P2[k], H2[k - 1])
    <3>1. CASE k = N + 1
      <4>1. k - 1 = N /\ N \in 0 .. N
        BY <3>1
      <4> QED BY <1>3, <1>4, <3>1, <4>1
    <3>2. CASE k # N + 1
      <4>1. k \in 1 .. N /\ k \in 0 .. N /\ k - 1 \in 0 .. N
        BY <3>2
      <4>2. P2[k] = P[k] /\ H2[k] = H[k] /\ H2[k - 1] = H[k - 1]
        BY <1>3, <1>4, <4>1
      <4> QED BY <1>2, <4>1, <4>2 DEF Presences
    <3> QED BY <3>1, <3>2
  <2> QED BY <1>1, <2>1, <2>2 DEF Presences
<1>10. \A k \in 1 .. N : P2[k] = P[k] /\ H2[k - 1] = H[k - 1]
  <2>1. \A k \in 1 .. N : k - 1 \in 0 .. N
    OBVIOUS
  <2> QED BY <1>3, <1>4, <2>1
<1>11. ASSUME NEW r \in Ranks, course[r] = "sound" PROVE Sound(r, P2, A2, H2)'
  <2>1. Sound(r, P, A, H)
    BY <1>11 DEF Placed
  <2>2. /\ ObjectsIn(field'[r], heap'[r], Pos(r)', A2[Pos(r)'])
        /\ PresentIn(field'[r], H2[Pos(r)'])
    BY <1>1, <1>3, <1>7, <1>4, <2>1 DEF Sound
  <2>3. Waits(r)'
    <3>1. SUFFICES ASSUME waiting'[r] # "none"
                   PROVE  /\ todo'[r] # <<>> /\ Head(todo'[r]) = Head(todo[r])
                          /\ Waits(r) /\ waiting[r] # "none"
      BY <1>1 DEF Waits, Now, Mine
    <3>2. todo[r] # <<>> /\ waiting[r] # "none" /\ Waits(r)
      BY <1>1, <2>1, <3>1 DEF Sound, Waits
    <3>3. todo'[r] = Append(todo[r], op)
      BY <1>1
    <3> QED BY <1>7, <3>2, <3>3
  <2>4. Accepted(Pos(r), P2, H2)'
    <3>1. SUFFICES ASSUME NEW k \in 1 .. Pos(r) PROVE ~RefusedIn(P2[k], H2[k - 1])
      BY <1>7 DEF Accepted
    <3>2. k \in 1 .. N
      BY <1>7
    <3>3. ~RefusedIn(P[k], H[k - 1])
      BY <2>1 DEF Sound, Accepted
    <3> QED BY <1>10, <3>2, <3>3
  <2> QED BY <2>2, <2>3, <2>4 DEF Sound
<1>12. ASSUME NEW r \in Ranks, course[r] # "sound" PROVE PastRefusal(r, P2, H2)'
  <2>1. PastRefusal(r, P, H)
    BY <1>12 DEF Placed
  <2>2. PICK k \in 1 .. N : k <= Pos(r) + 1 /\ RefusedIn(P[k], H[k - 1])
    BY <2>1 DEF PastRefusal
  <2>3. k \in 1 .. N + 1 /\ RefusedIn(P2[k], H2[k - 1])
    BY <1>10, <2>2
  <2> QED BY <1>1, <1>7, <2>1, <2>2, <2>3 DEF PastRefusal
<1>13. Placed(P2, A2, H2)'
  BY <1>1, <1>6, <1>8, <1>9, <1>11, <1>12 DEF Placed
<1> QED BY <1>5, <1>7, <1>13

LEMMA ExchangesSoFar ==
  ASSUME NEW P, NEW A, NEW H, Typed, NEW F, NEW B, NEW E, Agreed(P, A, H, F, B, E)
  PROVE  E[nOps] \in Nat /\ \A j \in 0 .. nOps : E[j] \in Nat /\ E[j] <= E[nOps]
<1>1. nOps \in Nat
  BY DEF Typed
<1>2. /\ \A j \in 0 .. nOps : E[j] \in Nat
      /\ \A k \in 1 .. nOps : \A j \in 0 .. k - 1 : E[j] <= E[k]
  BY DEF Agreed, Shared
<1>3. E[nOps] \in Nat
  BY <1>1, <1>2
<1>4. ASSUME NEW j \in 0 .. nOps PROVE E[j] <= E[nOps]
  <2>1. CASE j = nOps
    BY <1>3, <2>1
  <2>2. CASE j # nOps
    <3>1. nOps \in 1 .. nOps /\ j \in 0 .. nOps - 1
      BY <1>1, <2>2
    <3> QED BY <1>2, <3>1
  <2> QED BY <2>1, <2>2
<1> QED BY <1>2, <1>3, <1>4

\* No sound rank has sent the messages of an operation it has not come to.
LEMMA SentSoFar ==
  ASSUME NEW P, NEW A, NEW H, Typed, Placed(P, A, H), NEW F, NEW B, NEW E,
         Agreed(P, A, H, F, B, E), NEW s \in Ranks, course[s] = "sound"
  PROVE  Sent(s, E) \in Nat /\ Sent(s, E) <= E[nOps]
<1>1. Pos(s) \in 0 .. nOps /\ nOps \in Nat
  BY DEF Placed, Queued, Pos, Typed
<1>2. E[nOps] \in Nat /\ \A j \in 0 .. nOps : E[j] \in Nat /\ E[j] <= E[nOps]
  BY ExchangesSoFar
<1>3. CASE waiting[s] = "none"
  BY <1>1, <1>2, <1>3 DEF Sent
<1>4. CASE waiting[s] # "none"
  <2>1. /\ todo[s] # <<>> /\ Now(s).kind = "update" /\ Mine(s).haloPresence = "WITH_HALO"
        /\ Mine(s).haloStatus = "NOT_UPDATED"
    BY <1>4 DEF Placed, Sound, Waits
  <2>2. E[Pos(s)] \in Nat /\ E[Pos(s) + 1] = E[Pos(s)] + 1 /\ Pos(s) \in 0 .. nOps - 1
    BY <2>1, NextExchange, NextOperation
  <2>3. Pos(s) + 1 \in 0 .. nOps
    BY <1>1, <2>2
  <2>4. E[Pos(s) + 1] <= E[nOps]
    BY <1>2, <2>3
  <2> QED BY <1>2, <1>4, <2>2, <2>4 DEF Sent
<1> QED BY <1>3, <1>4

LEMMA ChooseKeepsStep ==
  ASSUME NEW P, NEW A, NEW H, Typed, Placed(P, A, H), NEW op \in Ops, AllowedIn(op, scope),
         Choose(op, ScopeAfter(op, scope)), ~viewUpdated',
         NEW N \in Nat, N = nOps, NEW P2, NEW A2,
         P2 = Longer(P, 1, N, op), A2 = Longer(A, 0, N, ScopeAfter(op, scope)),
         NEW H2, H2 = Longer(H, 0, N, PresenceAfter(op, H[N])),
         NEW F, NEW B, NEW E, Agreed(P, A, H, F, B, E), NEW F2, NEW B2, NEW E2,
         F2 = Longer(F, 0, N, FieldsAfter(op, N + 1, F[N])),
         B2 = Longer(B, 0, N, BulksAfter(op, N + 1, scope, F[N], B[N])),
         E2 = Longer(E, 0, N, E[N] + (IF Exchanges(op, F[N]) THEN 1 ELSE 0))
  PROVE  Agreed(P2, A2, H2, F2, B2, E2)'
<1>1. /\ nOps' = N + 1 /\ UNCHANGED <<field, heap, waiting, channel, course>>
      /\ op.kind = "update" => op.name \in Owners
      /\ \A r \in Ranks : Pos(r)' = Pos(r) /\ Pos(r) \in 0 .. N
  <2>1. op.kind = "update" => op.name \in Owners
    BY OpsNames, NamesApart DEF Choose
  <2>2. \A r \in Ranks : Pos(r)' = Pos(r) /\ Pos(r) \in 0 .. N
    BY ChooseKeepsPlaces
  <2> QED BY <2>1, <2>2 DEF Choose
<1>2. /\ P2[N + 1] = op /\ \A k \in 1 .. N : P2[k] = P[k]
      /\ A2[N + 1] = ScopeAfter(op, scope) /\ \A k \in 0 .. N : A2[k] = A[k]
  <2>1. 0 \in 0 .. 1 /\ 1 \in 0 .. 1
    OBVIOUS
  <2>2. /\ Longer(P, 1, N, op)[N + 1] = op
        /\ \A k \in 1 .. N : Longer(P, 1, N, op)[k] = P[k]
    BY ONLY N \in Nat, <2>1, LongerIs
  <2>3. /\ Longer(A, 0, N, ScopeAfter(op, scope))[N + 1] = ScopeAfter(op, scope)
        /\ \A k \in 0 .. N : Longer(A, 0, N, ScopeAfter(op, scope))[k] = A[k]
    <3>1. PICK x : x = ScopeAfter(op, scope)
      OBVIOUS
    <3>2. Longer(A, 0, N, x)[N + 1] = x /\ \A k \in 0 .. N : Longer(A, 0, N, x)[k] = A[k]
      BY ONLY N \in Nat, <2>1, LongerIs
    <3> QED BY ONLY <3>1, <3>2
  <2> QED BY <2>2, <2>3
<1>3. /\ F2[N + 1] = FieldsAfter(op, N + 1, F[N]) /\ \A k \in 0 .. N : F2[k] = F[k]
      /\ B2[N + 1] = BulksAfter(op, N + 1, scope, F[N], B[N]) /\ \A k \in 0 .. N : B2[k] = B[k]
      /\ E2[N + 1] = E[N] + (IF Exchanges(op, F[N]) THEN 1 ELSE 0)
      /\ \A k \in 0 .. N : E2[k] = E[k]
  <2>1. 0 \in 0 .. 1
    OBVIOUS
  <2>2. F2[N + 1] = FieldsAfter(op, N + 1, F[N]) /\ \A k \in 0 .. N : F2[k] = F[k]
    BY <2>1, LongerIs
  <2>3. B2[N + 1] = BulksAfter(op, N + 1, scope, F[N], B[N]) /\ \A k \in 0 .. N : B2[k] = B[k]
    BY <2>1, LongerIs
  <2>4. /\ E2[N + 1] = E[N] + (IF Exchanges(op, F[N]) THEN 1 ELSE 0)
        /\ \A k \in 0 .. N : E2[k] = E[k]
    BY <2>1, LongerIs
  <2> QED BY <2>2, <2>3, <2>4
<1>4. A[N] = scope
  BY DEF Placed, Program
<1>5. \A s \in Ranks : course[s] = "sound" => Sent(s, E) \in Nat /\ Sent(s, E) <= E[N]
  BY SentSoFar
<1>6. \A j \in 0 .. N : E[j] \in Nat /\ E[j] <= E[N]
  BY ExchangesSoFar
<1>7. Shared(P2, A2, F2, B2, E2)'
  <2>1. /\ F2[0] = [n \in Owners |-> NoField] /\ B2[0] = EmptyMap /\ E2[0] = 0
    BY <1>3 DEF Agreed, Shared
  <2>2. ASSUME NEW k \in 0 .. N + 1 PROVE E2[k] \in Nat
    BY <1>3, <1>6
  <2>3. ASSUME NEW k \in 1 .. N + 1
        PROVE  /\ F2[k] = FieldsAfter(P2[k], k, F2[k - 1])
               /\ B2[k] = BulksAfter(P2[k], k, A2[k - 1], F2[k - 1], B2[k - 1])
               /\ E2[k] = E2[k - 1] + (IF Exchanges(P2[k], F2[k - 1]) THEN 1 ELSE 0)
               /\ P2[k].kind = "update" => P2[k].name \in Owners
               /\ \A j \in 0 .. k - 1 :
                     E2[j] <= E2[k] /\ (Exchanges(P2[k], F2[k - 1]) => E2[j] < E2[k])
    <3>1. CASE k = N + 1
      <4>1. k - 1 = N /\ N \in 0 .. N
        BY <3>1
      <4>2. \A j \in 0 .. k - 1 :
                E2[j] <= E2[k] /\ (Exchanges(P2[k], F2[k - 1]) => E2[j] < E2[k])
        BY <1>2, <1>3, <1>6, <3>1, <4>1
      <4>3. P2[k] = op /\ F2[k - 1] = F[N] /\ B2[k - 1] = B[N] /\ A2[k - 1] = scope
            /\ E2[k - 1] = E[N]
        BY <1>2, <1>3, <1>4, <3>1, <4>1
      <4> QED BY <1>1, <1>3, <3>1, <4>2, <4>3
    <3>2. CASE k # N + 1
      <4>1. k \in 1 .. N /\ k \in 0 .. N /\ k - 1 \in 0 .. N /\ \A j \in 0 .. k - 1 : j \in 0 .. N
        BY <3>2
      <4>2. /\ P2[k] = P[k] /\ A2[k - 1] = A[k - 1] /\ F2[k] = F[k] /\ F2[k - 1] = F[k - 1]
            /\ B2[k] = B[k] /\ B2[k - 1] = B[k - 1] /\ E2[k] = E[k] /\ E2[k - 1] = E[k - 1]
            /\ \A j \in 0 .. k - 1 : E2[j] = E[j]
        BY <1>2, <1>3, <4>1
      <4>3. /\ F[k] = FieldsAfter(P[k], k, F[k - 1])
            /\ B[k] = BulksAfter(P[k], k, A[k - 1], F[k - 1], B[k - 1])
            /\ E[k] = E[k - 1] + (IF Exchanges(P[k], F[k - 1]) THEN 1 ELSE 0)
            /\ P[k].kind = "update" => P[k].name \in Owners
            /\ \A j \in 0 .. k - 1 : E[j] <= E[k] /\ (Exchanges(P[k], F[k - 1]) => E[j] < E[k])
        BY <4>1 DEF Agreed, Shared
      <4> QED BY <4>2, <4>3
    <3> QED BY <3>1, <3>2
  <2> QED BY <1>1, <2>1, <2>2, <2>3 DEF Shared
<1>8. ASSUME NEW r \in Ranks, course'[r] = "sound"
      PROVE  /\ InStepIn(field'[r], heap'[r], F2[Pos(r)'], B2[Pos(r)'])
             /\ CurrentIn(r, field'[r], heap'[r])
  BY <1>1, <1>3, <1>8 DEF Agreed
<1>9. \A s \in Ranks : Sent(s, E2)' = Sent(s, E) /\ Received(s, E2)' = Received(s, E)
  BY <1>1, <1>3 DEF Sent, Received
<1>10. \A k \in 0 .. N : H2[k] = H[k]
  <2>1. 0 \in 0 .. 1
    OBVIOUS
  <2> QED BY ONLY N \in Nat, H2 = Longer(H, 0, N, PresenceAfter(op, H[N])), <2>1, LongerIs
<1>11. \A k \in 1 .. N : P2[k] = P[k] /\ H2[k - 1] = H[k - 1]
  <2>1. \A k \in 1 .. N : k - 1 \in 0 .. N
    OBVIOUS
  <2> QED BY <1>2, <1>10, <2>1
<1>12. ASSUME NEW q \in Ranks, NEW s \in Neighbours[q], course[q] = "sound"
       PROVE  /\ course[s] = "sound" =>
                    /\ Received(q, E2)' <= Sent(s, E2)'
                    /\ Len(channel'[<<s, q>>]) = Sent(s, E2)' - Received(q, E2)'
              /\ \A k \in 1 .. nOps' :
                    /\ Exchanges(P2[k], F2[k - 1]) /\ Received(q, E2)' < E2[k]
                    /\ IF course[s] = "sound" THEN E2[k] <= Sent(s, E2)' ELSE Accepted(k, P2, H2)
                    => /\ E2[k] - Received(q, E2)' <= Len(channel'[<<s, q>>])
                       /\ channel'[<<s, q>>][E2[k] - Received(q, E2)'] = Exchanged(k, P2, F2, B2)
  <2>1. /\ course[s] = "sound" =>
              /\ Received(q, E) <= Sent(s, E)
              /\ Len(channel[<<s, q>>]) = Sent(s, E) - Received(q, E)
        /\ \A k \in 1 .. N :
              /\ Exchanges(P[k], F[k - 1]) /\ Received(q, E) < E[k]
              /\ IF course[s] = "sound" THEN E[k] <= Sent(s, E) ELSE Accepted(k, P, H)
              => /\ E[k] - Received(q, E) <= Len(channel[<<s, q>>])
                 /\ channel[<<s, q>>][E[k] - Received(q, E)] = Exchanged(k, P, F, B)
    BY <1>12 DEF Agreed, Messages
  <2>2. s \in Ranks
    BY NeighboursAssumption
  <2>3. ASSUME NEW k \in 1 .. N + 1, Exchanges(P2[k], F2[k - 1]), Received(q, E) < E2[k],
               IF course[s] = "sound" THEN E2[k] <= Sent(s, E) ELSE Accepted(k, P2, H2)
        PROVE  /\ E2[k] - Received(q, E) <= Len(channel[<<s, q>>])
               /\ channel[<<s, q>>][E2[k] - Received(q, E)] = Exchanged(k, P2, F2, B2)
    <3>1. CASE k = N + 1
      <4>1. k - 1 = N /\ N \in 0 .. N /\ Exchanges(op, F[N])
        BY <1>2, <1>3, <2>3, <3>1
      <4>2. E2[k] = E[N] + 1 /\ E[N] \in Nat
        BY <1>3, <1>6, <3>1, <4>1
      <4>3. CASE course[s] = "sound"
        BY <1>5, <2>2, <2>3, <4>2, <4>3
      <4>4. CASE course[s] # "sound"
        <5>1. PICK j \in 1 .. N : RefusedIn(P[j], H[j - 1])
          BY <2>2, <4>4 DEF Placed, PastRefusal
        <5>2. j \in 1 .. k /\ RefusedIn(P2[j], H2[j - 1])
          BY <1>11, <3>1, <5>1
        <5> QED BY <2>3, <4>4, <5>2 DEF Accepted
      <4> QED BY <4>3, <4>4
    <3>2. CASE k # N + 1
      <4>1. k \in 1 .. N /\ k \in 0 .. N /\ k - 1 \in 0 .. N
        BY <3>2
      <4>2. /\ P2[k] = P[k] /\ F2[k - 1] = F[k - 1] /\ B2[k - 1] = B[k - 1] /\ E2[k] = E[k]
        BY <1>2, <1>3, <4>1
      <4>3. Accepted(k, P2, H2) => Accepted(k, P, H)
        <5>1. \A j \in 1 .. k : j \in 1 .. N
          BY <4>1
        <5> QED BY <1>11, <5>1 DEF Accepted
      <4>4. /\ E[k] - Received(q, E) <= Len(channel[<<s, q>>])
            /\ channel[<<s, q>>][E[k] - Received(q, E)] = Exchanged(k, P, F, B)
        BY <2>1, <2>3, <4>1, <4>2, <4>3
      <4> QED BY <4>2, <4>4 DEF Exchanged
    <3> QED BY <3>1, <3>2
  <2>4. /\ Received(q, E2)' = Received(q, E) /\ Sent(s, E2)' = Sent(s, E)
        /\ channel' = channel /\ nOps' = N + 1
    BY <1>1, <1>9, <2>2
  <2> QED BY <2>1, <2>3, <2>4
<1>13. Messages(P2, H2, F2, B2, E2)'
  <2>1. course' = course
    BY <1>1
  <2> QED BY ONLY <1>12, <2>1 DEF Messages, Exchanged, Exchanges, Accepted
<1>14. \A q \in Ranks : \A s \in Ranks \ Neighbours[q] : channel'[<<s, q>>] = <<>>
  BY <1>1 DEF Agreed
<1> QED BY <1>7, <1>8, <1>13, <1>14 DEF Agreed

\* The program stops, or nothing happens.
LEMMA StutteringKeeps ==
  ASSUME NEW P, NEW A, NEW H, Typed, Placed(P, A, H),
         UNCHANGED <<scope, nOps, viewUpdated, todo, field, heap, waiting, channel, course>>
  PROVE  /\ Typed' /\ Placed(P, A, H)' /\ viewUpdated' = viewUpdated
         /\ \A F, B, E : Agreed(P, A, H, F, B, E) => Agreed(P, A, H, F, B, E)'
<1>1. Typed'
  BY DEF Typed
<1>2. Program(P, A)' /\ Presences(P, H)'
  BY DEF Placed, Program, Presences
<1>3. \A r \in Ranks : Pos(r)' = Pos(r)
  BY DEF Pos
<1>4. Queued(P)'
  BY <1>3 DEF Placed, Queued
<1>5. ASSUME NEW r \in Ranks
      PROVE  /\ course'[r] = "sound" => Sound(r, P, A, H)'
             /\ course'[r] # "sound" => PastRefusal(r, P, H)'
  <2>1. Waits(r) => Waits(r)'
    BY DEF Waits, Now, Mine
  <2>2. Accepted(Pos(r), P, H) => Accepted(Pos(r), P, H)'
    BY <1>3 DEF Accepted
  <2>3. course[r] = "sound" => Sound(r, P, A, H)'
    BY <1>3, <2>1, <2>2 DEF Placed, Sound
  <2>4. course[r] # "sound" => PastRefusal(r, P, H)'
    BY <1>3 DEF Placed, PastRefusal
  <2> QED BY <2>3, <2>4
<1>6. Placed(P, A, H)'
  BY <1>2, <1>4, <1>5 DEF Placed
<1>7. ASSUME NEW F, NEW B, NEW E, Agreed(P, A, H, F, B, E)
      PROVE  Agreed(P, A, H, F, B, E)'
  <2>1. Shared(P, A, F, B, E)'
    BY <1>7 DEF Agreed, Shared
  <2>2. \A r \in Ranks : Sent(r, E)' = Sent(r, E) /\ Received(r, E)' = Received(r, E)
    BY <1>3 DEF Sent, Received
  <2>3. Messages(P, H, F, B, E)'
    BY <1>7, <2>2, SameMessages DEF Agreed
  <2>4. ASSUME NEW r \in Ranks, course'[r] = "sound"
        PROVE  /\ InStepIn(field'[r], heap'[r], F[Pos(r)'], B[Pos(r)'])
               /\ CurrentIn(r, field'[r], heap'[r])
    BY <1>3, <1>7, <2>4 DEF Agreed
  <2>5. \A r \in Ranks : \A s \in Ranks \ Neighbours[r] : channel'[<<s, r>>] = <<>>
    BY <1>7 DEF Agreed
  <2> QED BY <2>1, <2>3, <2>4, <2>5 DEF Agreed
<1> QED BY <1>1, <1>6, <1>7

------------------------------------------------------------------------------
(* A rank that does not print goes on past a refusal.                      *)

\* Whatever it does, it leaves the others what they have, and may send them more.
Strays(r) ==
    /\ course'[r] # "sound" /\ \A s \in Ranks \ {r} : course'[s] = course[s]
    /\ todo' = todo \/ (todo[r] # <<>> /\ Done(r))
    /\ UNCHANGED <<scope, nOps, viewUpdated>>
    /\ \A s \in Ranks \ {r} :
          field'[s] = field[s] /\ heap'[s] = heap[s] /\ waiting'[s] = waiting[s]
    /\ \A q, s \in Ranks \ {r} : channel'[<<s, q>>] = channel[<<s, q>>]
    /\ \A q \in Neighbours[r] :
          /\ Len(channel[<<r, q>>]) <= Len(channel'[<<r, q>>])
          /\ \A i \in 1 .. Len(channel[<<r, q>>]) : channel'[<<r, q>>][i] = channel[<<r, q>>][i]
    /\ \A q \in Ranks : \A s \in Ranks \ Neighbours[q] : channel'[<<s, q>>] = channel[<<s, q>>]

\* What was sent before the refusal is still there.
LEMMA SentBeforeRefusal ==
  ASSUME NEW P, NEW A, NEW H, Typed, Placed(P, A, H), NEW r \in Ranks, PastRefusal(r, P, H),
         NEW F, NEW B, NEW E, Agreed(P, A, H, F, B, E), NEW k \in 1 .. nOps, Accepted(k, P, H)
  PROVE  IF course[r] = "sound" THEN E[k] <= Sent(r, E) ELSE Accepted(k, P, H)
<1>1. PICK j \in 1 .. nOps : j <= Pos(r) + 1 /\ RefusedIn(P[j], H[j - 1])
  BY DEF PastRefusal
<1>2. Pos(r) \in 0 .. nOps /\ nOps \in Nat
  BY DEF Placed, Queued, Pos, Typed
<1>3. k \in 0 .. Pos(r)
  <2>1. j \notin 1 .. k
    BY <1>1 DEF Accepted
  <2> QED BY <1>1, <1>2, <2>1
<1>4. E[k] <= E[Pos(r)] /\ E[Pos(r)] \in Nat /\ E[k] \in Nat
  <2>1. E[Pos(r)] \in Nat /\ E[k] \in Nat
    BY <1>2 DEF Agreed, Shared
  <2>2. CASE k = Pos(r)
    BY <2>1, <2>2
  <2>3. CASE k # Pos(r)
    <3>1. Pos(r) \in 1 .. nOps /\ k \in 0 .. Pos(r) - 1
      BY <1>2, <1>3, <2>3
    <3> QED BY <2>1, <3>1 DEF Agreed, Shared
  <2> QED BY <2>2, <2>3
<1>5. E[k] <= Sent(r, E)
  BY <1>4 DEF Sent
<1> QED BY <1>5

LEMMA StraysKeep ==
  ASSUME NEW P, NEW A, NEW H, Typed, Placed(P, A, H), NEW r \in Ranks, PastRefusal(r, P, H),
         Strays(r), Typed'
  PROVE  /\ Placed(P, A, H)'
         /\ \A F, B, E : Agreed(P, A, H, F, B, E) => Agreed(P, A, H, F, B, E)'
<1>1. /\ nOps' = nOps /\ scope' = scope /\ course'[r] # "sound" /\ nOps \in Nat
      /\ \A s \in Ranks \ {r} : /\ course'[s] = course[s] /\ field'[s] = field[s]
                                /\ heap'[s] = heap[s] /\ waiting'[s] = waiting[s]
  BY DEF Strays, Typed
<1>2. /\ Program(P, A)' /\ Queued(P)' /\ Presences(P, H)' /\ Pos(r) <= Pos(r)'
      /\ \A s \in Ranks \ {r} : Pos(s)' = Pos(s) /\ todo'[s] = todo[s]
  <2>1. Pos(r) \in Nat
    BY DEF Placed, Queued, Pos, Typed
  <2>2. CASE todo' = todo
    <3>1. \A s \in Ranks : Pos(s)' = Pos(s)
      BY <1>1, <2>2 DEF Pos
    <3>2. Program(P, A)' /\ Presences(P, H)'
      BY <1>1 DEF Placed, Program, Presences
    <3>3. Queued(P)'
      BY <1>1, <2>2, <3>1 DEF Placed, Queued
    <3> QED BY <2>1, <2>2, <3>1, <3>2, <3>3
  <2>3. CASE todo[r] # <<>> /\ Done(r)
    <3>1. /\ Program(P, A)' /\ Queued(P)' /\ Presences(P, H)' /\ Pos(r)' = Pos(r) + 1
          /\ \A s \in Ranks \ {r} : Pos(s)' = Pos(s) /\ todo'[s] = todo[s]
      BY <1>1, <2>3, QueueAdvances
    <3> QED BY <2>1, <3>1
  <2> QED BY <2>2, <2>3 DEF Strays
<1>3. PastRefusal(r, P, H)'
  <2>1. PICK j \in 1 .. nOps : j <= Pos(r) + 1 /\ RefusedIn(P[j], H[j - 1])
    BY DEF PastRefusal
  <2>2. j <= Pos(r)' + 1
    <3>1. Pos(r) \in Int /\ Pos(r)' \in Int
      BY <1>2 DEF Placed, Queued, Pos, Typed
    <3> QED BY <1>2, <2>1, <3>1
  <2> QED BY <1>1, <2>1, <2>2 DEF PastRefusal
<1>4. ASSUME NEW s \in Ranks
      PROVE  /\ course'[s] = "sound" => Sound(s, P, A, H)'
             /\ course'[s] # "sound" => PastRefusal(s, P, H)'
  <2>1. CASE s = r
    BY <1>1, <1>3, <2>1
  <2>2. CASE s # r
    <3>1. Waits(s) => Waits(s)'
      BY <1>1, <1>2, <2>2 DEF Waits, Now, Mine
    <3>2. Accepted(Pos(s), P, H) => Accepted(Pos(s), P, H)'
      BY <1>2, <2>2 DEF Accepted
    <3>3. course[s] = "sound" => Sound(s, P, A, H)'
      BY <1>1, <1>2, <2>2, <3>1, <3>2 DEF Placed, Sound
    <3>4. course[s] # "sound" => PastRefusal(s, P, H)'
      BY <1>1, <1>2, <2>2 DEF Placed, PastRefusal
    <3> QED BY <1>1, <2>2, <3>3, <3>4
  <2> QED BY <2>1, <2>2
<1>5. Placed(P, A, H)'
  BY <1>2, <1>4 DEF Placed
<1>6. ASSUME NEW F, NEW B, NEW E, Agreed(P, A, H, F, B, E)
      PROVE  Agreed(P, A, H, F, B, E)'
  <2>1. Shared(P, A, F, B, E)'
    BY <1>1, <1>6 DEF Agreed, Shared
  <2>2. ASSUME NEW s \in Ranks, course'[s] = "sound"
        PROVE  /\ InStepIn(field'[s], heap'[s], F[Pos(s)'], B[Pos(s)'])
               /\ CurrentIn(s, field'[s], heap'[s])
    <3>1. s # r
      BY <1>1, <2>2
    <3> QED BY <1>1, <1>2, <1>6, <2>2, <3>1 DEF Agreed
  <2>3. \A s \in Ranks \ {r} : Sent(s, E)' = Sent(s, E) /\ Received(s, E)' = Received(s, E)
    BY <1>1, <1>2 DEF Sent, Received
  <2>4. ASSUME NEW q \in Ranks, NEW s \in Neighbours[q], course'[q] = "sound"
        PROVE  /\ course'[s] = "sound" =>
                     /\ Received(q, E)' <= Sent(s, E)'
                     /\ Len(channel'[<<s, q>>]) = Sent(s, E)' - Received(q, E)'
               /\ \A k \in 1 .. nOps :
                     /\ Exchanges(P[k], F[k - 1]) /\ Received(q, E)' < E[k]
                     /\ IF course'[s] = "sound" THEN E[k] <= Sent(s, E)' ELSE Accepted(k, P, H)
                     => /\ E[k] - Received(q, E)' <= Len(channel'[<<s, q>>])
                        /\ channel'[<<s, q>>][E[k] - Received(q, E)'] = Exchanged(k, P, F, B)
    <3>1. q # r /\ course[q] = "sound" /\ s \in Ranks /\ q \in Neighbours[s]
      BY <1>1, <2>4, NeighboursAssumption
    <3>2. /\ course[s] = "sound" =>
                /\ Received(q, E) <= Sent(s, E)
                /\ Len(channel[<<s, q>>]) = Sent(s, E) - Received(q, E)
          /\ \A k \in 1 .. nOps :
                /\ Exchanges(P[k], F[k - 1]) /\ Received(q, E) < E[k]
                /\ IF course[s] = "sound" THEN E[k] <= Sent(s, E) ELSE Accepted(k, P, H)
                => /\ E[k] - Received(q, E) <= Len(channel[<<s, q>>])
                   /\ channel[<<s, q>>][E[k] - Received(q, E)] = Exchanged(k, P, F, B)
      BY <1>6, <3>1 DEF Agreed, Messages
    <3>3. Received(q, E)' = Received(q, E)
      BY <2>3, <3>1
    <3>4. CASE s # r
      <4>1. /\ channel'[<<s, q>>] = channel[<<s, q>>] /\ Sent(s, E)' = Sent(s, E)
            /\ course'[s] = course[s]
        BY <1>1, <2>3, <3>1, <3>4 DEF Strays
      <4> QED BY <3>2, <3>3, <4>1
    <3>5. CASE s = r
      <4>1. ASSUME NEW k \in 1 .. nOps, Exchanges(P[k], F[k - 1]), Received(q, E) < E[k],
                   Accepted(k, P, H)
            PROVE  /\ E[k] - Received(q, E) <= Len(channel'[<<s, q>>])
                   /\ channel'[<<s, q>>][E[k] - Received(q, E)] = Exchanged(k, P, F, B)
        <5>1. IF course[s] = "sound" THEN E[k] <= Sent(s, E) ELSE Accepted(k, P, H)
          BY <1>6, <3>5, <4>1, SentBeforeRefusal
        <5>2. /\ E[k] - Received(q, E) <= Len(channel[<<s, q>>])
              /\ channel[<<s, q>>][E[k] - Received(q, E)] = Exchanged(k, P, F, B)
          BY <3>2, <4>1, <5>1
        <5>3. E[k] \in Nat /\ Received(q, E) \in Nat
          <6>1. Pos(q) \in 0 .. nOps
            BY DEF Placed, Queued, Pos, Typed
          <6> QED BY <1>6, <6>1 DEF Agreed, Shared, Received
        <5>4. channel[<<s, q>>] \in Seq(Nat)
          BY <3>1 DEF Typed
        <5>5. E[k] - Received(q, E) \in 1 .. Len(channel[<<s, q>>])
          BY <4>1, <5>2, <5>3, <5>4
        <5>6. /\ Len(channel[<<s, q>>]) <= Len(channel'[<<s, q>>])
              /\ \A i \in 1 .. Len(channel[<<s, q>>]) :
                    channel'[<<s, q>>][i] = channel[<<s, q>>][i]
          BY <3>1, <3>5 DEF Strays
        <5>7. E[k] - Received(q, E) <= Len(channel'[<<s, q>>])
          <6>1. channel'[<<s, q>>] \in Seq(Nat)
            BY <3>1 DEF Typed
          <6>2. Len(channel'[<<s, q>>]) \in Nat /\ Len(channel[<<s, q>>]) \in Nat
            BY <5>4, <6>1
          <6> QED BY <5>2, <5>3, <5>6, <6>2
        <5> QED BY <5>2, <5>5, <5>6, <5>7
      <4> QED BY <1>1, <3>3, <3>5, <4>1
    <3> QED BY <3>4, <3>5
  <2>5. Messages(P, H, F, B, E)'
    BY ONLY <1>1, <2>4 DEF Messages, Exchanged, Exchanges, Accepted
  <2>6. \A q \in Ranks : \A s \in Ranks \ Neighbours[q] : channel'[<<s, q>>] = <<>>
    BY <1>6 DEF Strays, Agreed
  <2> QED BY <2>1, <2>2, <2>5, <2>6 DEF Agreed
<1> QED BY <1>5, <1>6

------------------------------------------------------------------------------
(* What any rank has is of its type, whatever check it has gone past.      *)

LEMMA TypedStays ==
  ASSUME Typed, NEW r \in Ranks, NEW f2, NEW h2, TypedIn(r, f2, h2),
         field' = [field EXCEPT ![r] = f2], heap' = [heap EXCEPT ![r] = h2],
         UNCHANGED <<nOps, viewUpdated>>, todo' = todo \/ Done(r),
         waiting' \in [Ranks -> Names \cup {"none"}], channel' \in [Ranks \X Ranks -> Seq(Nat)],
         course' \in [Ranks -> Courses]
  PROVE  Typed'
<1>1. todo' = [s \in Ranks |-> todo'[s]]
  <2>1. todo = [s \in Ranks |-> todo[s]]
    BY DEF Typed
  <2> QED BY <2>1 DEF Done
<1>2. field' = [s \in Ranks |-> field'[s]] /\ heap' = [s \in Ranks |-> heap'[s]]
  BY DEF Typed
<1>3. \A s \in Ranks : TypedIn(s, field'[s], heap'[s])
  BY DEF Typed
<1> QED BY <1>1, <1>2, <1>3 DEF Typed

LEMMA TypedField ==
  ASSUME NEW r, NEW f, NEW h, TypedIn(r, f, h), NEW n, NEW x \in FieldTypes
  PROVE  TypedIn(r, With(f, n, x), h)
BY DEF TypedIn, With

LEMMA TypedStatus ==
  ASSUME NEW r, NEW f, NEW h, TypedIn(r, f, h), NEW n \in Names, NEW status \in HaloStatus
  PROVE  TypedIn(r, WithStatus(f, n, status), h)
<1>1. f[n] \in FieldTypes
  BY DEF TypedIn
<1>2. [f[n] EXCEPT !.haloStatus = status] \in FieldTypes
  BY <1>1 DEF FieldTypes
<1>3. WithStatus(f, n, status) = With(f, n, [f[n] EXCEPT !.haloStatus = status])
  BY DEF WithStatus, With
<1> QED BY <1>2, <1>3, TypedField

LEMMA TypedPut ==
  ASSUME NEW r, NEW f, NEW h, TypedIn(r, f, h), NEW b, NEW x \in Blocks(r)
  PROVE  TypedIn(r, f, Put(h, b, x))
BY DEF TypedIn, Put

LEMMA TypedDrop ==
  ASSUME NEW r, NEW f, NEW h, TypedIn(r, f, h), NEW b
  PROVE  TypedIn(r, f, Drop(h, b))
BY DEF TypedIn, Drop, Restrict

LEMMA TypedOverwritten ==
  ASSUME NEW r, NEW f, NEW h, TypedIn(r, f, h), NEW b \in DOMAIN h, NEW value \in Nat
  PROVE  TypedIn(r, f, Overwritten(h, b, value))
<1> DEFINE x == [h[b] EXCEPT !.bulk = value]
           y == [x EXCEPT !.dirty = TRUE]
<1>1. h[b] \in Blocks(r)
  BY DEF TypedIn
<1>2. x \in Blocks(r)
  BY <1>1 DEF Blocks
<1>3. Overwritten(h, b, value) = [c \in DOMAIN h |-> IF c = b THEN y ELSE h[c]]
  BY DEF Overwritten, TypedIn
<1> HIDE DEF x
<1>4. y \in Blocks(r)
  BY <1>2 DEF Blocks
<1> HIDE DEF y
<1> QED BY <1>3, <1>4 DEF TypedIn

LEMMA TypedFilled ==
  ASSUME NEW r, NEW f, NEW h, TypedIn(r, f, h), NEW b \in DOMAIN h,
         NEW halo \in [Neighbours[r] -> Nat]
  PROVE  TypedIn(r, f, Filled(h, b, halo))
<1>1. Filled(h, b, halo) \in [DOMAIN h -> Blocks(r)]
  BY FillsBlock DEF TypedIn
<1> QED BY <1>1 DEF TypedIn

\* What std::swap leaves, past its refusal.
LEMMA TypedSwap ==
  ASSUME NEW r, NEW f, NEW h, TypedIn(r, f, h), NEW n \in Names,
         NEW m \in Names, n # m, NEW f2,
         f2 = [f EXCEPT ![n].data = Taking(@, f[m].data.block, f[m].data.allocated),
                        ![m].data = Taking(@, f[n].data.block, FALSE)]
  PROVE  TypedIn(r, f2, h)
<1> DEFINE Data == [block : Nat, sites : {"none", "vol", "vol+halo"}, allocated : BOOLEAN]
           block1 == f[m].data.block
           flag1 == f[m].data.allocated
           block2 == f[n].data.block
           f1 == [f EXCEPT ![n].data = Taking(@, block1, flag1)]
<1>1. f \in [Names -> FieldTypes]
  BY DEF TypedIn
<1>2. \A x \in FieldTypes : x.data \in Data
  BY DEF FieldTypes
<1>3. \A x \in FieldTypes : \A d \in Data : [x EXCEPT !.data = d] \in FieldTypes
  BY DEF FieldTypes
<1>4. ASSUME NEW d \in Data, NEW block \in Nat, NEW flag \in BOOLEAN
      PROVE  Taking(d, block, flag) \in Data
  <2>1. [d EXCEPT !.block = block] \in Data
    OBVIOUS
  <2>2. [[d EXCEPT !.block = block] EXCEPT !.allocated = flag] \in Data
    BY <2>1
  <2> QED BY <2>2 DEF Taking
<1>5. block1 \in Nat /\ block2 \in Nat /\ flag1 \in BOOLEAN
  BY <1>1, <1>2
<1>6. f2 = [f1 EXCEPT ![m].data = Taking(f[m].data, block2, FALSE)]
  OBVIOUS
<1> HIDE DEF Data, block1, flag1, block2
<1>7. f1 \in [Names -> FieldTypes]
  <2>1. f1 = [f EXCEPT ![n] = [f[n] EXCEPT !.data = Taking(f[n].data, block1, flag1)]]
    OBVIOUS
  <2>2. [f[n] EXCEPT !.data = Taking(f[n].data, block1, flag1)] \in FieldTypes
    BY <1>1, <1>2, <1>3, <1>4, <1>5
  <2> HIDE DEF f1
  <2> QED BY <1>1, <2>1, <2>2
<1> HIDE DEF f1
<1>8. f2 \in [Names -> FieldTypes]
  <2>1. f2 = [f1 EXCEPT ![m] = [f1[m] EXCEPT !.data = Taking(f[m].data, block2, FALSE)]]
    BY <1>6
  <2>2. [f1[m] EXCEPT !.data = Taking(f[m].data, block2, FALSE)] \in FieldTypes
    BY <1>1, <1>2, <1>3, <1>4, <1>5, <1>7
  <2> QED BY <1>7, <2>1, <2>2
<1> QED BY <1>8 DEF TypedIn

LEMMA StepTyped ==
  ASSUME NEW P, NEW A, NEW H, Typed, Placed(P, A, H), NEW r \in Ranks, Step(r) \/ Wander(r)
  PROVE  Typed'
<1> DEFINE f == field[r]
           h == heap[r]
           op == Now(r)
           n == Now(r).name
           m == Now(r).oth
<1>1. /\ TypedIn(r, f, h) /\ f \in [Names -> FieldTypes] /\ \A b \in DOMAIN h : h[b] \in Blocks(r)
      /\ field = [s \in Ranks |-> field[s]] /\ heap = [s \in Ranks |-> heap[s]]
  BY DEF Typed, TypedIn
<1>2. /\ waiting \in [Ranks -> Names \cup {"none"}] /\ channel \in [Ranks \X Ranks -> Seq(Nat)]
      /\ course \in [Ranks -> Courses] /\ \A l \in Ranks \X Ranks : channel[l] \in Seq(Nat)
  BY DEF Typed
<1>3. ASSUME todo[r] # <<>>
      PROVE  /\ op \in Ops /\ n \in Names /\ At(r) \in Nat
             /\ op.kind \in {"copyConstruct", "copyAssign", "moveAssign", "getRef"} =>
                   m \in Names /\ m # n
             /\ op.kind = "construct" => op.haloPresence \in HaloPresence
  <2>1. op \in Ops /\ At(r) \in Nat /\ AllowedIn(op, A[Pos(r)])
    BY <1>3, NextOperation
  <2> QED BY <2>1, OpsNames, NamesApart DEF AllowedIn
<1>5. ASSUME NEW x \in FieldTypes, NEW content \in Blocks(r), todo[r] # <<>>,
             field' = [field EXCEPT ![r][n] = x],
             heap' = [heap EXCEPT ![r] = Put(@, At(r), content)],
             Done(r), UNCHANGED <<nOps, viewUpdated, waiting, channel, course>>
      PROVE  Typed'
  <2>1. TypedIn(r, With(f, n, x), Put(h, At(r), content))
    BY <1>1, TypedField, TypedPut
  <2>2. field' = [field EXCEPT ![r] = With(f, n, x)]
    BY <1>5 DEF With
  <2> QED BY <1>2, <1>5, <2>1, <2>2, TypedStays
<1>6. ASSUME NEW value \in Nat, Overwrite(r, value), f[n].data.block \in DOMAIN h
      PROVE  Typed'
  <2> DEFINE b == field[r][Now(r).name].data.block
             h2 == Overwritten(heap[r], b, value)
  <2>1. heap' = [heap EXCEPT ![r] = h2]
    <3>1. heap' = [heap EXCEPT ![r][b].bulk = value, ![r][b].dirty = TRUE]
      BY <1>6 DEF Overwrite, Mine
    <3>2. h2 = [heap[r] EXCEPT ![b].bulk = value, ![b].dirty = TRUE]
      BY DEF Overwritten
    <3> HIDE DEF b, h2
    <3> QED BY <1>1, <3>1, <3>2, ZenonT(30)
  <2>2. TypedIn(r, f, h2)
    BY <1>1, <1>6, TypedOverwritten
  <2>3. /\ field' = [field EXCEPT ![r] = f] /\ Done(r)
        /\ UNCHANGED <<nOps, viewUpdated, waiting, channel, course>>
    BY <1>1, <1>6 DEF Overwrite
  <2> HIDE DEF h2
  <2> QED BY <1>2, <2>1, <2>2, <2>3, TypedStays
<1>7. ASSUME NEW f2, TypedIn(r, f2, h), field' = [field EXCEPT ![r] = f2], heap' = heap,
             Done(r), UNCHANGED <<nOps, viewUpdated, waiting, channel>>,
             course' \in [Ranks -> Courses]
      PROVE  Typed'
  <2>1. heap' = [heap EXCEPT ![r] = h]
    BY <1>1, <1>7
  <2> QED BY <1>2, <1>7, <2>1, TypedStays
<1>8. ASSUME UNCHANGED <<nOps, viewUpdated, field, heap>>, todo' = todo \/ Done(r),
             waiting' \in [Ranks -> Names \cup {"none"}],
             channel' \in [Ranks \X Ranks -> Seq(Nat)], course' \in [Ranks -> Courses]
      PROVE  Typed'
  <2>1. field' = [field EXCEPT ![r] = f] /\ heap' = [heap EXCEPT ![r] = h]
    BY <1>1, <1>8
  <2> QED BY <1>1, <1>8, <2>1, TypedStays
<1>9. ASSUME NEW refused, Check(r, refused) PROVE course' \in [Ranks -> Courses]
  BY <1>2, <1>9 DEF Check, Courses
<1>10. ASSUME NEW data, NEW sites, HasRoom(r, data, sites)
       PROVE  data.block \in DOMAIN h /\ h[data.block] \in Blocks(r)
  BY <1>1, <1>10 DEF HasRoom
<1>11. CASE Construct(r)
  <2>1. todo[r] # <<>> /\ op.kind = "construct"
    BY <1>11 DEF Construct, Turn, Ready
  <2> DEFINE content == NewBlock(r, GetNAllocatedSites(op.haloPresence))
             x == [haloPresence |-> op.haloPresence, haloStatus |-> "NOT_UPDATED",
                   data |-> [block |-> At(r), sites |-> content.sites, allocated |-> TRUE]]
  <2>2. content \in Blocks(r) /\ x \in FieldTypes
    BY <1>3, <2>1
       DEF NewBlock, Blocks, FieldTypes, GetNAllocatedSites, Garbage, HaloPresence, HaloStatus
  <2>3. /\ field' = [field EXCEPT ![r][n] = x]
        /\ heap' = [heap EXCEPT ![r] = Put(@, At(r), content)]
        /\ Done(r) /\ UNCHANGED <<nOps, viewUpdated, waiting, channel, course>>
    BY <1>11 DEF Construct, Make
  <2> HIDE DEF content, x
  <2> QED BY <1>5, <2>1, <2>2, <2>3
<1>12. CASE CopyConstruct(r)
  <2>1. /\ todo[r] # <<>> /\ op.kind = "copyConstruct" /\ waiting[r] = "none"
        /\ HasRoom(r, Oth(r).data, Oth(r).data.sites)
    BY <1>12 DEF CopyConstruct, Turn, Ready, InBounds, Touches
  <2> DEFINE content == [BlockOf(r, Oth(r)) EXCEPT !.sites = Oth(r).data.sites]
             x == [haloPresence |-> Oth(r).haloPresence, haloStatus |-> Oth(r).haloStatus,
                   data |-> [block |-> At(r), sites |-> content.sites, allocated |-> TRUE]]
  <2>2. BlockOf(r, Oth(r)) \in Blocks(r) /\ Oth(r) \in FieldTypes /\ At(r) \in Nat
    BY <1>1, <1>3, <1>10, <2>1 DEF BlockOf, Oth
  <2>3. Oth(r).data.sites \in {"none", "vol", "vol+halo"}
    BY <2>2 DEF FieldTypes
  <2>4. content \in Blocks(r) /\ content.sites \in {"none", "vol", "vol+halo"}
    BY <2>2, <2>3 DEF Blocks
  <2>5. /\ field' = [field EXCEPT ![r][n] = x]
        /\ heap' = [heap EXCEPT ![r] = Put(@, At(r), content)]
        /\ Done(r) /\ UNCHANGED <<nOps, viewUpdated, waiting, channel, course>>
    BY <1>12 DEF CopyConstruct, Make
  <2> HIDE DEF content
  <2>6. x \in FieldTypes
    BY <2>2, <2>4 DEF FieldTypes
  <2> HIDE DEF x
  <2> QED BY <1>5, <2>1, <2>4, <2>5, <2>6
<1>13. CASE GetRef(r)
  <2>1. todo[r] # <<>> /\ op.kind = "getRef"
    BY <1>13 DEF GetRef, Turn, Ready
  <2>2. PICK status \in HaloStatus :
          field' = [field EXCEPT ![r][n] =
                       [haloPresence |-> Oth(r).haloPresence, haloStatus |-> status,
                        data |-> Oth(r).data]]
    BY <1>13 DEF GetRef
  <2> DEFINE x == [haloPresence |-> Oth(r).haloPresence, haloStatus |-> status,
                   data |-> Oth(r).data]
  <2>3. Oth(r) \in FieldTypes
    BY <1>1, <1>3, <2>1 DEF Oth
  <2>4. x \in FieldTypes
    BY <2>3 DEF FieldTypes, HaloStatus
  <2>5. field' = [field EXCEPT ![r] = With(f, n, x)]
    BY <2>2 DEF With
  <2> HIDE DEF x
  <2>6. TypedIn(r, With(f, n, x), h)
    BY <1>1, <2>4, TypedField
  <2>7. heap' = heap /\ Done(r) /\ UNCHANGED <<nOps, viewUpdated, waiting, channel, course>>
    BY <1>13 DEF GetRef
  <2> QED BY <1>2, <1>7, <2>5, <2>6, <2>7
<1>14. CASE Write(r)
  <2>1. /\ todo[r] # <<>> /\ Overwrite(r, At(r)) /\ HasRoom(r, Mine(r).data, "vol")
    BY <1>14 DEF Write, Turn, Ready, InBounds, Touches
  <2> QED BY <1>3, <1>6, <1>10, <2>1 DEF Mine
<1>15. CASE CopyAssign(r)
  <2>1. /\ todo[r] # <<>> /\ Overwrite(r, BlockOf(r, Oth(r)).bulk)
        /\ HasRoom(r, Mine(r).data, "vol") /\ HasRoom(r, Oth(r).data, "vol")
    BY <1>15 DEF CopyAssign, Turn, Ready, InBounds, Touches
  <2>2. BlockOf(r, Oth(r)) \in Blocks(r)
    BY <1>10, <2>1 DEF BlockOf
  <2>3. BlockOf(r, Oth(r)).bulk \in Nat
    BY <2>2 DEF Blocks
  <2> QED BY <1>6, <1>10, <2>1, <2>3 DEF Mine
<1>16. CASE MoveAssign(r)
  <2>1. todo[r] # <<>> /\ op.kind = "moveAssign"
    BY <1>16 DEF MoveAssign, Turn, Ready
  <2> DEFINE f2 == [field[r] EXCEPT
                       ![n].data = Taking(@, field[r][m].data.block, field[r][m].data.allocated),
                       ![m].data = Taking(@, field[r][n].data.block, FALSE)]
  <2>2. /\ field' = [field EXCEPT
                       ![r][n].data = Taking(@, field[r][m].data.block, field[r][m].data.allocated),
                       ![r][m].data = Taking(@, field[r][n].data.block, FALSE)]
        /\ heap' = heap /\ Done(r) /\ UNCHANGED <<nOps, viewUpdated, waiting, channel>>
    BY <1>16 DEF MoveAssign, Mine, Oth
  <2>3. n # m /\ n \in Names /\ m \in Names
    BY <1>3, <2>1
  <2>4. field' = [field EXCEPT ![r] = f2]
    BY <1>1, <2>2
  <2>5. TypedIn(r, f2, h)
    BY <1>1, <2>3, TypedSwap
  <2>6. course' \in [Ranks -> Courses]
    BY <1>9, <1>16 DEF MoveAssign
  <2> HIDE DEF f2
  <2> QED BY <1>7, <2>2, <2>4, <2>5, <2>6
<1>17. CASE InvalidateHalo(r)
  <2>1. /\ todo[r] # <<>> /\ field' = [field EXCEPT ![r][n].haloStatus = "NOT_UPDATED"]
        /\ heap' = heap /\ Done(r) /\ UNCHANGED <<nOps, viewUpdated, waiting, channel, course>>
    BY <1>17 DEF InvalidateHalo, Turn, Ready
  <2>2. field' = [field EXCEPT ![r] = WithStatus(f, n, "NOT_UPDATED")]
    BY <2>1 DEF WithStatus
  <2>3. TypedIn(r, WithStatus(f, n, "NOT_UPDATED"), h)
    BY <1>1, <1>3, <2>1, TypedStatus DEF HaloStatus
  <2> QED BY <1>2, <1>7, <2>1, <2>2, <2>3
<1>18. CASE Refused(r)
  BY <1>2, <1>8, <1>18 DEF Refused, Crash
<1>19. CASE EarlyReturn(r)
  BY <1>2, <1>8, <1>9, <1>19 DEF EarlyReturn
<1>20. CASE StartUpdate(r)
  <2> DEFINE bulk == BlockOf(r, Mine(r)).bulk
  <2>1. /\ todo[r] # <<>> /\ HasRoom(r, Mine(r).data, "vol")
    BY <1>20 DEF StartUpdate, Turn, Ready, InBounds, Touches
  <2>2. BlockOf(r, Mine(r)) \in Blocks(r)
    BY <1>10, <2>1 DEF BlockOf
  <2>3. bulk \in Nat
    BY <2>2 DEF Blocks
  <2>4. channel' = [l \in DOMAIN channel |->
                     IF l[1] = r /\ l[2] \in Neighbours[r] THEN Append(channel[l], bulk)
                     ELSE channel[l]]
    BY <1>20 DEF StartUpdate
  <2> HIDE DEF bulk
  <2>5. channel' \in [Ranks \X Ranks -> Seq(Nat)]
    BY <1>2, <2>3, <2>4
  <2>6. waiting' \in [Ranks -> Names \cup {"none"}]
    BY <1>2, <1>3, <1>20, <2>1 DEF StartUpdate
  <2> QED BY <1>8, <1>9, <1>20, <2>5, <2>6 DEF StartUpdate
<1>21. CASE FinishUpdate(r)
  <2> DEFINE b == field[r][Now(r).name].data.block
             halo == [s \in Neighbours[r] |-> Head(channel[<<s, r>>])]
             h2 == Filled(heap[r], b, halo)
  <2>1. /\ todo[r] # <<>> /\ waiting[r] # "none" /\ HasRoom(r, Mine(r).data, "vol+halo")
        /\ \A s \in Neighbours[r] : channel[<<s, r>>] # <<>>
    BY <1>21 DEF FinishUpdate, Ready, InBounds, Touches
  <2>2. b \in DOMAIN h /\ halo \in [Neighbours[r] -> Nat]
    BY <1>2, <1>10, <2>1, NeighboursAssumption DEF Mine
  <2>3. heap' = [heap EXCEPT ![r] = h2]
    <3>1. heap' = [heap EXCEPT ![r][b].halo = halo, ![r][b].filled = TRUE, ![r][b].dirty = FALSE]
      BY <1>21 DEF FinishUpdate, Mine
    <3>2. h2 = [heap[r] EXCEPT ![b].halo = halo, ![b].filled = TRUE, ![b].dirty = FALSE]
      BY DEF Filled
    <3> HIDE DEF b, h2, halo
    <3> QED BY <1>1, <3>1, <3>2, ZenonT(30)
  <2>4. field' = [field EXCEPT ![r] = WithStatus(f, n, "UPDATED")]
    <3>1. field' = [field EXCEPT ![r][n].haloStatus = "UPDATED"]
      BY <1>21 DEF FinishUpdate
    <3> QED BY <3>1 DEF WithStatus
  <2>5. TypedIn(r, WithStatus(f, n, "UPDATED"), h2)
    <3>1. TypedIn(r, WithStatus(f, n, "UPDATED"), h)
      BY <1>1, <1>3, <2>1, TypedStatus DEF HaloStatus
    <3> QED BY <2>2, <3>1, TypedFilled
  <2>6. channel' \in [Ranks \X Ranks -> Seq(Nat)]
    <3>1. channel' = [l \in Ranks \X Ranks |->
                       IF l[2] = r /\ l[1] \in Neighbours[r] THEN Tail(channel[l])
                       ELSE channel[l]]
      BY <1>21 DEF FinishUpdate, Typed
    <3>2. ASSUME NEW l \in Ranks \X Ranks, l[2] = r, l[1] \in Neighbours[r]
          PROVE  Tail(channel[l]) \in Seq(Nat)
      <4>1. l = <<l[1], r>>
        BY <3>2
      <4>2. channel[l] # <<>> /\ channel[l] \in Seq(Nat)
        BY <1>2, <2>1, <3>2, <4>1
      <4> QED BY <4>2
    <3> QED BY <1>2, <3>1, <3>2
  <2>7. /\ Done(r) /\ UNCHANGED <<nOps, viewUpdated, course>>
        /\ waiting' \in [Ranks -> Names \cup {"none"}]
    BY <1>2, <1>21 DEF FinishUpdate
  <2> HIDE DEF h2
  <2> QED BY <1>2, <2>3, <2>4, <2>5, <2>6, <2>7, TypedStays
<1>22. CASE Destroy(r)
  <2> DEFINE h2 == IF n \in Owners /\ f[n].data.allocated THEN Drop(h, f[n].data.block) ELSE h
  <2>1. heap' = [heap EXCEPT ![r] = h2]
    BY <1>1, <1>22 DEF Destroy, Mine
  <2>2. field' = [field EXCEPT ![r] = With(f, n, NoField)]
    BY <1>22 DEF Destroy, With
  <2>3. TypedIn(r, With(f, n, NoField), h2)
    <3>1. TypedIn(r, With(f, n, NoField), h)
      BY <1>1, NamesApart, TypedField
    <3> QED BY <3>1, TypedDrop
  <2>4. Done(r) /\ UNCHANGED <<nOps, viewUpdated, waiting, channel, course>>
    BY <1>22 DEF Destroy
  <2> HIDE DEF h2
  <2> QED BY <1>2, <2>1, <2>2, <2>3, <2>4, TypedStays
<1>23. CASE GoOutOfBounds(r)
  <2>1. course' \in [Ranks -> Courses]
    BY <1>2, <1>23 DEF GoOutOfBounds, Courses
  <2> QED BY <1>2, <1>8, <1>23, <2>1 DEF GoOutOfBounds
<1>24. CASE Wander(r)
  <2>1. PICK s \in Neighbours[r] : channel' = [channel EXCEPT ![<<r, s>>] = Append(@, Garbage)]
    BY <1>24 DEF Wander
  <2>2. channel' \in [Ranks \X Ranks -> Seq(Nat)]
    BY <1>2, <2>1, NeighboursAssumption DEF Garbage
  <2> QED BY <1>2, <1>8, <1>24, <2>2 DEF Wander
<1> QED BY <1>11, <1>12, <1>13, <1>14, <1>15, <1>16, <1>17, <1>18, <1>19, <1>20, <1>21, <1>22,
           <1>23, <1>24 DEF Step

LEMMA AppendKeeps ==
  ASSUME NEW c \in Seq(Nat), NEW x
  PROVE  Len(c) <= Len(Append(c, x)) /\ \A i \in 1 .. Len(c) : Append(c, x)[i] = c[i]
<1>1. c \in Seq(Nat \cup {x}) /\ x \in Nat \cup {x} /\ Len(c) \in Nat
  OBVIOUS
<1>2. Len(Append(c, x)) = Len(c) + 1 /\ \A i \in 1 .. Len(c) : Append(c, x)[i] = c[i]
  BY <1>1, AppendProperties
<1> QED BY <1>1, <1>2

LEMMA StepStrays ==
  ASSUME Typed, NEW r \in Ranks, Step(r) \/ Wander(r), course'[r] # "sound"
  PROVE  Strays(r)
<1>1. /\ field = [s \in Ranks |-> field[s]] /\ heap = [s \in Ranks |-> heap[s]]
      /\ waiting \in [Ranks -> Names \cup {"none"}] /\ course \in [Ranks -> Courses]
      /\ DOMAIN channel = Ranks \X Ranks /\ \A l \in Ranks \X Ranks : channel[l] \in Seq(Nat)
  BY DEF Typed
<1>2. \A q \in Neighbours[r] : q \in Ranks /\ q # r /\ channel[<<r, q>>] \in Seq(Nat)
  BY <1>1, NeighboursAssumption
<1>3. ASSUME NEW refused, Check(r, refused) PROVE \A s \in Ranks \ {r} : course'[s] = course[s]
  BY <1>1, <1>3 DEF Check
<1>4. ASSUME \A s \in Ranks \ {r} : /\ course'[s] = course[s] /\ field'[s] = field[s]
                                    /\ heap'[s] = heap[s] /\ waiting'[s] = waiting[s],
             todo' = todo \/ (todo[r] # <<>> /\ Done(r)),
             UNCHANGED <<scope, nOps, viewUpdated, channel>>
      PROVE  Strays(r)
  BY <1>2, <1>4 DEF Strays
<1>5. CASE Construct(r) \/ CopyConstruct(r)
  BY <1>1, <1>4, <1>5 DEF Construct, CopyConstruct, Make, Turn, Ready
<1>6. CASE GetRef(r)
  <2>1. \A s \in Ranks \ {r} : field'[s] = field[s]
    BY <1>1, <1>6 DEF GetRef
  <2> QED BY <1>1, <1>4, <1>6, <2>1 DEF GetRef, Turn, Ready
<1>7. CASE Write(r) \/ CopyAssign(r)
  <2>1. PICK value : Overwrite(r, value) /\ todo[r] # <<>>
    BY <1>7 DEF Write, CopyAssign, Turn, Ready
  <2>2. \A s \in Ranks \ {r} : heap'[s] = heap[s]
    BY <1>1, <2>1 DEF Overwrite
  <2> QED BY <1>1, <1>4, <2>1, <2>2 DEF Overwrite
<1>8. CASE MoveAssign(r)
  <2>1. \A s \in Ranks \ {r} : field'[s] = field[s]
    BY <1>1, <1>8 DEF MoveAssign
  <2> QED BY <1>1, <1>3, <1>4, <1>8, <2>1 DEF MoveAssign, Turn, Ready
<1>9. CASE InvalidateHalo(r)
  BY <1>1, <1>4, <1>9 DEF InvalidateHalo, Turn, Ready
<1>10. CASE Refused(r)
  BY <1>4, <1>10 DEF Refused, Crash
<1>11. CASE EarlyReturn(r)
  BY <1>3, <1>4, <1>11 DEF EarlyReturn, Turn, Ready
<1>12. CASE StartUpdate(r)
  <2> DEFINE bulk == BlockOf(r, Mine(r)).bulk
  <2>1. \A q, s \in Ranks :
          channel'[<<s, q>>] = IF s = r /\ q \in Neighbours[r] THEN Append(channel[<<s, q>>], bulk)
                               ELSE channel[<<s, q>>]
    BY <1>1, <1>12 DEF StartUpdate
  <2> HIDE DEF bulk
  <2>2. ASSUME NEW q \in Neighbours[r]
        PROVE  /\ Len(channel[<<r, q>>]) <= Len(channel'[<<r, q>>])
               /\ \A i \in 1 .. Len(channel[<<r, q>>]) :
                     channel'[<<r, q>>][i] = channel[<<r, q>>][i]
    <3>1. channel'[<<r, q>>] = Append(channel[<<r, q>>], bulk)
      BY <1>2, <2>1
    <3> QED BY <1>2, <3>1, AppendKeeps
  <2>3. \A q \in Ranks : \A s \in Ranks \ Neighbours[q] : channel'[<<s, q>>] = channel[<<s, q>>]
    BY <2>1, NeighboursAssumption
  <2>4. \A s \in Ranks \ {r} : course'[s] = course[s]
    BY <1>3, <1>12 DEF StartUpdate
  <2>5. \A s \in Ranks \ {r} : waiting'[s] = waiting[s]
    BY <1>1, <1>12 DEF StartUpdate
  <2> QED BY <1>12, <2>1, <2>2, <2>3, <2>4, <2>5 DEF StartUpdate, Strays
<1>13. CASE FinishUpdate(r)
  <2>1. \A q, s \in Ranks :
          channel'[<<s, q>>] = IF q = r /\ s \in Neighbours[r] THEN Tail(channel[<<s, q>>])
                               ELSE channel[<<s, q>>]
    BY <1>1, <1>13 DEF FinishUpdate
  <2>2. \A q \in Neighbours[r] : channel'[<<r, q>>] = channel[<<r, q>>]
    BY <1>2, <2>1
  <2>3. \A q \in Ranks : \A s \in Ranks \ Neighbours[q] : channel'[<<s, q>>] = channel[<<s, q>>]
    BY <2>1
  <2>4. \A s \in Ranks \ {r} : /\ field'[s] = field[s] /\ heap'[s] = heap[s]
                               /\ waiting'[s] = waiting[s]
    BY <1>1, <1>13 DEF FinishUpdate
  <2>5. todo[r] # <<>> /\ Done(r) /\ UNCHANGED <<scope, nOps, viewUpdated, course>>
    BY <1>13 DEF FinishUpdate, Ready
  <2> QED BY <1>2, <2>1, <2>2, <2>3, <2>4, <2>5 DEF Strays
<1>14. CASE Destroy(r)
  <2>1. \A s \in Ranks \ {r} : field'[s] = field[s] /\ heap'[s] = heap[s]
    BY <1>1, <1>14 DEF Destroy
  <2> QED BY <1>1, <1>4, <1>14, <2>1 DEF Destroy, Turn, Ready
<1>15. CASE GoOutOfBounds(r)
  BY <1>1, <1>4, <1>15 DEF GoOutOfBounds
<1>16. CASE Wander(r)
  <2>1. PICK t \in Neighbours[r] : channel' = [channel EXCEPT ![<<r, t>>] = Append(@, Garbage)]
    BY <1>16 DEF Wander
  <2>2. \A q, s \in Ranks :
          channel'[<<s, q>>] = IF s = r /\ q = t THEN Append(channel[<<r, t>>], Garbage)
                               ELSE channel[<<s, q>>]
    BY <1>1, <1>2, <2>1
  <2>3. ASSUME NEW q \in Neighbours[r]
        PROVE  /\ Len(channel[<<r, q>>]) <= Len(channel'[<<r, q>>])
               /\ \A i \in 1 .. Len(channel[<<r, q>>]) :
                     channel'[<<r, q>>][i] = channel[<<r, q>>][i]
    <3>1. CASE q = t
      <4>1. channel'[<<r, q>>] = Append(channel[<<r, q>>], Garbage)
        BY <1>2, <2>2, <3>1
      <4> QED BY <1>2, <4>1, AppendKeeps
    <3>2. CASE q # t
      BY <1>2, <2>2, <3>2
    <3> QED BY <3>1, <3>2
  <2>4. \A q \in Ranks : \A s \in Ranks \ Neighbours[q] : channel'[<<s, q>>] = channel[<<s, q>>]
    BY <2>2, NeighboursAssumption
  <2>5. UNCHANGED <<scope, nOps, viewUpdated, todo, field, heap, waiting, course>>
    BY <1>16 DEF Wander
  <2> QED BY <2>2, <2>3, <2>4, <2>5 DEF Strays
<1> QED BY <1>5, <1>6, <1>7, <1>8, <1>9, <1>10, <1>11, <1>12, <1>13, <1>14, <1>15, <1>16 DEF Step

\* A rank that has passed no check it failed does not go out of its blocks.
LEMMA SoundInBounds ==
  ASSUME NEW P, NEW A, NEW H, Typed, Placed(P, A, H), NEW r \in Ranks, course[r] = "sound",
         todo[r] # <<>>
  PROVE  InBounds(r)
<1> DEFINE a == A[Pos(r)]
           n == Now(r).name
           m == Now(r).oth
<1>1. /\ TypedIn(r, field[r], heap[r]) /\ Scoped(a) /\ ObjectsIn(field[r], heap[r], Pos(r), a)
      /\ Pos(r) \in Nat /\ Now(r) \in Ops /\ AllowedIn(Now(r), a) /\ Waits(r)
  BY NextOperation DEF Placed, Sound
<1>2. n \in Names
  BY <1>1, OpsNames
<1> HIDE DEF a, n, m
<1>3. ASSUME NEW q \in Names, a[q] # "none"
      PROVE  /\ HasRoom(r, field[r][q].data, "vol")
             /\ field[r][q].haloPresence = "WITH_HALO" => HasRoom(r, field[r][q].data, "vol+halo")
  <2>1. /\ field[r][q].haloPresence \in HaloPresence /\ field[r][q].data.block \in DOMAIN heap[r]
        /\ heap[r][field[r][q].data.block].sites = GetNAllocatedSites(field[r][q].haloPresence)
    BY <1>1, <1>3, NameHasBlock
  <2> QED BY <2>1 DEF HasRoom, GetNAllocatedSites, HaloPresence
<1>4. SUFFICES ASSUME NEW t \in Touches(r) PROVE HasRoom(r, t[1], t[2])
  BY DEF InBounds
<1>5. CASE waiting[r] # "none"
  <2>1. /\ Now(r).kind = "update" /\ Mine(r).haloPresence = "WITH_HALO"
        /\ t = <<Mine(r).data, "vol+halo">>
    BY <1>1, <1>4, <1>5 DEF Waits, Touches
  <2>2. a[n] # "none"
    BY <1>1, <2>1 DEF AllowedIn, Making, n
  <2> QED BY <1>2, <1>3, <2>1, <2>2 DEF Mine, n
<1>6. CASE waiting[r] = "none" /\ Now(r).kind = "copyConstruct"
  <2>1. t = <<Oth(r).data, Oth(r).data.sites>>
    BY <1>4, <1>6 DEF Touches
  <2>2. m \in Owners /\ a[m] # "none"
    BY <1>1, <1>6, OpsNames DEF AllowedIn, m
  <2>3. /\ field[r][m].data.block \in DOMAIN heap[r]
        /\ heap[r][field[r][m].data.block].sites = field[r][m].data.sites
    BY <1>1, <2>2 DEF ObjectsIn
  <2> QED BY <2>1, <2>3 DEF HasRoom, Oth, m
<1>7. CASE waiting[r] = "none" /\ Now(r).kind # "copyConstruct"
  <2>1. \/ Now(r).kind \in {"copyAssign", "write", "update"} /\ t = <<Mine(r).data, "vol">>
        \/ Now(r).kind = "copyAssign" /\ t = <<Oth(r).data, "vol">>
    BY <1>4, <1>7 DEF Touches
  <2>2. Now(r).kind \in {"copyAssign", "write", "update"} => a[n] # "none"
    BY <1>1 DEF AllowedIn, Making, n
  <2>3. Now(r).kind = "copyAssign" => a[m] # "none" /\ m \in Names
    BY <1>1, OpsNames, NamesApart DEF AllowedIn, m
  <2> QED BY <1>2, <1>3, <2>1, <2>2, <2>3 DEF Mine, Oth, n, m
<1> QED BY <1>5, <1>6, <1>7

------------------------------------------------------------------------------
(* The inductive invariant holds.                                          *)

LEMMA ChosenIsAllowed ==
  ASSUME Scoped(scope), ChooseNew \/ ChooseView \/ ChooseUse \/ ChooseAssign \/ ChooseDestroy
  PROVE  \E op \in Ops : AllowedIn(op, scope) /\ Choose(op, ScopeAfter(op, scope))
<1> USE DEF AllowedIn, ScopeAfter, With, Making, Alive
<1>1. ASSUME NEW n \in Owners, ~Alive(n), NEW presence \in HaloPresence,
             Choose([kind |-> "construct", name |-> n, haloPresence |-> presence],
                    [scope EXCEPT ![n] = n])
      PROVE  \E op \in Ops : AllowedIn(op, scope) /\ Choose(op, ScopeAfter(op, scope))
  <2> DEFINE op == [kind |-> "construct", name |-> n, haloPresence |-> presence]
  <2>1. op \in Ops
    BY DEF Ops
  <2>2. AllowedIn(op, scope) /\ ScopeAfter(op, scope) = [scope EXCEPT ![n] = n]
    BY <1>1
  <2> QED BY <1>1, <2>1, <2>2
<1>2. ASSUME NEW n \in Owners, ~Alive(n), NEW m \in Owners, Alive(m),
             Choose([kind |-> "copyConstruct", name |-> n, oth |-> m], [scope EXCEPT ![n] = n])
      PROVE  \E op \in Ops : AllowedIn(op, scope) /\ Choose(op, ScopeAfter(op, scope))
  <2> DEFINE op == [kind |-> "copyConstruct", name |-> n, oth |-> m]
  <2>1. op \in Ops
    BY DEF Ops
  <2>2. AllowedIn(op, scope) /\ ScopeAfter(op, scope) = [scope EXCEPT ![n] = n]
    BY <1>2
  <2> QED BY <1>2, <2>1, <2>2
<1>3. ASSUME NEW n \in Views, ~Alive(n), NEW m \in Owners, Alive(m),
             Choose([kind |-> "getRef", name |-> n, oth |-> m], [scope EXCEPT ![n] = m])
      PROVE  \E op \in Ops : AllowedIn(op, scope) /\ Choose(op, ScopeAfter(op, scope))
  <2> DEFINE op == [kind |-> "getRef", name |-> n, oth |-> m]
  <2>1. op \in Ops
    BY DEF Ops
  <2>2. AllowedIn(op, scope) /\ ScopeAfter(op, scope) = [scope EXCEPT ![n] = m]
    BY <1>3
  <2> QED BY <1>3, <2>1, <2>2
<1>4. ASSUME NEW n \in Names, NEW kind \in {"write", "update", "invalidate"}, Alive(n),
             Choose([kind |-> kind, name |-> n], scope)
      PROVE  \E op \in Ops : AllowedIn(op, scope) /\ Choose(op, ScopeAfter(op, scope))
  <2> DEFINE op == [kind |-> kind, name |-> n]
  <2>1. op \in Ops
    BY DEF Ops
  <2>2. AllowedIn(op, scope) /\ ScopeAfter(op, scope) = scope
    BY <1>4
  <2> QED BY <1>4, <2>1, <2>2
<1>5. ASSUME NEW n \in Owners, NEW m \in Owners, NEW kind \in {"copyAssign", "moveAssign"},
             n # m, Alive(n), Alive(m), Choose([kind |-> kind, name |-> n, oth |-> m], scope)
      PROVE  \E op \in Ops : AllowedIn(op, scope) /\ Choose(op, ScopeAfter(op, scope))
  <2> DEFINE op == [kind |-> kind, name |-> n, oth |-> m]
  <2>1. op \in Ops
    BY DEF Ops
  <2>2. AllowedIn(op, scope) /\ ScopeAfter(op, scope) = scope
    BY <1>5
  <2> QED BY <1>5, <2>1, <2>2
<1>6. ASSUME NEW n \in Names, Alive(n), \A v \in Views \ {n} : scope[v] # n,
             Choose([kind |-> "destroy", name |-> n], [scope EXCEPT ![n] = "none"])
      PROVE  \E op \in Ops : AllowedIn(op, scope) /\ Choose(op, ScopeAfter(op, scope))
  <2> DEFINE op == [kind |-> "destroy", name |-> n]
  <2>1. op \in Ops
    BY DEF Ops
  <2>2. AllowedIn(op, scope) /\ ScopeAfter(op, scope) = [scope EXCEPT ![n] = "none"]
    BY <1>6
  <2> QED BY <1>6, <2>1, <2>2
<1> QED BY <1>1, <1>2, <1>3, <1>4, <1>5, <1>6
       DEF ChooseNew, ChooseView, ChooseUse, ChooseAssign, ChooseDestroy

\* A rank that does not print comes to an operation that is refused.
LEMMA RefusedIsPast ==
  ASSUME NEW P, NEW A, NEW H, Typed, Placed(P, A, H), NEW r \in Ranks, course[r] = "sound",
         todo[r] # <<>>, r \notin Printing,
         Now(r).kind = "moveAssign" \/ (Now(r).kind = "update" /\ NoHalo(r))
  PROVE  PastRefusal(r, P, H)
<1>1. /\ Pos(r) \in 0 .. nOps - 1 /\ Pos(r) \in Nat /\ nOps \in Nat
      /\ Now(r) = P[Pos(r) + 1] /\ Now(r) \in Ops /\ PresentIn(field[r], H[Pos(r)])
  BY NextOperation DEF Typed
<1>2. Now(r).name \in Names
  BY <1>1, OpsNames
<1>3. RefusedIn(Now(r), H[Pos(r)])
  BY <1>1, <1>2 DEF RefusedIn, NoHalo, Mine, PresentIn
<1>4. Pos(r) + 1 \in 1 .. nOps /\ (Pos(r) + 1) - 1 = Pos(r)
  BY <1>1
<1> QED BY <1>1, <1>3, <1>4 DEF PastRefusal

LEMMA StepKeeps ==
  ASSUME NEW P, NEW A, NEW H, Typed, Placed(P, A, H), NEW r \in Ranks, Step(r) \/ Wander(r)
  PROVE  /\ Typed' /\ Placed(P, A, H)' /\ viewUpdated' = viewUpdated
         /\ \A F, B, E : Agreed(P, A, H, F, B, E) => Agreed(P, A, H, F, B, E)'
<1> DEFINE Kept == /\ Typed' /\ Placed(P, A, H)'
                   /\ \A F, B, E : Agreed(P, A, H, F, B, E) => Agreed(P, A, H, F, B, E)'
<1>1. viewUpdated' = viewUpdated
  BY DEF Step, Wander, Construct, CopyConstruct, Make, GetRef, Write, CopyAssign, Overwrite,
         MoveAssign, InvalidateHalo, Refused, Crash, EarlyReturn, StartUpdate, FinishUpdate,
         Destroy, GoOutOfBounds
<1> SUFFICES Kept
  BY <1>1
<1>2. course \in [Ranks -> Courses]
  BY DEF Typed
<1>3. ASSUME PastRefusal(r, P, H), course'[r] # "sound" PROVE Kept
  BY <1>3, StepTyped, StepStrays, StraysKeep
<1>4. CASE course[r] # "sound"
  <2>1. PastRefusal(r, P, H)
    BY <1>4 DEF Placed
  <2>2. ASSUME NEW refused, Check(r, refused) PROVE course'[r] # "sound"
    BY <1>2, <1>4, <2>2 DEF Check
  <2>3. course'[r] # "sound"
    <3>1. CASE UNCHANGED course
      BY <1>4, <3>1
    <3>2. CASE \E refused : Check(r, refused)
      BY <2>2, <3>2
    <3>3. CASE GoOutOfBounds(r)
      BY <1>2, <3>3 DEF GoOutOfBounds
    <3> QED BY <3>1, <3>2, <3>3
         DEF Step, Wander, Construct, CopyConstruct, Make, GetRef, Write, CopyAssign, Overwrite,
             MoveAssign, InvalidateHalo, Refused, Crash, EarlyReturn, StartUpdate, FinishUpdate,
             Destroy
  <2> QED BY <1>1, <1>3, <2>1, <2>3
<1>5. CASE course[r] = "sound"
  <2>1. ASSUME \E f2, h2 : Moves(r, f2, h2) /\ Fits(r, P, A, H, f2, h2),
               NEW kind, Turn(r, kind), UNCHANGED <<waiting, channel>>
        PROVE  Kept
    <3>1. PICK f2, h2 : Moves(r, f2, h2) /\ Fits(r, P, A, H, f2, h2)
      BY <2>1
    <3>2. todo[r] # <<>> /\ waiting[r] = "none"
      BY <2>1 DEF Turn, Ready
    <3> QED BY <1>5, <2>1, <3>1, <3>2, RankStaysInStep
  <2>2. ASSUME todo[r] # <<>>, Check(r, TRUE),
               Now(r).kind = "moveAssign" \/ (Now(r).kind = "update" /\ NoHalo(r))
        PROVE  Kept
    <3>1. r \notin Printing /\ course'[r] # "sound"
      BY <1>2, <2>2 DEF Check
    <3> QED BY <1>3, <1>5, <2>2, <3>1, RefusedIsPast
  <2>3. CASE Construct(r)
    BY <1>5, <2>1, <2>3, ConstructFits DEF Construct, Make
  <2>4. CASE CopyConstruct(r)
    BY <1>5, <2>1, <2>4, CopyConstructFits DEF CopyConstruct, Make
  <2>5. CASE GetRef(r)
    BY <1>5, <2>1, <2>5, GetRefFits DEF GetRef
  <2>6. CASE Write(r)
    BY <1>5, <2>1, <2>6, WriteFits DEF Write, Overwrite
  <2>7. CASE CopyAssign(r)
    BY <1>5, <2>1, <2>7, CopyAssignFits DEF CopyAssign, Overwrite
  <2>8. CASE MoveAssign(r)
    <3>1. /\ todo[r] # <<>> /\ Now(r).kind = "moveAssign"
          /\ Check(r, SwapIsRefused(Mine(r).data, Oth(r).data))
      BY <2>8 DEF MoveAssign, Turn, Ready
    <3>2. SwapIsRefused(Mine(r).data, Oth(r).data)
      <4>1. Mine(r) \in FieldTypes
        BY <3>1, NextOperation, OpsNames DEF Mine, TypedIn
      <4>2. MovedFrom(Mine(r).data).allocated = FALSE
        BY <4>1 DEF MovedFrom, FieldTypes
      <4> QED BY <4>2 DEF SwapIsRefused, CanMoveAssign
    <3>3. Check(r, TRUE)
      BY <3>1, <3>2 DEF Check
    <3> QED BY <2>2, <3>1, <3>3
  <2>9. CASE InvalidateHalo(r)
    BY <1>5, <2>1, <2>9, InvalidateHaloFits DEF InvalidateHalo
  <2>10. CASE Refused(r)
    <3>1. UNCHANGED <<scope, nOps, viewUpdated, todo, field, heap, waiting, channel, course>>
      BY <2>10 DEF Refused, Crash
    <3> QED BY <3>1, StutteringKeeps
  <2>11. CASE EarlyReturn(r)
    <3>1. Turn(r, "update") /\ Check(r, NoHalo(r)) /\ UNCHANGED <<waiting, channel>>
      BY <2>11 DEF EarlyReturn
    <3>2. CASE NoHalo(r)
      <4>1. Check(r, TRUE)
        BY <3>1, <3>2 DEF Check
      <4> QED BY <2>2, <3>1, <3>2, <4>1 DEF Turn, Ready
    <3>3. CASE ~NoHalo(r)
      BY <1>5, <2>1, <2>11, <3>1, <3>3, EarlyReturnFits
    <3> QED BY <3>2, <3>3
  <2>12. CASE StartUpdate(r)
    <3>1. Turn(r, "update") /\ Check(r, NoHalo(r))
      BY <2>12 DEF StartUpdate
    <3>2. CASE NoHalo(r)
      <4>1. Check(r, TRUE)
        BY <3>1, <3>2 DEF Check
      <4> QED BY <2>2, <3>1, <3>2, <4>1 DEF Turn, Ready
    <3>3. CASE ~NoHalo(r)
      BY <1>5, <2>12, <3>3, StartUpdateKeeps
    <3> QED BY <3>2, <3>3
  <2>13. CASE FinishUpdate(r)
    BY <1>5, <2>13, FinishUpdateKeeps
  <2>14. CASE Destroy(r)
    BY <1>5, <2>1, <2>14, DestroyFits DEF Destroy
  <2>15. ~GoOutOfBounds(r) /\ ~Wander(r)
    BY <1>5, SoundInBounds DEF GoOutOfBounds, Ready, Wander
  <2> QED BY <2>3, <2>4, <2>5, <2>6, <2>7, <2>8, <2>9, <2>10, <2>11, <2>12, <2>13, <2>14, <2>15
          DEF Step
<1> QED BY <1>1, <1>4, <1>5

LEMMA ChooseKeeps ==
  ASSUME NEW P, NEW A, NEW H, Typed, Placed(P, A, H), NEW op \in Ops, AllowedIn(op, scope),
         Choose(op, ScopeAfter(op, scope))
  PROVE  /\ RoomInv'
         /\ \A F, B, E : Agreed(P, A, H, F, B, E) => StepInv'
         /\ ~viewUpdated' => ~viewUpdated
<1>1. PICK N \in Nat : N = nOps
  BY DEF Typed
<1>2. PICK P2 : P2 = Longer(P, 1, N, op)
  OBVIOUS
<1>3. PICK A2 : A2 = Longer(A, 0, N, ScopeAfter(op, scope))
  OBVIOUS
<1>4. PICK H2 : H2 = Longer(H, 0, N, PresenceAfter(op, H[N]))
  OBVIOUS
<1>5. /\ Typed /\ Placed(P, A, H) /\ op \in Ops /\ AllowedIn(op, scope)
      /\ Choose(op, ScopeAfter(op, scope))
  OBVIOUS
<1>6. Typed' /\ Placed(P2, A2, H2)'
  BY ONLY <1>1, <1>2, <1>3, <1>4, <1>5, ChooseKeepsPlaces
<1>7. ASSUME NEW F, NEW B, NEW E, Agreed(P, A, H, F, B, E), ~viewUpdated'
      PROVE  \E F2, B2, E2 : Agreed(P2, A2, H2, F2, B2, E2)'
  <2>1. PICK F2 : F2 = Longer(F, 0, N, FieldsAfter(op, N + 1, F[N]))
    OBVIOUS
  <2>2. PICK B2 : B2 = Longer(B, 0, N, BulksAfter(op, N + 1, scope, F[N], B[N]))
    OBVIOUS
  <2>3. PICK E2 : E2 = Longer(E, 0, N, E[N] + (IF Exchanges(op, F[N]) THEN 1 ELSE 0))
    OBVIOUS
  <2>4. Agreed(P2, A2, H2, F2, B2, E2)'
    BY ONLY <1>1, <1>2, <1>3, <1>4, <1>5, <1>7, <2>1, <2>2, <2>3, ChooseKeepsStep
  <2> QED BY <2>4
<1>8. ~viewUpdated' => ~viewUpdated
  BY DEF Choose
<1> QED BY <1>6, <1>7, <1>8 DEF RoomInv, StepInv

LEMMA InitHolds ==
  Init => RoomInv /\ StepInv
<1> SUFFICES ASSUME Init PROVE RoomInv /\ StepInv
  OBVIOUS
<1> USE DEF Init
<1>1. /\ nOps = 0 /\ \A r \in Ranks : /\ todo[r] = <<>> /\ Len(todo[r]) = 0 /\ Pos(r) = 0
                                      /\ waiting[r] = "none" /\ DOMAIN heap[r] = {}
                                      /\ field[r] = [n \in Names |-> NoField]
                                      /\ course[r] = "sound"
  <2>1. nOps = 0
    OBVIOUS
  <2>2. ASSUME NEW r \in Ranks
        PROVE  /\ todo[r] = <<>> /\ waiting[r] = "none" /\ heap[r] = EmptyMap
               /\ field[r] = [n \in Names |-> NoField] /\ course[r] = "sound"
    OBVIOUS
  <2> HIDE DEF Init
  <2>3. ASSUME NEW r \in Ranks PROVE Len(todo[r]) = 0 /\ Pos(r) = 0
    <3>1. Len(todo[r]) = 0
      BY <2>2
    <3>2. 0 - 0 = 0
      OBVIOUS
    <3>3. Pos(r) = 0
      BY <2>1, <3>1, <3>2 DEF Pos
    <3> QED BY <3>1, <3>3
  <2>4. ASSUME NEW r \in Ranks PROVE DOMAIN heap[r] = {}
    BY <2>2 DEF EmptyMap
  <2> QED BY <2>1, <2>2, <2>3, <2>4
<1>2. Typed
  <2>1. ASSUME NEW r \in Ranks PROVE TypedIn(r, field[r], heap[r])
    <3>1. field[r] \in [Names -> FieldTypes]
      BY <1>1, NamesApart
    <3>2. heap[r] \in [DOMAIN heap[r] -> Blocks(r)]
      BY DEF EmptyMap
    <3> QED BY <3>1, <3>2 DEF TypedIn
  <2>2. /\ waiting \in [Ranks -> Names \cup {"none"}] /\ channel \in [Ranks \X Ranks -> Seq(Nat)]
        /\ course \in [Ranks -> Courses]
    BY DEF Courses
  <2> QED BY <2>1, <2>2 DEF Typed
<1>3. PICK P : P = [k \in 1 .. 0 |-> k]
  OBVIOUS
<1>4. PICK A : A = [k \in 0 .. 0 |-> [n \in Names |-> "none"]]
  OBVIOUS
<1>5. A[0] = [n \in Names |-> "none"] /\ A[0] = scope /\ Scoped(A[0])
  <2>1. A[0] = [n \in Names |-> "none"]
    BY <1>4
  <2> QED BY <2>1, NamesApart DEF Scoped
<1>6. Program(P, A)
  <2>1. P \in [1 .. nOps -> Ops]
    BY <1>1, <1>3
  <2> QED BY <1>1, <1>5, <2>1 DEF Program
<1>7. Queued(P)
  BY <1>1 DEF Queued
<1>8. PICK H : H = [k \in 0 .. 0 |-> [n \in Names |-> "none"]]
  OBVIOUS
<1>9. Presences(P, H) /\ H[0] = [n \in Names |-> "none"]
  BY <1>1, <1>8 DEF Presences
<1>10. ASSUME NEW r \in Ranks PROVE Sound(r, P, A, H)
  <2>1. Waits(r)
    BY <1>1 DEF Waits
  <2>2. ObjectsIn(field[r], heap[r], 0, A[0])
    BY <1>1, <1>5, NamesApart DEF ObjectsIn
  <2>3. PresentIn(field[r], H[0])
    BY <1>1, <1>9 DEF PresentIn, NoField
  <2>4. Accepted(0, P, H)
    BY DEF Accepted
  <2> QED BY <1>1, <2>1, <2>2, <2>3, <2>4 DEF Sound
<1>11. Placed(P, A, H)
  BY <1>1, <1>6, <1>7, <1>9, <1>10 DEF Placed
<1>12. PICK F : F = [k \in 0 .. 0 |-> [n \in Owners |-> NoField]]
  OBVIOUS
<1>13. PICK B : B = [k \in 0 .. 0 |-> EmptyMap]
  OBVIOUS
<1>14. PICK E : E = [k \in 0 .. 0 |-> 0]
  OBVIOUS
<1>15. F[0] = [n \in Owners |-> NoField] /\ B[0] = EmptyMap /\ E[0] = 0
  BY <1>12, <1>13, <1>14
<1>16. Shared(P, A, F, B, E)
  BY <1>1, <1>15 DEF Shared
<1>17. ASSUME NEW r \in Ranks
       PROVE  /\ InStepIn(field[r], heap[r], F[Pos(r)], B[Pos(r)])
              /\ CurrentIn(r, field[r], heap[r])
  <2>1. InStepIn(field[r], heap[r], F[0], B[0])
    BY <1>1, <1>15, NamesApart DEF InStepIn, EmptyMap
  <2>2. CurrentIn(r, field[r], heap[r])
    BY <1>1, NamesApart DEF CurrentIn, NoField
  <2> QED BY <1>1, <2>1, <2>2
<1>18. Messages(P, H, F, B, E)
  <2>1. \A r \in Ranks : Sent(r, E) = 0 /\ Received(r, E) = 0
    BY <1>1, <1>15 DEF Sent, Received
  <2>2. \A s, r \in Ranks : channel[<<s, r>>] = <<>>
    OBVIOUS
  <2>3. \A r \in Ranks : \A s \in Neighbours[r] : s \in Ranks
    BY NeighboursAssumption
  <2> QED BY <1>1, <2>1, <2>2, <2>3 DEF Messages
<1>19. Agreed(P, A, H, F, B, E)
  BY <1>16, <1>17, <1>18 DEF Agreed
<1> QED BY <1>2, <1>11, <1>19 DEF RoomInv, StepInv

LEMMA NextHolds ==
  RoomInv /\ [Next]_vars => RoomInv' /\ (StepInv => StepInv')
<1> SUFFICES ASSUME RoomInv, [Next]_vars PROVE RoomInv' /\ (StepInv => StepInv')
  OBVIOUS
<1>1. PICK P, A, H : Placed(P, A, H)
  BY DEF RoomInv
<1>2. Typed
  BY DEF RoomInv
<1>3. CASE ChooseNew \/ ChooseView \/ ChooseUse \/ ChooseAssign \/ ChooseDestroy
  <2>1. Scoped(scope)
    BY <1>1, <1>2 DEF Placed, Program, Typed
  <2>2. PICK op \in Ops : AllowedIn(op, scope) /\ Choose(op, ScopeAfter(op, scope))
    BY <1>3, <2>1, ChosenIsAllowed
  <2>3. RoomInv' /\ (~viewUpdated' => ~viewUpdated)
    BY <1>1, <1>2, <2>2, ChooseKeeps
  <2>4. ASSUME StepInv PROVE StepInv'
    <3>1. CASE viewUpdated'
      BY <3>1 DEF StepInv
    <3>2. CASE ~viewUpdated'
      <4>1. PICK P1, A1, H1, F, B, E : Placed(P1, A1, H1) /\ Agreed(P1, A1, H1, F, B, E)
        BY <2>3, <2>4, <3>2 DEF StepInv
      <4> QED BY <1>2, <2>2, <4>1, ChooseKeeps
    <3> QED BY <3>1, <3>2
  <2> QED BY <2>3, <2>4
<1>4. ASSUME \A P1, A1, H1 : Placed(P1, A1, H1) =>
                /\ Typed' /\ Placed(P1, A1, H1)' /\ viewUpdated' = viewUpdated
                /\ \A F, B, E : Agreed(P1, A1, H1, F, B, E) => Agreed(P1, A1, H1, F, B, E)'
      PROVE  RoomInv' /\ (StepInv => StepInv')
  <2>1. RoomInv' /\ viewUpdated' = viewUpdated
    BY <1>1, <1>4 DEF RoomInv
  <2>2. ASSUME StepInv, ~viewUpdated'
        PROVE  \E P1, A1, H1, F, B, E : Placed(P1, A1, H1)' /\ Agreed(P1, A1, H1, F, B, E)'
    <3>1. PICK P1, A1, H1, F, B, E : Placed(P1, A1, H1) /\ Agreed(P1, A1, H1, F, B, E)
      BY <2>1, <2>2 DEF StepInv
    <3>2. Placed(P1, A1, H1)' /\ Agreed(P1, A1, H1, F, B, E)'
      BY <1>4, <3>1
    <3> QED BY <3>2
  <2> QED BY <2>1, <2>2 DEF StepInv
<1>5. CASE \E r \in Ranks : Step(r) \/ Wander(r)
  BY <1>2, <1>4, <1>5, StepKeeps
<1>6. CASE UNCHANGED vars
  BY <1>2, <1>4, <1>6, StutteringKeeps DEF vars
<1> QED BY <1>3, <1>5, <1>6 DEF Next

\* No rank that prints overtakes one that has gone past a refusal: it comes to the same
\* operation, and ends the program.
LEMMA FollowedIsSound ==
  ASSUME NEW P, NEW A, NEW H, Typed, Placed(P, A, H), NEW r \in Ranks, Followed(r)
  PROVE  course[r] = "sound"
<1>1. SUFFICES ASSUME course[r] # "sound" PROVE FALSE
  OBVIOUS
<1>2. PICK j \in 1 .. nOps : j <= Pos(r) + 1 /\ RefusedIn(P[j], H[j - 1])
  BY <1>1 DEF Placed, PastRefusal
<1>3. PICK s \in Printing : Len(todo[s]) < Len(todo[r])
  BY <1>1 DEF Followed
<1>4. s \in Ranks
  BY PrintingAssumption
<1>5. course[s] = "sound"
  BY <1>4 DEF Placed, PastRefusal
<1>6. Accepted(Pos(s), P, H)
  BY <1>4, <1>5 DEF Placed, Sound
<1>7. Pos(r) + 1 <= Pos(s) /\ Pos(r) \in Int /\ Pos(s) \in Int
  <2> DEFINE lr == Len(todo[r])
             ls == Len(todo[s])
  <2>1. nOps \in Int /\ todo[r] \in Seq(Ops) /\ todo[s] \in Seq(Ops)
    BY <1>4 DEF Typed, Placed, Queued
  <2>2. lr \in Int /\ ls \in Int /\ ls < lr
    BY <1>3, <2>1
  <2>3. Pos(r) = nOps - lr /\ Pos(s) = nOps - ls
    BY DEF Pos
  <2> HIDE DEF lr, ls
  <2> QED BY <2>1, <2>2, <2>3
<1>8. j \in 1 .. Pos(s)
  BY <1>2, <1>7
<1> QED BY <1>2, <1>6, <1>8 DEF Accepted

(* Room and blocks of their own, for what the scopes say there is.         *)
LEMMA RoomWhenPlaced ==
  RoomInv => RoomForHalo
<1> SUFFICES ASSUME RoomInv, NEW r \in Ranks, NEW n \in Names, Followed(r),
                    field[r][n] # NoField
             PROVE  /\ field[r][n].data.block \in DOMAIN heap[r]
                    /\ heap[r][field[r][n].data.block].sites
                         = GetNAllocatedSites(field[r][n].haloPresence)
                    /\ n \in Owners => \A m \in Owners \ {n} :
                          field[r][m].data.block # field[r][n].data.block
  BY DEF RoomForHalo, BlockOf
<1>1. PICK P, A, H : Placed(P, A, H)
  BY DEF RoomInv
<1>2. PICK p : p = Pos(r)
  OBVIOUS
<1>3. PICK a : a = A[p]
  OBVIOUS
<1>4. /\ p \in 0 .. nOps /\ p \in Nat /\ TypedIn(r, field[r], heap[r])
      /\ ObjectsIn(field[r], heap[r], p, a) /\ Scoped(a)
  <2>1. nOps \in Nat /\ todo[r] \in Seq(Ops) /\ Len(todo[r]) <= nOps
    BY <1>1 DEF RoomInv, Typed, Placed, Queued
  <2>2. Len(todo[r]) \in Nat
    BY <2>1
  <2>3. p \in 0 .. nOps /\ p \in Nat
    BY <1>2, <2>1, <2>2 DEF Pos
  <2>4. Sound(r, P, A, H)
    BY <1>1, FollowedIsSound DEF RoomInv, Placed
  <2> QED BY <1>1, <1>2, <1>3, <2>3, <2>4 DEF RoomInv, Typed, Placed, Program, Sound
<1>5. a[n] # "none"
  BY <1>4 DEF ObjectsIn
<1>6. /\ field[r][n].data.block \in DOMAIN heap[r]
      /\ heap[r][field[r][n].data.block].sites = GetNAllocatedSites(field[r][n].haloPresence)
  BY <1>4, <1>5, NameHasBlock
<1>7. n \in Owners => \A m \in Owners \ {n} :
          field[r][m].data.block # field[r][n].data.block
  BY <1>4, <1>5 DEF ObjectsIn
<1> QED BY <1>6, <1>7

------------------------------------------------------------------------------
(* The theorems.                                                           *)

(* Whatever fields a program makes, copies, views, writes and destroys,    *)
(* every rank has what the scopes of its place in the program say: each    *)
(* field on a block of its own (`field.hpp:673`, `field.hpp:694`), each    *)
(* view on the block of its field, also when the halo of a view is         *)
(* updated. The ranks of which it is not so do not print, and have gone    *)
(* past a CRASH (`logger.hpp:170`): of std::swap, that leaves them blocks  *)
(* and flags that do not agree (`dynamicTens.hpp:67`), or of updateHalo.   *)
(* No rank that prints has run the operation refused to them.              *)
THEOREM RoomInvariant ==
  Spec => []RoomInv
<1>1. Init => RoomInv
  BY InitHolds
<1>2. RoomInv /\ [Next]_vars => RoomInv'
  BY NextHolds
<1> QED BY <1>1, <1>2, PTL DEF Spec

(* As long as no halo is updated through a view, what a rank has follows   *)
(* from its place in the program, and the messages on the way to it are    *)
(* those of the exchanges it has still to come to (`field.hpp:621`), also  *)
(* those it gets from a rank that has gone past a CRASH, up to the         *)
(* operation refused: what such a rank sends later is behind them.         *)
THEOREM StepInvariant ==
  Spec => [](RoomInv /\ StepInv)
<1>1. Init => RoomInv /\ StepInv
  BY InitHolds
<1>2. RoomInv /\ StepInv /\ [Next]_vars => (RoomInv /\ StepInv)'
  BY NextHolds
<1> QED BY <1>1, <1>2, PTL DEF Spec

(* The room for a halo is there whenever a field, or a view, says so: no   *)
(* update and no shift goes out of the block (`field.hpp:584`). A rank     *)
(* that does not print can lose it in a move assignment, that goes on past *)
(* the refusal of the tensor and swaps the data without the presence of    *)
(* the halo (`field.hpp:74`): no rank that prints overtakes it, whichever  *)
(* ranks print.                                                            *)
THEOREM RoomIsThere ==
  Spec => []RoomForHalo
<1>1. RoomInv => RoomForHalo
  BY RoomWhenPlaced
<1> QED BY <1>1, RoomInvariant, PTL

(* Ranks that have run the same operations have the same fields with the   *)
(* same values and no message on the way: none has returned early from an  *)
(* update another one took part in (`field.hpp:518`). It is shown of any   *)
(* ranks, neighbours and operations, when no view is updated, and of the   *)
(* ranks that have not gone past a CRASH.                                  *)
THEOREM RanksStayInStep ==
  Spec => []RanksAgree
<1>1. RoomInv /\ StepInv => RanksAgree
  <2> SUFFICES ASSUME RoomInv, StepInv, NEW r \in Ranks, NEW s \in Ranks, ~viewUpdated,
                      Followed(r), Followed(s),
                      Len(todo[r]) = Len(todo[s]), waiting[r] = "none", waiting[s] = "none"
               PROVE  /\ channel[<<r, s>>] = <<>>
                      /\ DOMAIN heap[r] = DOMAIN heap[s]
                      /\ \A n \in Owners :
                            /\ field[r][n] = field[s][n]
                            /\ field[r][n] # NoField =>
                                 heap[r][field[r][n].data.block].bulk
                                   = heap[s][field[s][n].data.block].bulk
    BY DEF RanksAgree, BlockOf
  <2>1. PICK P, A, H, F, B, E : Placed(P, A, H) /\ Agreed(P, A, H, F, B, E)
    BY DEF StepInv
  <2>2. PICK p : p = Pos(r)
    OBVIOUS
  <2>3. p = Pos(s)
    BY <2>2 DEF Pos
  <2>4. course[r] = "sound" /\ course[s] = "sound"
    BY <2>1, FollowedIsSound DEF RoomInv
  <2>5. InStepIn(field[r], heap[r], F[p], B[p]) /\ InStepIn(field[s], heap[s], F[p], B[p])
    BY <2>1, <2>2, <2>3, <2>4 DEF Agreed
  <2>6. channel[<<r, s>>] = <<>>
    <3>1. CASE r \notin Neighbours[s]
      BY <2>1, <3>1 DEF Agreed
    <3>2. CASE r \in Neighbours[s]
      <4>1. nOps \in Nat /\ Len(todo[r]) \in Nat /\ Len(todo[r]) <= nOps
        <5>1. todo[r] \in Seq(Ops) /\ Len(todo[r]) <= nOps /\ nOps \in Nat
          BY <2>1 DEF RoomInv, Typed, Placed, Queued
        <5> QED BY <5>1
      <4>2. p \in 0 .. nOps
        BY <2>2, <4>1 DEF Pos
      <4>3. E[p] \in Nat
        BY <2>1, <4>2 DEF Agreed, Shared
      <4>4. Sent(r, E) = E[p] + 0 /\ Received(s, E) = E[p]
        BY <2>2, <2>3 DEF Sent, Received
      <4>5. Len(channel[<<r, s>>]) = 0
        BY <2>1, <2>4, <3>2, <4>3, <4>4 DEF Agreed, Messages
      <4>6. channel[<<r, s>>] \in Seq(Nat)
        BY DEF RoomInv, Typed
      <4> QED BY <4>5, <4>6, EmptySeq
    <3> QED BY <3>1, <3>2
  <2>7. DOMAIN heap[r] = DOMAIN heap[s] /\ \A n \in Owners : field[r][n] = field[s][n]
    BY <2>5 DEF InStepIn
  <2>8. ASSUME NEW n \in Owners, field[r][n] # NoField
        PROVE  heap[r][field[r][n].data.block].bulk = heap[s][field[s][n].data.block].bulk
    <3>1. RoomForHalo
      BY RoomWhenPlaced
    <3>2. field[r][n].data.block \in DOMAIN heap[r]
      BY <2>8, <3>1 DEF RoomForHalo, Names
    <3> QED BY <2>5, <2>7, <3>2 DEF InStepIn
  <2> QED BY <2>6, <2>7, <2>8
<1> QED BY <1>1, StepInvariant, PTL

(* A halo said to be updated was filled, and holds the present values of   *)
(* the field on the other ranks unless the field was written after the     *)
(* exchange, which does not invalidate it (`field.hpp:264`): copies,       *)
(* views, destructions and updates with the same tags give no other way to *)
(* a halo out of date, on ranks that have not gone past a CRASH.           *)
THEOREM UpdatedIsCurrent ==
  Spec => []UpdatedHaloIsCurrent
<1>1. RoomInv /\ StepInv => UpdatedHaloIsCurrent
  <2> SUFFICES ASSUME RoomInv, StepInv, ~viewUpdated, NEW r \in Ranks, Followed(r)
               PROVE  CurrentIn(r, field[r], heap[r])
    BY DEF UpdatedHaloIsCurrent, CurrentIn, Current, BlockOf
  <2>1. PICK P, A, H, F, B, E : Placed(P, A, H) /\ Agreed(P, A, H, F, B, E)
    BY DEF StepInv
  <2>2. course[r] = "sound"
    BY <2>1, FollowedIsSound DEF RoomInv
  <2> QED BY <2>1, <2>2 DEF Agreed
<1> QED BY <1>1, StepInvariant, PTL

==============================================================================
