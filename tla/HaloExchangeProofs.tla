-------------------------- MODULE HaloExchangeProofs --------------------------
(***************************************************************************)
(* Messages of the halo exchange, for any lattice, any grid of ranks, any  *)
(* fields and any script, with ranks that run ahead of each other.         *)
(*                                                                         *)
(* The argument: the updates that exchange messages are the same on all    *)
(* ranks, since the status of a field follows from the script. A rank      *)
(* posts one send and one receive on each of its links in each of them. So *)
(* what is in a link is the difference between what its two ends have      *)
(* posted, and is nothing when they are at the same place. A rank leaves   *)
(* an update after it has heard from every neighbour: it is one update     *)
(* ahead of them at most.                                                  *)
(*                                                                         *)
(* The second part, for the simdifiable layout of even lattices: messages  *)
(* of a link arrive in order, so the one that meets a receive is that of   *)
(* the same update, and the section it fills is opposite to the one it     *)
(* left. The face of a rank and the one behind it are numbered alike, so   *)
(* the halo holds what the tables of neighbours look for.                  *)
(***************************************************************************)
EXTENDS HaloExchange, EoGeometryProofs, SequenceTheorems, FiniteSetTheorems

------------------------------------------------------------------------------
(* The inductive invariant.                                                *)

\* The place i of the script is an update that finds the halo NOT_UPDATED.
Exchange(i) ==
  Script[i].op = "update" /\ \A j \in 1..(i - 1) : Script[j] # Script[i]

Exchanges(k) == {i \in 1..(k - 1) : Exchange(i)}

\* How many a rank has left behind, and for which parities of the present one
\* it has posted its messages.
Done(r) == Cardinality(Exchanges(next[r]))

PostedAt(stage, p) ==
  stage = <<"wait">> \/ \E q \in Coverage : p < q /\ stage = <<"fill", q>>

Posted(r, p) == PostedAt(pc[r], p)

Unit(b) == IF b THEN 1 ELSE 0

Count(r, p) == Done(r) + Unit(Posted(r, p))

Stages == {<<"app">>, <<"wait">>} \cup {<<"fill", q>> : q \in Coverage}

Faces == Parity \X Ori \X Dir

IsList(q) == \E S : q \in Seq(S)

Places ==
  /\ next \in [Ranks -> 1..(Len(Script) + 1)]
  /\ pc \in [Ranks -> Stages]
  /\ status \in [Ranks -> [Fields -> {"NOT_UPDATED", "UPDATED"}]]
  /\ version \in [Ranks -> [Fields -> Nat]]
  /\ recvs \in [Links -> Seq(Faces)]
  /\ channel = [l \in Links |-> channel[l]]
  /\ \A l \in Links : IsList(channel[l])

\* A field is written once for each place of the script at most.
VersionsBounded == \A r \in Ranks, f \in Fields : version[r][f] < next[r]

\* The status of a field is what the script says.
StatusFollows ==
  \A r \in Ranks, f \in Fields :
    status[r][f] = "UPDATED" <=>
      \E i \in 1..(next[r] - 1) : Script[i] = [op |-> "update", field |-> f]

Exchanging ==
  \A r \in Ranks : pc[r] # <<"app">> => Running(r) /\ Exchange(next[r])

\* The send behind each request.
SendsMeant ==
  \A x \in sends : \E r \in Ranks, p \in Coverage : \E f \in CutFaces(p) :
     x = <<SendLink(r, f), f>> /\ Posted(r, p)

Pending(l) == \E x \in sends : x[1] = l

\* Rank r is what s finds behind its face (ori, dir), and is another process.
Connected(s, r, ori, dir) ==
  Lat.nRanks[dir] > 1 /\ RankNeighbour(s, Lat.nRanks, ori, dir) = r

LinkInv(s, r, p, ori, dir) ==
  LET l == <<s, r, Tag(p, ori, dir)>>
  IN  /\ Pending(l) => Connected(s, r, ori, dir)
      /\ ~Connected(s, r, ori, dir) => channel[l] = << >> /\ recvs[l] = << >>
      /\ Len(recvs[l]) <= Unit(Posted(r, p))
      /\ Connected(s, r, ori, dir) =>
           Unit(Pending(l)) + Len(channel[l]) - Len(recvs[l]) = Count(s, p) - Count(r, p)

LinksInv ==
  \A s \in Ranks, r \in Ranks, p \in Coverage, ori \in Ori, dir \in Dir :
     LinkInv(s, r, p, ori, dir)

\* Who has left an update has heard from all its neighbours.
HeardFromAll ==
  \A s \in Ranks, r \in Ranks, p \in Coverage, ori \in Ori, dir \in Dir :
     Connected(s, r, ori, dir) => Done(s) <= Count(r, p)

HInv == /\ Places
        /\ VersionsBounded
        /\ StatusFollows
        /\ Exchanging
        /\ SendsMeant
        /\ LinksInv
        /\ HeardFromAll


------------------------------------------------------------------------------
(* The script.                                                             *)

LEMMA ScriptFacts ==
  /\ Len(Script) \in Nat
  /\ \A i \in 1..Len(Script) : /\ Script[i] \in [op : {"write", "update"}, field : Fields]
                               /\ Script[i].field \in Fields
                               /\ Script[i] = [op |-> Script[i].op, field |-> Script[i].field]
<1>1. \A i \in 1..Len(Script) : Script[i] \in [op : {"write", "update"}, field : Fields]
  BY ScriptAssumption, ElementOfSeq
<1> QED BY <1>1, ScriptAssumption, LenProperties

\* The count of exchanges goes up by one at each of them.
LEMMA ExchangesGrow ==
  ASSUME NEW k \in Nat \ {0}
  PROVE  /\ Cardinality(Exchanges(k)) \in Nat
         /\ Exchange(k) => Cardinality(Exchanges(k + 1)) = Cardinality(Exchanges(k)) + 1
         /\ ~Exchange(k) => Exchanges(k + 1) = Exchanges(k)
<1>1. IsFiniteSet(1..(k - 1))
  BY FS_Interval
<1>2. IsFiniteSet(Exchanges(k))
  BY <1>1, FS_Subset DEF Exchanges
<1>3. 1..((k + 1) - 1) = (1..(k - 1)) \cup {k} /\ k \notin 1..(k - 1)
  OBVIOUS
<1>4. /\ Exchange(k) => Exchanges(k + 1) = Exchanges(k) \cup {k}
      /\ ~Exchange(k) => Exchanges(k + 1) = Exchanges(k)
      /\ k \notin Exchanges(k)
  BY <1>3 DEF Exchanges
<1> QED BY <1>2, <1>4, FS_AddElement, FS_CardinalityType

\* The status of a field tells whether an update is an exchange.
LEMMA StatusTells ==
  ASSUME Places, StatusFollows, NEW r \in Ranks, Running(r), Now(r).op = "update"
  PROVE  /\ next[r] \in 1..Len(Script) /\ TheField(r) \in Fields
         /\ Now(r) = [op |-> "update", field |-> TheField(r)]
         /\ status[r][TheField(r)] = "UPDATED" <=> ~Exchange(next[r])
<1>1. next[r] \in 1..Len(Script)
  BY ScriptFacts DEF Places, Running
<1>2. TheField(r) \in Fields /\ Now(r) = [op |-> "update", field |-> TheField(r)]
  BY <1>1, ScriptFacts DEF TheField, Now
<1>3. status[r][TheField(r)] = "UPDATED" <=>
        \E i \in 1..(next[r] - 1) : Script[i] = [op |-> "update", field |-> TheField(r)]
  BY <1>2 DEF StatusFollows
<1>4. Exchange(next[r]) <=> \A j \in 1..(next[r] - 1) : Script[j] # Script[next[r]]
  BY DEF Exchange, Now
<1> QED BY <1>1, <1>2, <1>3, <1>4 DEF Now

------------------------------------------------------------------------------
(* The stages of an update.                                                *)

LEMMA CoverageFacts == Coverage \subseteq Parity /\ Coverage \subseteq Int
BY CoverageAssumption DEF Parity

\* The stages are told apart.
LEMMA StagesApart ==
  /\ <<"app">> # <<"wait">>
  /\ \A q : <<"fill", q>> # <<"app">> /\ <<"fill", q>> # <<"wait">>
  /\ \A q, p : <<"fill", q>> = <<"fill", p>> => q = p
<1>1. \A q : <<"fill", q>>[1] = "fill" /\ <<"fill", q>>[2] = q
  OBVIOUS
<1>2. <<"app">>[1] = "app" /\ <<"wait">>[1] = "wait"
  OBVIOUS
<1> QED BY <1>1, <1>2

\* What has been posted at each stage.
LEMMA PostedStages ==
  ASSUME NEW p \in Coverage
  PROVE  /\ ~PostedAt(<<"app">>, p)
         /\ ~PostedAt(<<"fill", Min(Coverage)>>, p)
         /\ PostedAt(<<"wait">>, p)
         /\ \A q \in Coverage :
              LET after == IF q + 1 \in Coverage THEN <<"fill", q + 1>> ELSE <<"wait">>
              IN  /\ ~PostedAt(<<"fill", q>>, q)
                  /\ after \in Stages
                  /\ PostedAt(after, p) <=> PostedAt(<<"fill", q>>, p) \/ p = q
<1>1. /\ \A q \in Coverage : PostedAt(<<"fill", q>>, p) <=> p < q
      /\ ~PostedAt(<<"app">>, p) /\ PostedAt(<<"wait">>, p)
  BY StagesApart DEF PostedAt
<1>2. Min(Coverage) \in Coverage /\ \A q \in Coverage : Min(Coverage) <= q
  <2>1. \E x \in Coverage : \A q \in Coverage : x <= q
    BY CoverageAssumption DEF Parity
  <2> QED BY <2>1 DEF Min
<1>3. ~PostedAt(<<"fill", Min(Coverage)>>, p)
  <2> DEFINE m == Min(Coverage)
  <2>1. m \in Coverage /\ m <= p
    BY <1>2
  <2> HIDE DEF m
  <2>2. ~(p < m)
    BY <2>1, CoverageFacts
  <2>3. ~PostedAt(<<"fill", m>>, p)
    BY <1>1, <2>1, <2>2
  <2> QED BY <2>3 DEF m
<1>4. ASSUME NEW q \in Coverage
      PROVE  LET after == IF q + 1 \in Coverage THEN <<"fill", q + 1>> ELSE <<"wait">>
             IN  /\ ~PostedAt(<<"fill", q>>, q)
                 /\ after \in Stages
                 /\ PostedAt(after, p) <=> PostedAt(<<"fill", q>>, p) \/ p = q
  <2>1. CASE q + 1 \in Coverage
    <3>1. PostedAt(<<"fill", q + 1>>, p) <=> p < q + 1
      BY <1>1, <2>1
    <3> QED BY <1>1, <2>1, <3>1, CoverageFacts DEF Stages, PostedAt
  <2>2. CASE q + 1 \notin Coverage
    <3>1. p < q \/ p = q
      BY <2>2, CoverageAssumption DEF Parity
    <3> QED BY <1>1, <2>2, <3>1, CoverageFacts DEF Stages, PostedAt
  <2> QED BY <2>1, <2>2
<1> QED BY <1>1, <1>3, <1>4

------------------------------------------------------------------------------
(* Links.                                                                  *)

LEMMA RanksFacts == Lat.nRanks \in SidesOf
BY LatAssumption DEF SidesOf

\* index({}, parity, ori, dir) tells the faces apart.
LEMMA TagInjective ==
  ASSUME NEW p \in Parity, NEW q \in Parity, NEW ori \in Ori, NEW or \in Ori,
         NEW dir \in Dir, NEW di \in Dir, Tag(p, ori, dir) = Tag(q, or, di)
  PROVE  p = q /\ ori = or /\ dir = di
<1>1. NDims \in Nat \ {0} /\ dir \in 0..(NDims - 1) /\ di \in 0..(NDims - 1)
  BY NDimsAssumption DEF Dir
<1>2. p * 2 + ori \in Nat /\ q * 2 + or \in Nat
  BY DEF Parity, Ori, BW, FW
<1>3. /\ Tag(p, ori, dir) \div NDims = p * 2 + ori /\ Tag(p, ori, dir) % NDims = dir
      /\ Tag(q, or, di) \div NDims = q * 2 + or /\ Tag(q, or, di) % NDims = di
  BY <1>1, <1>2, QuotientAndRemainder DEF Tag
<1>4. p * 2 + ori = q * 2 + or /\ dir = di
  BY <1>3
<1> QED BY <1>4 DEF Parity, Ori, BW, FW

\* Being connected is mutual, through the opposite face.
LEMMA ConnectedMutual ==
  ASSUME NEW s \in Ranks, NEW r \in Ranks, NEW ori \in Ori, NEW dir \in Dir
  PROVE  /\ Connected(s, r, ori, dir) <=> Connected(r, s, OppositeOri(ori), dir)
         /\ OppositeOri(ori) \in Ori /\ OppositeOri(OppositeOri(ori)) = ori
<1>1. OppositeOri(ori) \in Ori /\ OppositeOri(OppositeOri(ori)) = ori
  BY DEF OppositeOri, Ori, BW, FW
<1>2. s \in RanksOf(Lat.nRanks) /\ r \in RanksOf(Lat.nRanks)
  BY DEF Ranks
<1>3. /\ RankNeighbour(RankNeighbour(s, Lat.nRanks, ori, dir), Lat.nRanks,
                       OppositeOri(ori), dir) = s
      /\ RankNeighbour(RankNeighbour(r, Lat.nRanks, OppositeOri(ori), dir), Lat.nRanks,
                       OppositeOri(OppositeOri(ori)), dir) = r
  BY <1>1, <1>2, RanksFacts, NeighbourInverse
<1> QED BY <1>1, <1>3 DEF Connected

LEMMA LinksFacts ==
  /\ \A s \in Ranks, r \in Ranks, p \in Coverage, ori \in Ori, dir \in Dir :
        <<s, r, Tag(p, ori, dir)>> \in Links
  /\ \A l \in Links : \E s \in Ranks, r \in Ranks, p \in Coverage : \E ori \in Ori, dir \in Dir :
        l = <<s, r, Tag(p, ori, dir)>>
BY DEF Links

\* A link is that of one face of its sender, and of one of its receiver.
LEMMA LinkEnds ==
  ASSUME NEW s \in Ranks, NEW r \in Ranks, NEW p \in Coverage, NEW ori \in Ori, NEW dir \in Dir,
         NEW t \in Ranks, NEW q \in Coverage, NEW f \in CutFaces(q)
  PROVE  LET l == <<s, r, Tag(p, ori, dir)>>
         IN  /\ SendLink(t, f) = l
                  <=> t = s /\ f = <<p, ori, dir>> /\ q = p /\ Connected(s, r, ori, dir)
             /\ RecvLink(t, f) = l
                  <=> t = r /\ f = <<p, OppositeOri(ori), dir>> /\ q = p
                      /\ Connected(s, r, ori, dir)
<1> DEFINE l == <<s, r, Tag(p, ori, dir)>>
<1>1. /\ f = <<f[1], f[2], f[3]>> /\ f[1] = q /\ f[2] \in Ori /\ f[3] \in Dir
      /\ Lat.nRanks[f[3]] > 1
  BY DEF CutFaces
<1>2. p \in Parity /\ q \in Parity
  BY CoverageFacts
<1>3. OppositeOri(f[2]) \in Ori /\ OppositeOri(OppositeOri(f[2])) = f[2]
      /\ OppositeOri(ori) \in Ori /\ OppositeOri(OppositeOri(ori)) = ori
  BY <1>1 DEF OppositeOri, Ori, BW, FW
<1>4. SendLink(t, f) = <<t, Other(t, f), Tag(q, f[2], f[3])>>
  BY <1>1 DEF SendLink
<1>5. RecvLink(t, f) = <<Other(t, f), t, Tag(q, OppositeOri(f[2]), f[3])>>
  BY <1>1 DEF RecvLink, RecvTag
<1>6. SendLink(t, f) = l <=> t = s /\ Other(t, f) = r /\ q = p /\ f[2] = ori /\ f[3] = dir
  BY <1>1, <1>2, <1>4, TagInjective
<1>7. RecvLink(t, f) = l
        <=> t = r /\ Other(t, f) = s /\ q = p /\ OppositeOri(f[2]) = ori /\ f[3] = dir
  BY <1>1, <1>2, <1>3, <1>5, TagInjective
<1>8. Other(t, f) = RankNeighbour(t, Lat.nRanks, f[2], f[3])
  BY DEF Other
<1>9. SendLink(t, f) = l
        <=> t = s /\ f = <<p, ori, dir>> /\ q = p /\ Connected(s, r, ori, dir)
  BY <1>1, <1>6, <1>8 DEF Connected
<1>10. Connected(s, r, ori, dir) <=> Connected(r, s, OppositeOri(ori), dir)
  BY ConnectedMutual
<1>11. RecvLink(t, f) = l
        <=> t = r /\ f = <<p, OppositeOri(ori), dir>> /\ q = p /\ Connected(s, r, ori, dir)
  BY <1>1, <1>3, <1>7, <1>8, <1>10 DEF Connected
<1> QED BY <1>9, <1>11

------------------------------------------------------------------------------
(* Lists.                                                                  *)

\* Appending and taking the first, whatever the elements are.
LEMMA ListOperations ==
  ASSUME NEW q, IsList(q), NEW x
  PROVE  /\ Len(q) \in Nat /\ (Len(q) = 0 <=> q = << >>)
         /\ IsList(Append(q, x)) /\ Len(Append(q, x)) = Len(q) + 1
         /\ q # << >> => IsList(Tail(q)) /\ Len(Tail(q)) = Len(q) - 1
<1>1. PICK S : q \in Seq(S)
  BY DEF IsList
<1>2. q \in Seq(S \cup {x})
  BY <1>1, SeqMonotonic
<1>3. Append(q, x) \in Seq(S \cup {x}) /\ Len(Append(q, x)) = Len(q) + 1
  BY <1>2
<1>4. q # << >> => Tail(q) \in Seq(S) /\ Len(Tail(q)) = Len(q) - 1
  BY <1>1, HeadTailProperties
<1>5. Len(q) \in Nat /\ (Len(q) = 0 <=> q = << >>)
  BY <1>1, LenProperties, EmptySeq
<1> QED BY <1>3, <1>4, <1>5 DEF IsList

\* A set of one element, or of none, is put in a list in one way.
LEMMA SmallSets ==
  /\ SetToSeq({}) = << >>
  /\ \A x : SetToSeq({x}) \in Seq({x}) /\ Len(SetToSeq({x})) = 1
<1>1. ASSUME NEW S, NEW n \in Nat, Cardinality(S) = n,
             NEW g \in [1..n -> S], IsInjective(g)
      PROVE  SetToSeq(S) \in [1..n -> S]
  <2>1. g \in [1..Cardinality(S) -> S]
    BY <1>1
  <2> QED BY <1>1, <2>1 DEF SetToSeq
<1>2. SetToSeq({}) = << >>
  <2>1. Cardinality({}) = 0
    BY FS_EmptySet
  <2>2. PICK g : g \in [1..0 -> {}]
    <3>1. [i \in 1..0 |-> i] \in [1..0 -> {}]
      OBVIOUS
    <3> QED BY <3>1
  <2>3. IsInjective(g)
    BY <2>2 DEF IsInjective
  <2>4. SetToSeq({}) \in [1..0 -> {}]
    <3> DEFINE n == 0
    <3>1. n \in Nat /\ Cardinality({}) = n /\ g \in [1..n -> {}]
      BY <2>1, <2>2
    <3> HIDE DEF n
    <3>2. SetToSeq({}) \in [1..n -> {}]
      BY <1>1, <2>3, <3>1
    <3> QED BY <3>2 DEF n
  <2>5. \A f \in [1..0 -> {}] : f = << >>
    OBVIOUS
  <2> QED BY <2>4, <2>5
<1>3. ASSUME NEW x PROVE SetToSeq({x}) \in Seq({x}) /\ Len(SetToSeq({x})) = 1
  <2>1. Cardinality({x}) = 1
    BY FS_Singleton
  <2>2. [i \in 1..1 |-> x] \in [1..1 -> {x}] /\ IsInjective([i \in 1..1 |-> x])
    BY DEF IsInjective
  <2>3. SetToSeq({x}) \in [1..1 -> {x}]
    BY <1>1, <2>1, <2>2
  <2>4. SetToSeq({x}) \in Seq({x})
    BY <2>3, SeqDef
  <2> QED BY <2>3, <2>4, LenProperties
<1> QED BY <1>2, <1>3

------------------------------------------------------------------------------
(* What a step leaves alone.                                               *)

LEMMA CountsTyped ==
  ASSUME Places, NEW r \in Ranks, NEW p
  PROVE  /\ Done(r) \in Nat /\ Count(r, p) \in Nat
         /\ Count(r, p) = IF Posted(r, p) THEN Done(r) + 1 ELSE Done(r)
<1>1. next[r] \in Nat \ {0}
  BY ScriptFacts DEF Places
<1>2. Done(r) \in Nat
  BY <1>1, ExchangesGrow DEF Done
<1> QED BY <1>2 DEF Count, Unit

\* A request to send is that of one face of one rank.
LEMMA RequestMeant ==
  ASSUME SendsMeant, NEW x \in sends,
         NEW s \in Ranks, NEW r \in Ranks, NEW p \in Coverage, NEW ori \in Ori, NEW dir \in Dir,
         x[1] = <<s, r, Tag(p, ori, dir)>>
  PROVE  /\ x = <<<<s, r, Tag(p, ori, dir)>>, <<p, ori, dir>>>>
         /\ Posted(s, p) /\ Connected(s, r, ori, dir)
<1>1. PICK t \in Ranks, q \in Coverage : \E f \in CutFaces(q) :
         x = <<SendLink(t, f), f>> /\ Posted(t, q)
  BY DEF SendsMeant
<1>2. PICK f \in CutFaces(q) : x = <<SendLink(t, f), f>>
  BY <1>1
<1>3. SendLink(t, f) = <<s, r, Tag(p, ori, dir)>>
  BY <1>2
<1>4. t = s /\ f = <<p, ori, dir>> /\ q = p /\ Connected(s, r, ori, dir)
  BY <1>3, LinkEnds
<1> QED BY <1>1, <1>2, <1>3, <1>4

\* A step that changes nothing in a link, nor what its ends have posted.
LEMMA LinkKept ==
  ASSUME NEW s \in Ranks, NEW r \in Ranks, NEW p \in Coverage, NEW ori \in Ori, NEW dir \in Dir,
         Places, LinkInv(s, r, p, ori, dir),
         channel'[<<s, r, Tag(p, ori, dir)>>] = channel[<<s, r, Tag(p, ori, dir)>>],
         recvs'[<<s, r, Tag(p, ori, dir)>>] = recvs[<<s, r, Tag(p, ori, dir)>>],
         Pending(<<s, r, Tag(p, ori, dir)>>)' <=> Pending(<<s, r, Tag(p, ori, dir)>>),
         Count(s, p)' = Count(s, p), Count(r, p)' = Count(r, p),
         Posted(r, p) => Posted(r, p)' \/ recvs[<<s, r, Tag(p, ori, dir)>>] = << >>
  PROVE  LinkInv(s, r, p, ori, dir)'
<1> DEFINE l == <<s, r, Tag(p, ori, dir)>>
<1>1. Connected(s, r, ori, dir)' <=> Connected(s, r, ori, dir)
  BY DEF Connected
<1>2. Unit(Pending(l)') = Unit(Pending(l))
  BY DEF Unit
<1>3. Len(recvs'[l]) <= Unit(Posted(r, p)')
  <2>1. Len(recvs[l]) <= Unit(Posted(r, p))
    BY DEF LinkInv
  <2>2. CASE recvs[l] = << >>
    BY <2>2 DEF Unit
  <2>3. CASE Posted(r, p)' \/ ~Posted(r, p)
    <3>1. recvs[l] \in Seq(Faces)
      BY LinksFacts DEF Places
    <3>2. Len(recvs[l]) \in Nat
      BY <3>1, LenProperties
    <3> QED BY <2>1, <2>3, <3>2 DEF Unit
  <2> QED BY <2>2, <2>3
<1> HIDE DEF l
<1>4. LinkInv(s, r, p, ori, dir)' <=>
        /\ Pending(l)' => Connected(s, r, ori, dir)
        /\ ~Connected(s, r, ori, dir) => channel'[l] = << >> /\ recvs'[l] = << >>
        /\ Len(recvs'[l]) <= Unit(Posted(r, p)')
        /\ Connected(s, r, ori, dir) =>
             Unit(Pending(l)') + Len(channel'[l]) - Len(recvs'[l]) = Count(s, p)' - Count(r, p)'
  BY <1>1 DEF LinkInv, l
<1>5. LinkInv(s, r, p, ori, dir) <=>
        /\ Pending(l) => Connected(s, r, ori, dir)
        /\ ~Connected(s, r, ori, dir) => channel[l] = << >> /\ recvs[l] = << >>
        /\ Len(recvs[l]) <= Unit(Posted(r, p))
        /\ Connected(s, r, ori, dir) =>
             Unit(Pending(l)) + Len(channel[l]) - Len(recvs[l]) = Count(s, p) - Count(r, p)
  BY DEF LinkInv, l
<1>6. /\ channel'[l] = channel[l] /\ recvs'[l] = recvs[l] /\ (Pending(l)' <=> Pending(l))
      /\ Count(s, p)' = Count(s, p) /\ Count(r, p)' = Count(r, p)
  BY DEF l
<1> QED BY <1>2, <1>3, <1>4, <1>5, <1>6

\* A step between two communications: what is asked of MPI stays, and so does what
\* each rank has posted in all.
Silent ==
  /\ UNCHANGED <<sends, recvs, channel>>
  /\ \A t \in Ranks, p \in Coverage :
       /\ Count(t, p)' = Count(t, p)
       /\ Posted(t, p) /\ ~Posted(t, p)' =>
            /\ \A x \in sends : x[1][1] # t
            /\ \A l \in Links : l[2] = t => recvs[l] = << >>

LEMMA SilentKeepsLinks ==
  ASSUME HInv, Silent
  PROVE  LinksInv' /\ SendsMeant'
<1>1. ASSUME NEW s \in Ranks, NEW r \in Ranks, NEW p \in Coverage, NEW ori \in Ori, NEW dir \in Dir
      PROVE  LinkInv(s, r, p, ori, dir)'
  <2> DEFINE l == <<s, r, Tag(p, ori, dir)>>
  <2>1. l \in Links /\ l[2] = r
    BY LinksFacts
  <2>2. Posted(r, p) => Posted(r, p)' \/ recvs[l] = << >>
    BY <2>1 DEF Silent
  <2>3. channel'[l] = channel[l] /\ recvs'[l] = recvs[l] /\ (Pending(l)' <=> Pending(l))
    BY DEF Silent, Pending
  <2>4. Count(s, p)' = Count(s, p) /\ Count(r, p)' = Count(r, p)
    BY DEF Silent
  <2>5. LinkInv(s, r, p, ori, dir) /\ Places
    BY DEF HInv, LinksInv
  <2> QED BY <2>2, <2>3, <2>4, <2>5, LinkKept
<1>2. SendsMeant'
  <2> SUFFICES ASSUME NEW x \in sends
               PROVE  \E t \in Ranks, p \in Coverage : \E f \in CutFaces(p) :
                        x = <<SendLink(t, f), f>> /\ Posted(t, p)'
    BY DEF Silent, SendsMeant, CutFaces, SendLink, Other
  <2>1. PICK t \in Ranks, p \in Coverage : \E f \in CutFaces(p) :
          x = <<SendLink(t, f), f>> /\ Posted(t, p)
    BY DEF HInv, SendsMeant
  <2>2. PICK f \in CutFaces(p) : x = <<SendLink(t, f), f>>
    BY <2>1
  <2>3. x[1][1] = t
    BY <2>2 DEF SendLink
  <2>4. Posted(t, p)'
    BY <2>1, <2>3 DEF Silent
  <2> QED BY <2>2, <2>4
<1> QED BY <1>1, <1>2 DEF LinksInv

------------------------------------------------------------------------------
(* The steps of a rank.                                                    *)

\* What the proofs of the steps use of a place in the script.
LEMMA PlaceOf ==
  ASSUME Places, NEW r \in Ranks
  PROVE  /\ next[r] \in Nat \ {0} /\ next[r] \in 1..(Len(Script) + 1)
         /\ Running(r) => next[r] \in 1..Len(Script) /\ next[r] + 1 \in 1..(Len(Script) + 1)
                          /\ TheField(r) \in Fields
<1>1. Running(r) => next[r] \in 1..Len(Script)
  BY ScriptFacts DEF Places, Running
<1>2. Running(r) => TheField(r) \in Fields
  BY <1>1, ScriptFacts DEF TheField, Now
<1> QED BY <1>1, <1>2, ScriptFacts DEF Places

\* Who does not move keeps what it has posted.
LEMMA CountKept ==
  ASSUME NEW t \in Ranks, NEW p, next'[t] = next[t], pc'[t] = pc[t]
  PROVE  Count(t, p)' = Count(t, p) /\ (Posted(t, p)' <=> Posted(t, p)) /\ Done(t)' = Done(t)
<1>1. Exchanges(next[t])' = Exchanges(next[t])
  BY DEF Exchanges, Exchange
<1>2. Done(t)' = Done(t)
  BY <1>1 DEF Done
<1>3. Posted(t, p)' <=> Posted(t, p)
  BY DEF Posted, PostedAt
<1> QED BY <1>2, <1>3 DEF Count, Unit

\* A place of the script that exchanges nothing is passed in one step.
Pass(r) ==
  /\ pc[r] = <<"app">> /\ Running(r) /\ ~Exchange(next[r])
  /\ next' = [next EXCEPT ![r] = @ + 1]
  /\ UNCHANGED <<pc, sends, recvs, channel>>

LEMMA PassIsSilent ==
  ASSUME HInv, NEW r \in Ranks, Pass(r)
  PROVE  Silent /\ HeardFromAll' /\ Exchanging'
<1> USE DEF HInv
<1>1. ASSUME NEW t \in Ranks, NEW p
      PROVE  Done(t)' = Done(t) /\ Count(t, p)' = Count(t, p) /\ (Posted(t, p)' <=> Posted(t, p))
  <2>1. CASE t # r
    <3>1. next'[t] = next[t] /\ pc'[t] = pc[t]
      BY <2>1 DEF Pass, Places
    <3> QED BY <3>1, CountKept
  <2>2. CASE t = r
    <3>1. next'[r] = next[r] + 1 /\ pc'[r] = pc[r]
      BY DEF Pass, Places
    <3>2. Exchanges(next'[r]) = Exchanges(next[r])
      BY <3>1, PlaceOf, ExchangesGrow DEF Pass
    <3>3. Done(t)' = Done(t)
      BY <2>2, <3>2 DEF Done, Exchanges, Exchange
    <3>4. Posted(t, p)' <=> Posted(t, p)
      BY <2>2, <3>1 DEF Posted, PostedAt
    <3> QED BY <3>3, <3>4 DEF Count, Unit
  <2> QED BY <2>1, <2>2
<1>2. Silent
  BY <1>1 DEF Silent, Pass
<1>3. HeardFromAll'
  BY <1>1 DEF HeardFromAll, Connected
<1>4. ASSUME NEW t \in Ranks, pc'[t] # <<"app">>
      PROVE  Running(t)' /\ Exchange(next'[t])
  <2>1. t # r
    BY <1>4 DEF Pass, Places
  <2>2. next'[t] = next[t] /\ pc'[t] = pc[t]
    BY <2>1 DEF Pass, Places
  <2> QED BY <1>4, <2>2 DEF Exchanging, Running
<1>5. Exchanging'
  BY <1>4 DEF Exchanging, Exchange
<1> QED BY <1>2, <1>3, <1>5

LEMMA WriteStep ==
  ASSUME HInv, NEW r \in Ranks, Write(r)
  PROVE  HInv'
<1> USE DEF HInv
<1> DEFINE f == TheField(r)
<1>1. /\ pc[r] = <<"app">> /\ Running(r) /\ Now(r).op = "write"
      /\ version' = [version EXCEPT ![r][f] = @ + 1]
      /\ next' = [next EXCEPT ![r] = @ + 1]
      /\ UNCHANGED <<pc, status, sends, recvs, channel>>
  BY DEF Write
<1>2. /\ f \in Fields /\ next[r] \in 1..Len(Script) /\ next[r] + 1 \in 1..(Len(Script) + 1)
      /\ \A t \in Ranks : next[t] \in Nat /\ next[t] \in 1..(Len(Script) + 1)
  BY <1>1, PlaceOf
<1> HIDE DEF f
<1>3. Places'
  <2>1. next' \in [Ranks -> 1..(Len(Script) + 1)]
    BY <1>1, <1>2 DEF Places
  <2>2. version' \in [Ranks -> [Fields -> Nat]]
    BY <1>1, <1>2 DEF Places
  <2> QED BY <1>1, <2>1, <2>2 DEF Places, IsList
<1>4. VersionsBounded'
  <2> SUFFICES ASSUME NEW t \in Ranks, NEW g \in Fields PROVE version'[t][g] < next'[t]
    BY DEF VersionsBounded
  <2>1. version[t][g] \in Nat /\ version[t][g] < next[t]
    BY DEF Places, VersionsBounded
  <2>2. version'[t][g] = IF t = r /\ g = f THEN version[t][g] + 1 ELSE version[t][g]
    BY <1>1 DEF Places
  <2>3. next'[t] = IF t = r THEN next[t] + 1 ELSE next[t]
    BY <1>1 DEF Places
  <2> QED BY <1>2, <2>1, <2>2, <2>3
<1>5. StatusFollows'
  <2> SUFFICES ASSUME NEW t \in Ranks, NEW g \in Fields
               PROVE  status[t][g] = "UPDATED" <=>
                        \E i \in 1..(next'[t] - 1) : Script[i] = [op |-> "update", field |-> g]
    BY <1>1 DEF StatusFollows
  <2>1. status[t][g] = "UPDATED" <=>
          \E i \in 1..(next[t] - 1) : Script[i] = [op |-> "update", field |-> g]
    BY DEF StatusFollows
  <2>2. CASE t = r
    <3>1. next'[t] = next[r] + 1
      BY <1>1, <2>2 DEF Places
    <3>2. Script[next[r]] # [op |-> "update", field |-> g]
      BY <1>1 DEF Now
    <3>3. \A i : i \in 1..(next'[t] - 1) <=> i \in 1..(next[t] - 1) \/ i = next[r]
      BY <1>2, <2>2, <3>1
    <3> QED BY <2>1, <3>2, <3>3
  <2>3. CASE t # r
    <3>1. next'[t] = next[t]
      BY <1>1, <2>3 DEF Places
    <3> QED BY <2>1, <3>1
  <2> QED BY <2>2, <2>3
<1>6. Pass(r)
  <2>1. ~Exchange(next[r])
    BY <1>1 DEF Exchange, Now
  <2> QED BY <1>1, <2>1 DEF Pass
<1>7. Silent /\ HeardFromAll' /\ Exchanging'
  BY <1>6, PassIsSilent
<1>8. LinksInv' /\ SendsMeant'
  BY <1>7, SilentKeepsLinks
<1> QED BY <1>3, <1>4, <1>5, <1>7, <1>8

LEMMA EarlyReturnStep ==
  ASSUME HInv, NEW r \in Ranks, EarlyReturn(r)
  PROVE  HInv'
<1> USE DEF HInv
<1>1. /\ pc[r] = <<"app">> /\ Running(r) /\ Now(r).op = "update"
      /\ status[r][TheField(r)] = "UPDATED"
      /\ next' = [next EXCEPT ![r] = @ + 1]
      /\ UNCHANGED <<pc, version, status, sends, recvs, channel>>
  BY DEF EarlyReturn
<1>2. /\ TheField(r) \in Fields /\ next[r] \in 1..Len(Script)
      /\ next[r] + 1 \in 1..(Len(Script) + 1)
      /\ \A t \in Ranks : next[t] \in Nat /\ next[t] \in 1..(Len(Script) + 1)
  BY <1>1, PlaceOf
<1>3. Places'
  <2>1. next' \in [Ranks -> 1..(Len(Script) + 1)]
    BY <1>1, <1>2 DEF Places
  <2> QED BY <1>1, <2>1 DEF Places, IsList
<1>4. VersionsBounded'
  <2> SUFFICES ASSUME NEW t \in Ranks, NEW g \in Fields PROVE version[t][g] < next'[t]
    BY <1>1 DEF VersionsBounded
  <2>1. version[t][g] \in Nat /\ version[t][g] < next[t]
    BY DEF Places, VersionsBounded
  <2>3. next'[t] = IF t = r THEN next[t] + 1 ELSE next[t]
    BY <1>1 DEF Places
  <2> QED BY <1>2, <2>1, <2>3
<1>5. StatusFollows'
  <2> SUFFICES ASSUME NEW t \in Ranks, NEW g \in Fields
               PROVE  status[t][g] = "UPDATED" <=>
                        \E i \in 1..(next'[t] - 1) : Script[i] = [op |-> "update", field |-> g]
    BY <1>1 DEF StatusFollows
  <2>1. status[t][g] = "UPDATED" <=>
          \E i \in 1..(next[t] - 1) : Script[i] = [op |-> "update", field |-> g]
    BY DEF StatusFollows
  <2>2. CASE t = r
    <3>1. next'[t] = next[r] + 1
      BY <1>1, <2>2 DEF Places
    <3>2. Script[next[r]] = [op |-> "update", field |-> TheField(r)]
      BY <1>1, StatusTells DEF Now
    <3>3. \A i : i \in 1..(next'[t] - 1) <=> i \in 1..(next[t] - 1) \/ i = next[r]
      BY <1>2, <2>2, <3>1
    <3>4. Script[next[r]] = [op |-> "update", field |-> g] => g = TheField(r)
      BY <3>2
    <3> QED BY <1>1, <2>1, <2>2, <3>3, <3>4
  <2>3. CASE t # r
    <3>1. next'[t] = next[t]
      BY <1>1, <2>3 DEF Places
    <3> QED BY <2>1, <3>1
  <2> QED BY <2>2, <2>3
<1>6. Pass(r)
  <2>1. ~Exchange(next[r])
    BY <1>1, StatusTells
  <2> QED BY <1>1, <2>1 DEF Pass
<1>7. Silent /\ HeardFromAll' /\ Exchanging'
  BY <1>6, PassIsSilent
<1>8. LinksInv' /\ SendsMeant'
  BY <1>7, SilentKeepsLinks
<1> QED BY <1>3, <1>4, <1>5, <1>7, <1>8

\* Only the stage of a rank changes, and what it has posted stays.
\* The first stage of an update posts nothing yet.
LEMMA StartIsSilent ==
  ASSUME HInv, NEW r \in Ranks, StartUpdate(r)
  PROVE  /\ Silent
         /\ \A t \in Ranks, p \in Coverage :
              Done(t)' = Done(t) /\ Count(t, p)' = Count(t, p) /\ (Posted(t, p)' <=> Posted(t, p))
<1> USE DEF HInv
<1> DEFINE first == <<"fill", Min(Coverage)>>
<1>1. /\ pc[r] = <<"app">> /\ Running(r) /\ Now(r).op = "update"
      /\ status[r][TheField(r)] = "NOT_UPDATED"
      /\ pc' = [pc EXCEPT ![r] = first]
      /\ UNCHANGED <<next, version, status, sends, recvs, channel>>
  BY DEF StartUpdate
<1>2. first \in Stages /\ \A p \in Coverage : ~PostedAt(first, p)
  <2>1. \E x \in Coverage : \A q \in Coverage : x <= q
    BY CoverageAssumption DEF Parity
  <2>2. Min(Coverage) \in Coverage
    BY <2>1 DEF Min
  <2> QED BY <2>2, PostedStages DEF Stages
<1> HIDE DEF first
<1>3. ASSUME NEW t \in Ranks, NEW p \in Coverage
      PROVE  /\ Done(t)' = Done(t) /\ Count(t, p)' = Count(t, p)
             /\ Posted(t, p)' <=> Posted(t, p)
  <2>1. CASE t # r
    <3>1. next'[t] = next[t] /\ pc'[t] = pc[t]
      BY <1>1, <2>1 DEF Places
    <3> QED BY <3>1, CountKept
  <2>2. CASE t = r
    <3>1. pc'[r] = first
      BY <1>1 DEF Places
    <3>2. ~Posted(t, p)' /\ ~Posted(t, p)
      BY <1>1, <1>2, <2>2, <3>1, PostedStages DEF Posted, PostedAt
    <3>3. Done(t)' = Done(t)
      BY <1>1 DEF Done, Exchanges, Exchange
    <3> QED BY <3>2, <3>3 DEF Count, Unit
  <2> QED BY <2>1, <2>2
<1>4. Silent
  BY <1>1, <1>3 DEF Silent
<1> QED BY <1>3, <1>4

LEMMA StartUpdateStep ==
  ASSUME HInv, NEW r \in Ranks, StartUpdate(r)
  PROVE  HInv'
<1> USE DEF HInv
<1> DEFINE first == <<"fill", Min(Coverage)>>
<1>1. /\ pc[r] = <<"app">> /\ Running(r) /\ Now(r).op = "update"
      /\ status[r][TheField(r)] = "NOT_UPDATED"
      /\ pc' = [pc EXCEPT ![r] = first]
      /\ UNCHANGED <<next, version, status, sends, recvs, channel>>
  BY DEF StartUpdate
<1>2. first \in Stages /\ \A p \in Coverage : ~PostedAt(first, p)
  <2>1. \E x \in Coverage : \A q \in Coverage : x <= q
    BY CoverageAssumption DEF Parity
  <2>2. Min(Coverage) \in Coverage
    BY <2>1 DEF Min
  <2> QED BY <2>2, PostedStages DEF Stages
<1> HIDE DEF first
<1>3. Places'
  <2>1. pc' \in [Ranks -> Stages]
    BY <1>1, <1>2 DEF Places
  <2> QED BY <1>1, <2>1 DEF Places, IsList
<1>4. VersionsBounded' /\ StatusFollows'
  BY <1>1 DEF VersionsBounded, StatusFollows
<1>5. Exchanging'
  <2> SUFFICES ASSUME NEW t \in Ranks, pc'[t] # <<"app">>
               PROVE  Running(t) /\ Exchange(next[t])
    BY <1>1 DEF Exchanging, Running, Exchange
  <2>1. Exchange(next[r])
    BY <1>1, StatusTells
  <2>2. t # r => pc'[t] = pc[t]
    BY <1>1 DEF Places
  <2> QED BY <1>1, <2>1, <2>2 DEF Exchanging
<1>6. /\ Silent
      /\ \A t \in Ranks, p \in Coverage : Done(t)' = Done(t) /\ Count(t, p)' = Count(t, p)
  BY StartIsSilent
<1>8. HeardFromAll'
  BY <1>6 DEF HeardFromAll, Connected
<1>9. LinksInv' /\ SendsMeant'
  BY <1>6, SilentKeepsLinks
<1> QED BY <1>3, <1>4, <1>5, <1>8, <1>9

\* An exchange that was posted becomes one that was done.
LEMMA FinishIsSilent ==
  ASSUME HInv, NEW r \in Ranks, Finish(r)
  PROVE  /\ Silent
         /\ Done(r) \in Nat /\ Done(r)' = Done(r) + 1
         /\ \A p \in Coverage : Posted(r, p) /\ ~Posted(r, p)'
         /\ \A t \in Ranks, p \in Coverage :
              /\ Count(t, p)' = Count(t, p)
              /\ t # r => Done(t)' = Done(t) /\ (Posted(t, p)' <=> Posted(t, p))
<1> USE DEF HInv
<1>1. /\ pc[r] = <<"wait">> /\ Running(r) /\ Exchange(next[r])
      /\ \A x \in sends : x[1][1] # r
      /\ \A l \in Links : l[2] = r => recvs[l] = << >>
      /\ status' = [status EXCEPT ![r][TheField(r)] = "UPDATED"]
      /\ next' = [next EXCEPT ![r] = @ + 1]
      /\ pc' = [pc EXCEPT ![r] = <<"app">>]
      /\ UNCHANGED <<version, sends, recvs, channel>>
  BY StagesApart DEF Finish, Exchanging
<1>2. /\ TheField(r) \in Fields /\ next[r] \in 1..Len(Script)
      /\ next[r] + 1 \in 1..(Len(Script) + 1)
      /\ \A t \in Ranks : next[t] \in Nat \ {0} /\ next[t] \in 1..(Len(Script) + 1)
  BY <1>1, PlaceOf
<1>3. Done(r) \in Nat /\ Done(r)' = Done(r) + 1
  <2>1. next'[r] = next[r] + 1
    BY <1>1 DEF Places
  <2>2. Cardinality(Exchanges(next'[r])) = Cardinality(Exchanges(next[r])) + 1
    BY <1>1, <1>2, <2>1, ExchangesGrow
  <2> QED BY <2>2, CountsTyped DEF Done, Exchanges, Exchange
<1>4. \A p \in Coverage : Posted(r, p) /\ ~Posted(r, p)'
  <2>1. pc'[r] = <<"app">>
    BY <1>1 DEF Places
  <2> QED BY <1>1, <2>1, PostedStages DEF Posted, PostedAt
<1>5. ASSUME NEW t \in Ranks, t # r, NEW p \in Coverage
      PROVE  /\ Done(t)' = Done(t) /\ Count(t, p)' = Count(t, p)
             /\ Posted(t, p)' <=> Posted(t, p)
  <2>1. next'[t] = next[t] /\ pc'[t] = pc[t]
    BY <1>1, <1>5 DEF Places
  <2> QED BY <2>1, CountKept
<1>6. \A t \in Ranks, p \in Coverage : Count(t, p)' = Count(t, p)
  <2>1. \A p \in Coverage : Count(r, p)' = Count(r, p)
    BY <1>3, <1>4 DEF Count, Unit
  <2> QED BY <1>5, <2>1
<1>7. Silent
  BY <1>1, <1>5, <1>6 DEF Silent
<1> QED BY <1>3, <1>4, <1>5, <1>6, <1>7

\* The waits are over: what was posted belongs to an exchange left behind. Nothing
\* comes on a link that is waited on no more, so each neighbour has posted as much.
LEMMA FinishStep ==
  ASSUME HInv, NEW r \in Ranks, Finish(r)
  PROVE  HInv'
<1> USE DEF HInv
<1>1. /\ pc[r] = <<"wait">> /\ Running(r) /\ Exchange(next[r])
      /\ \A x \in sends : x[1][1] # r
      /\ \A l \in Links : l[2] = r => recvs[l] = << >>
      /\ status' = [status EXCEPT ![r][TheField(r)] = "UPDATED"]
      /\ next' = [next EXCEPT ![r] = @ + 1]
      /\ pc' = [pc EXCEPT ![r] = <<"app">>]
      /\ UNCHANGED <<version, sends, recvs, channel>>
  BY StagesApart DEF Finish, Exchanging
<1>2. /\ TheField(r) \in Fields /\ next[r] \in 1..Len(Script)
      /\ next[r] + 1 \in 1..(Len(Script) + 1)
      /\ \A t \in Ranks : next[t] \in Nat \ {0} /\ next[t] \in 1..(Len(Script) + 1)
  BY <1>1, PlaceOf
<1>3. Places'
  <2>1. next' \in [Ranks -> 1..(Len(Script) + 1)]
    BY <1>1, <1>2 DEF Places
  <2>2. pc' \in [Ranks -> Stages]
    BY <1>1 DEF Places, Stages
  <2>3. status' \in [Ranks -> [Fields -> {"NOT_UPDATED", "UPDATED"}]]
    BY <1>1 DEF Places
  <2> QED BY <1>1, <2>1, <2>2, <2>3 DEF Places, IsList
<1>4. VersionsBounded'
  <2> SUFFICES ASSUME NEW t \in Ranks, NEW g \in Fields PROVE version[t][g] < next'[t]
    BY <1>1 DEF VersionsBounded
  <2>1. version[t][g] \in Nat /\ version[t][g] < next[t]
    BY DEF Places, VersionsBounded
  <2>2. next'[t] = IF t = r THEN next[t] + 1 ELSE next[t]
    BY <1>1 DEF Places
  <2> QED BY <1>2, <2>1, <2>2
<1>5. StatusFollows'
  <2> SUFFICES ASSUME NEW t \in Ranks, NEW g \in Fields
               PROVE  status'[t][g] = "UPDATED" <=>
                        \E i \in 1..(next'[t] - 1) : Script[i] = [op |-> "update", field |-> g]
    BY DEF StatusFollows
  <2>1. status[t][g] = "UPDATED" <=>
          \E i \in 1..(next[t] - 1) : Script[i] = [op |-> "update", field |-> g]
    BY DEF StatusFollows
  <2>2. CASE t = r
    <3>1. next'[t] = next[r] + 1
      BY <1>1, <2>2 DEF Places
    <3>2. Script[next[r]] = [op |-> "update", field |-> TheField(r)]
      <4>1. Script[next[r]].op = "update"
        BY <1>1 DEF Exchange
      <4> QED BY <1>2, <4>1, ScriptFacts DEF TheField, Now
    <3>3. \A i : i \in 1..(next'[t] - 1) <=> i \in 1..(next[t] - 1) \/ i = next[r]
      BY <1>2, <2>2, <3>1
    <3>4. Script[next[r]] = [op |-> "update", field |-> g] <=> g = TheField(r)
      BY <3>2
    <3>5. status'[t][g] = IF g = TheField(r) THEN "UPDATED" ELSE status[t][g]
      BY <1>1, <2>2 DEF Places
    <3> QED BY <2>1, <2>2, <3>3, <3>4, <3>5
  <2>3. CASE t # r
    <3>1. next'[t] = next[t] /\ status'[t] = status[t]
      BY <1>1, <2>3 DEF Places
    <3> QED BY <2>1, <3>1
  <2> QED BY <2>2, <2>3
<1>6. Exchanging'
  <2> SUFFICES ASSUME NEW t \in Ranks, pc'[t] # <<"app">>
               PROVE  Running(t)' /\ Exchange(next'[t])
    BY DEF Exchanging, Exchange
  <2>1. t # r
    BY <1>1 DEF Places
  <2>2. next'[t] = next[t] /\ pc'[t] = pc[t]
    BY <1>1, <2>1 DEF Places
  <2> QED BY <2>2 DEF Exchanging, Running
<1>7. /\ Silent
      /\ Done(r) \in Nat /\ Done(r)' = Done(r) + 1
      /\ \A p \in Coverage : Posted(r, p) /\ ~Posted(r, p)'
  BY FinishIsSilent
<1>8. \A t \in Ranks, p \in Coverage :
         Count(t, p)' = Count(t, p) /\ (t # r => Done(t)' = Done(t))
  BY FinishIsSilent
<1>9. LinksInv' /\ SendsMeant'
  BY <1>7, SilentKeepsLinks
<1>10. HeardFromAll'
  <2> SUFFICES ASSUME NEW s \in Ranks, NEW t \in Ranks, NEW p \in Coverage, NEW ori \in Ori,
                      NEW dir \in Dir, Connected(s, t, ori, dir)
               PROVE  Done(s)' <= Count(t, p)
    BY <1>8 DEF HeardFromAll, Connected
  <2>1. CASE s # r
    BY <1>8, <2>1 DEF HeardFromAll
  <2>2. CASE s = r
    <3> DEFINE back == <<t, r, Tag(p, OppositeOri(ori), dir)>>
    <3>1. Connected(t, r, OppositeOri(ori), dir) /\ OppositeOri(ori) \in Ori
      BY <2>2, ConnectedMutual
    <3>2. back \in Links /\ recvs[back] = << >> /\ Len(recvs[back]) = 0
      BY <1>1, <3>1, LinksFacts
    <3>3. Unit(Pending(back)) + Len(channel[back]) - Len(recvs[back]) = Count(t, p) - Count(r, p)
      BY <3>1 DEF LinksInv, LinkInv
    <3>4. Len(channel[back]) \in Nat
      BY <3>2, ListOperations DEF Places
    <3>5. Unit(Pending(back)) \in Nat
      BY DEF Unit
    <3>6. Count(r, p) = Done(r) + 1 /\ Count(t, p) \in Nat
      BY <1>7, CountsTyped
    <3> QED BY <1>7, <2>2, <3>2, <3>3, <3>4, <3>5, <3>6
  <2> QED BY <2>1, <2>2
<1> QED BY <1>3, <1>4, <1>5, <1>6, <1>9, <1>10

\* The messages of one parity are posted, once.
LEMMA PostsOne ==
  ASSUME HInv, NEW r \in Ranks, NEW q \in Coverage, FillAndPost(r, q)
  PROVE  /\ ~Posted(r, q)
         /\ \A t \in Ranks, p \in Coverage :
              /\ Posted(t, p)' <=> Posted(t, p) \/ (t = r /\ p = q)
              /\ Done(t)' = Done(t)
              /\ Count(t, p)' = IF t = r /\ p = q THEN Count(t, p) + 1 ELSE Count(t, p)
<1> USE DEF HInv
<1> DEFINE after == IF q + 1 \in Coverage THEN <<"fill", q + 1>> ELSE <<"wait">>
<1>1. /\ pc[r] = <<"fill", q>>
      /\ pc' = [pc EXCEPT ![r] = after]
      /\ UNCHANGED next
  BY DEF FillAndPost
<1>2. /\ ~PostedAt(pc[r], q) /\ after \in Stages
      /\ \A p \in Coverage : PostedAt(after, p) <=> PostedAt(pc[r], p) \/ p = q
  BY <1>1, PostedStages
<1> HIDE DEF after
<1>3. pc' \in [Ranks -> Stages] /\ pc'[r] = after /\ (\A t \in Ranks : t # r => pc'[t] = pc[t])
  BY <1>1, <1>2 DEF Places
<1>4. ASSUME NEW t \in Ranks, NEW p \in Coverage
      PROVE  /\ Posted(t, p)' <=> Posted(t, p) \/ (t = r /\ p = q)
             /\ ~Posted(r, q)
             /\ Done(t)' = Done(t)
             /\ Count(t, p)' = IF t = r /\ p = q THEN Count(t, p) + 1 ELSE Count(t, p)
  <2>1. Posted(t, p)' <=> Posted(t, p) \/ (t = r /\ p = q)
    <3>1. CASE t = r
      BY <1>2, <1>3, <3>1 DEF Posted, PostedAt
    <3>2. CASE t # r
      BY <1>3, <3>2 DEF Posted, PostedAt
    <3> QED BY <3>1, <3>2
  <2>2. ~Posted(r, q)
    BY <1>2 DEF Posted
  <2>3. Done(t)' = Done(t)
    BY <1>1 DEF Done, Exchanges, Exchange
  <2>4. Done(t) \in Nat
    BY CountsTyped
  <2>5. Count(t, p)' = IF Posted(t, p)' THEN Done(t) + 1 ELSE Done(t) + 0
    BY <2>3 DEF Count, Unit
  <2>6. Count(t, p) = IF Posted(t, p) THEN Done(t) + 1 ELSE Done(t)
    BY CountsTyped
  <2> QED BY <2>1, <2>2, <2>3, <2>4, <2>5, <2>6
<1>5. ~Posted(r, q)
  BY <1>2 DEF Posted
<1> QED BY <1>4, <1>5

\* On the links of the faces of one parity, a send is posted where the rank r sends
\* and a receive where it receives.
LinkPosted(r, q, s, t, p, ori, dir) ==
  LET l == <<s, t, Tag(p, ori, dir)>>
      isSent == s = r /\ p = q /\ Connected(s, t, ori, dir)
      isAwaited == t = r /\ p = q /\ Connected(s, t, ori, dir)
  IN  /\ Pending(l)' <=> Pending(l) \/ isSent
      /\ isSent => ~Pending(l)
      /\ recvs'[l] \in Seq(Faces)
      /\ ~isAwaited => recvs'[l] = recvs[l]
      /\ Len(recvs'[l]) = IF isAwaited THEN Len(recvs[l]) + 1 ELSE Len(recvs[l])
      /\ isAwaited => recvs'[l] \in Seq({<<p, OppositeOri(ori), dir>>})

LEMMA LinksPosted ==
  ASSUME HInv, NEW r \in Ranks, NEW q \in Coverage, FillAndPost(r, q),
         NEW s \in Ranks, NEW t \in Ranks, NEW p \in Coverage, NEW ori \in Ori, NEW dir \in Dir
  PROVE  LinkPosted(r, q, s, t, p, ori, dir)
<1> USE DEF HInv
<1> DEFINE meets(k) == {f \in CutFaces(q) : RecvLink(r, f) = k}
           l == <<s, t, Tag(p, ori, dir)>>
           isSent == s = r /\ p = q /\ Connected(s, t, ori, dir)
           isAwaited == t = r /\ p = q /\ Connected(s, t, ori, dir)
<1>0. /\ sends' = sends \cup {<<SendLink(r, f), f>> : f \in CutFaces(q)}
      /\ recvs' = [k \in Links |-> recvs[k] \o SetToSeq(meets(k))]
  BY DEF FillAndPost
<1> HIDE DEF meets
<1>1. l \in Links /\ OppositeOri(ori) \in Ori /\ p \in Parity
  BY LinksFacts, ConnectedMutual, CoverageFacts
<1>2. (\E f \in CutFaces(q) : SendLink(r, f) = l) <=> isSent
  <2>1. isSent => <<p, ori, dir>> \in CutFaces(q)
    BY DEF Connected, CutFaces
  <2> QED BY <2>1, LinkEnds
<1>3. Pending(l)' <=> Pending(l) \/ isSent
  <2>1. \A f : <<SendLink(r, f), f>>[1] = SendLink(r, f)
    OBVIOUS
  <2>2. (\E x \in sends' : x[1] = l)
          <=> (\E x \in sends : x[1] = l) \/ (\E f \in CutFaces(q) : SendLink(r, f) = l)
    BY <1>0, <2>1
  <2> QED BY <1>2, <2>2 DEF Pending
<1>4. isSent => ~Pending(l)
  BY PostsOne, RequestMeant DEF Pending
<1>5. meets(l) = IF isAwaited THEN {<<p, OppositeOri(ori), dir>>} ELSE {}
  <2>1. isAwaited => <<p, OppositeOri(ori), dir>> \in CutFaces(q)
    BY <1>1 DEF Connected, CutFaces
  <2>2. \A f \in CutFaces(q) : RecvLink(r, f) = l
          <=> f = <<p, OppositeOri(ori), dir>> /\ isAwaited
    BY LinkEnds
  <2> QED BY <2>1, <2>2 DEF meets
<1>6. recvs'[l] = recvs[l] \o SetToSeq(meets(l)) /\ recvs[l] \in Seq(Faces)
  BY <1>0, <1>1 DEF Places
<1>7. CASE isAwaited
  <2>1. <<p, OppositeOri(ori), dir>> \in Faces
    BY <1>1 DEF Faces
  <2>2. SetToSeq(meets(l)) \in Seq({<<p, OppositeOri(ori), dir>>}) /\ Len(SetToSeq(meets(l))) = 1
    BY <1>5, <1>7, SmallSets
  <2>3. SetToSeq(meets(l)) \in Seq(Faces)
    <3>1. {<<p, OppositeOri(ori), dir>>} \subseteq Faces
      BY <2>1
    <3> HIDE DEF Faces
    <3> QED BY <2>2, <3>1, SeqMonotonic
  <2>4. /\ recvs[l] \o SetToSeq(meets(l)) \in Seq(Faces)
        /\ Len(recvs[l] \o SetToSeq(meets(l))) = Len(recvs[l]) + 1
    <3> DEFINE a == recvs[l]
               b == SetToSeq(meets(l))
    <3>1. a \in Seq(Faces) /\ b \in Seq(Faces) /\ Len(b) = 1
      BY <1>6, <2>2, <2>3
    <3> HIDE DEF a, b
    <3>2. a \o b \in Seq(Faces) /\ Len(a \o b) = Len(a) + Len(b)
      BY <3>1, ConcatProperties
    <3>3. Len(a \o b) = Len(a) + 1
      BY <3>1, <3>2
    <3> QED BY <3>2, <3>3 DEF a, b
  <2>5. recvs'[l] \in Seq({<<p, OppositeOri(ori), dir>>})
    <3>1. ~Posted(t, p) /\ Len(recvs[l]) <= Unit(Posted(t, p)) /\ Len(recvs[l]) \in Nat
      <4>1. LinkInv(s, t, p, ori, dir)
        BY DEF LinksInv
      <4> QED BY <1>6, <1>7, <4>1, PostsOne, LenProperties DEF LinkInv
    <3>2. recvs[l] = << >>
      BY <1>6, <3>1, EmptySeq DEF Unit
    <3> DEFINE b == SetToSeq(meets(l))
               S == {<<p, OppositeOri(ori), dir>>}
    <3>3. b \in Seq(S) /\ recvs'[l] = << >> \o b
      BY <1>6, <2>2, <3>2
    <3> HIDE DEF b, S
    <3>4. << >> \o b = b
      BY <3>3, ConcatEmptySeq
    <3> QED BY <3>3, <3>4 DEF S
  <2> QED BY <1>3, <1>4, <1>6, <1>7, <2>4, <2>5 DEF LinkPosted
<1>8. CASE ~isAwaited
  <2>1. recvs[l] \o << >> = recvs[l]
    BY <1>6, ConcatEmptySeq
  <2>2. recvs'[l] = recvs[l]
    BY <1>5, <1>6, <1>8, <2>1, SmallSets
  <2> QED BY <1>3, <1>4, <1>6, <1>8, <2>2 DEF LinkPosted
<1> QED BY <1>7, <1>8

LEMMA FillAndPostStep ==
  ASSUME HInv, NEW r \in Ranks, NEW q \in Coverage, FillAndPost(r, q)
  PROVE  HInv'
<1> USE DEF HInv
<1> DEFINE after == IF q + 1 \in Coverage THEN <<"fill", q + 1>> ELSE <<"wait">>
<1>1. /\ pc[r] = <<"fill", q>>
      /\ sends' = sends \cup {<<SendLink(r, f), f>> : f \in CutFaces(q)}
      /\ recvs' = [l \in Links |-> recvs'[l]]
      /\ pc' = [pc EXCEPT ![r] = after]
      /\ UNCHANGED <<next, version, status, channel>>
  BY DEF FillAndPost
<1>2. /\ ~PostedAt(pc[r], q) /\ after \in Stages
      /\ \A p \in Coverage : PostedAt(after, p) <=> PostedAt(pc[r], p) \/ p = q
  BY <1>1, PostedStages
<1> HIDE DEF after
<1>3. pc' \in [Ranks -> Stages] /\ pc'[r] = after /\ (\A t \in Ranks : t # r => pc'[t] = pc[t])
  BY <1>1, <1>2 DEF Places
<1>4. ASSUME NEW t \in Ranks, NEW p \in Coverage
      PROVE  /\ Posted(t, p)' <=> Posted(t, p) \/ (t = r /\ p = q)
             /\ ~Posted(r, q)
             /\ Done(t)' = Done(t)
             /\ Count(t, p)' = IF t = r /\ p = q THEN Count(t, p) + 1 ELSE Count(t, p)
  BY PostsOne
<1>5. ASSUME NEW s \in Ranks, NEW t \in Ranks, NEW p \in Coverage, NEW ori \in Ori, NEW dir \in Dir
      PROVE  LET l == <<s, t, Tag(p, ori, dir)>>
                 isSent == s = r /\ p = q /\ Connected(s, t, ori, dir)
                 isAwaited == t = r /\ p = q /\ Connected(s, t, ori, dir)
             IN  /\ Pending(l)' <=> Pending(l) \/ isSent
                 /\ isSent => ~Pending(l)
                 /\ recvs'[l] \in Seq(Faces)
                 /\ ~isAwaited => recvs'[l] = recvs[l]
                 /\ Len(recvs'[l]) = IF isAwaited THEN Len(recvs[l]) + 1 ELSE Len(recvs[l])
  <2>1. LinkPosted(r, q, s, t, p, ori, dir)
    BY LinksPosted
  <2> QED BY <2>1 DEF LinkPosted
<1>6. Places'
  <2>1. \A l \in Links : recvs'[l] \in Seq(Faces)
    BY <1>5, LinksFacts
  <2>2. recvs' = [l \in Links |-> recvs'[l]]
    BY <1>1
  <2>3. recvs' \in [Links -> Seq(Faces)]
    BY <2>1, <2>2
  <2> QED BY <1>1, <1>3, <2>3 DEF Places, IsList
<1>7. VersionsBounded' /\ StatusFollows'
  BY <1>1 DEF VersionsBounded, StatusFollows
<1>8. Exchanging'
  <2> SUFFICES ASSUME NEW t \in Ranks, pc'[t] # <<"app">>
               PROVE  Running(t) /\ Exchange(next[t])
    BY <1>1 DEF Exchanging, Running, Exchange
  <2>1. pc[r] # <<"app">>
    BY <1>1, StagesApart
  <2> QED BY <1>3, <2>1 DEF Exchanging
<1>9. SendsMeant'
  <2> SUFFICES ASSUME NEW x \in sends'
               PROVE  \E t \in Ranks, p \in Coverage : \E f \in CutFaces(p) :
                        x = <<SendLink(t, f), f>> /\ Posted(t, p)'
    BY DEF SendsMeant, CutFaces, SendLink, Other
  <2>1. CASE x \in sends
    BY <1>4, <2>1 DEF SendsMeant
  <2>2. CASE x \notin sends
    <3>1. PICK f \in CutFaces(q) : x = <<SendLink(r, f), f>>
      BY <1>1, <2>2
    <3> QED BY <1>4, <3>1
  <2> QED BY <2>1, <2>2
<1>10. HeardFromAll'
  <2> SUFFICES ASSUME NEW s \in Ranks, NEW t \in Ranks, NEW p \in Coverage, NEW ori \in Ori,
                      NEW dir \in Dir, Connected(s, t, ori, dir)
               PROVE  Done(s)' <= Count(t, p)'
    BY DEF HeardFromAll, Connected
  <2>1. Done(s) <= Count(t, p) /\ Done(s) \in Nat /\ Count(t, p) \in Nat
    BY CountsTyped DEF HeardFromAll
  <2> QED BY <1>4, <2>1
<1>11. ASSUME NEW s \in Ranks, NEW t \in Ranks, NEW p \in Coverage, NEW ori \in Ori, NEW dir \in Dir
       PROVE  LinkInv(s, t, p, ori, dir)'
  <2> DEFINE l == <<s, t, Tag(p, ori, dir)>>
             isSent == s = r /\ p = q /\ Connected(s, t, ori, dir)
             isAwaited == t = r /\ p = q /\ Connected(s, t, ori, dir)
  <2>1. /\ Pending(l)' <=> Pending(l) \/ isSent
        /\ isSent => ~Pending(l)
        /\ ~isAwaited => recvs'[l] = recvs[l]
        /\ Len(recvs'[l]) = IF isAwaited THEN Len(recvs[l]) + 1 ELSE Len(recvs[l])
    BY <1>5
  <2>2. l \in Links /\ recvs[l] \in Seq(Faces) /\ Len(recvs[l]) \in Nat /\ Len(channel[l]) \in Nat
    <3>1. l \in Links
      BY LinksFacts
    <3>2. recvs[l] \in Seq(Faces) /\ IsList(channel[l])
      BY <3>1 DEF Places
    <3> QED BY <3>1, <3>2, ListOperations, LenProperties
  <2>3. LinkInv(s, t, p, ori, dir) /\ channel'[l] = channel[l]
    BY <1>1 DEF LinksInv
  <2> HIDE DEF l
  <2>4. /\ Pending(l) => Connected(s, t, ori, dir)
        /\ ~Connected(s, t, ori, dir) => channel[l] = << >> /\ recvs[l] = << >>
        /\ Len(recvs[l]) <= Unit(Posted(t, p))
        /\ Connected(s, t, ori, dir) =>
             Unit(Pending(l)) + Len(channel[l]) - Len(recvs[l]) = Count(s, p) - Count(t, p)
    BY <2>3 DEF LinkInv, l
  <2>5. Len(recvs'[l]) <= Unit(Posted(t, p)')
    <3>1. CASE isAwaited
      <4>1. ~Posted(t, p) /\ Posted(t, p)'
        BY <1>4, <3>1
      <4> QED BY <2>1, <2>2, <2>4, <3>1, <4>1 DEF Unit
    <3>2. CASE ~isAwaited
      <4>1. Posted(t, p) => Posted(t, p)'
        BY <1>4
      <4> QED BY <2>1, <2>2, <2>4, <3>2, <4>1 DEF Unit
    <3> QED BY <3>1, <3>2
  <2>6. ASSUME Connected(s, t, ori, dir)
        PROVE  Unit(Pending(l)') + Len(channel'[l]) - Len(recvs'[l]) = Count(s, p)' - Count(t, p)'
    <3>1. Unit(Pending(l)') = IF isSent THEN Unit(Pending(l)) + 1 ELSE Unit(Pending(l))
      BY <2>1 DEF Unit
    <3>2. Unit(Pending(l)) \in Nat /\ Count(s, p) \in Nat /\ Count(t, p) \in Nat
      BY CountsTyped DEF Unit
    <3>3. /\ Count(s, p)' = IF isSent THEN Count(s, p) + 1 ELSE Count(s, p)
          /\ Count(t, p)' = IF isAwaited THEN Count(t, p) + 1 ELSE Count(t, p)
      BY <1>4, <2>6
    <3>4. Unit(Pending(l)) + Len(channel[l]) - Len(recvs[l]) = Count(s, p) - Count(t, p)
      BY <2>4, <2>6
    <3>5. Len(recvs'[l]) = (IF isAwaited THEN Len(recvs[l]) + 1 ELSE Len(recvs[l]))
          /\ Len(channel'[l]) = Len(channel[l])
      BY <2>1, <2>3
    <3> DEFINE u == Unit(Pending(l))
               c == Len(channel[l])
               w == Len(recvs[l])
               a == Count(s, p)
               b == Count(t, p)
               sent == IF isSent THEN 1 ELSE 0
               awaited == IF isAwaited THEN 1 ELSE 0
    <3>6. /\ u + c - w = a - b /\ u \in Nat /\ c \in Nat /\ w \in Nat /\ a \in Nat /\ b \in Nat
          /\ sent \in Nat /\ awaited \in Nat
      BY <2>2, <3>2, <3>4
    <3> HIDE DEF u, c, w, a, b
    <3>7. /\ Unit(Pending(l)') = u + sent /\ Len(channel'[l]) = c /\ Len(recvs'[l]) = w + awaited
          /\ Count(s, p)' = a + sent /\ Count(t, p)' = b + awaited
      <4>1. /\ Unit(Pending(l)') = (IF isSent THEN u + 1 ELSE u)
            /\ Count(s, p)' = (IF isSent THEN a + 1 ELSE a)
        BY <3>1, <3>3 DEF u, a
      <4>2. /\ Len(recvs'[l]) = (IF isAwaited THEN w + 1 ELSE w)
            /\ Count(t, p)' = (IF isAwaited THEN b + 1 ELSE b)
            /\ Len(channel'[l]) = c
        BY <3>3, <3>5 DEF w, b, c
      <4> HIDE DEF isSent, isAwaited
      <4> QED BY <3>6, <4>1, <4>2
    <3> HIDE DEF sent, awaited
    <3>8. (u + sent) + c - (w + awaited) = (a + sent) - (b + awaited)
      BY <3>6
    <3> QED BY <3>7, <3>8
  <2>7. LinkInv(s, t, p, ori, dir)' <=>
          /\ Pending(l)' => Connected(s, t, ori, dir)
          /\ ~Connected(s, t, ori, dir) => channel'[l] = << >> /\ recvs'[l] = << >>
          /\ Len(recvs'[l]) <= Unit(Posted(t, p)')
          /\ Connected(s, t, ori, dir) =>
               Unit(Pending(l)') + Len(channel'[l]) - Len(recvs'[l]) = Count(s, p)' - Count(t, p)'
    BY DEF LinkInv, l, Connected
  <2> QED BY <2>1, <2>3, <2>4, <2>5, <2>6, <2>7
<1> QED BY <1>6, <1>7, <1>8, <1>9, <1>10, <1>11 DEF LinksInv

------------------------------------------------------------------------------
(* The steps of MPI.                                                       *)

\* The ranks do not move.
LEMMA OnlyMPI ==
  ASSUME HInv, UNCHANGED <<next, pc, version, status>>
  PROVE  /\ VersionsBounded' /\ StatusFollows' /\ Exchanging' /\ HeardFromAll'
         /\ \A t \in Ranks, p \in Coverage :
              Count(t, p)' = Count(t, p) /\ (Posted(t, p)' <=> Posted(t, p))
<1>1. VersionsBounded' /\ StatusFollows' /\ Exchanging'
  BY DEF HInv, VersionsBounded, StatusFollows, Exchanging, Running, Exchange
<1>2. \A t \in Ranks, p \in Coverage :
         Count(t, p)' = Count(t, p) /\ (Posted(t, p)' <=> Posted(t, p)) /\ Done(t)' = Done(t)
  BY CountKept
<1>3. HeardFromAll'
  BY <1>2 DEF HInv, HeardFromAll, Connected
<1> QED BY <1>1, <1>2, <1>3

\* A send is read: the message is on the way instead of pending.
LEMMA TransmitStep ==
  ASSUME HInv, NEW x \in sends, Transmit(x)
  PROVE  HInv'
<1> USE DEF HInv
<1>1. PICK message :
        /\ sends' = sends \ {x}
        /\ channel' = [channel EXCEPT ![x[1]] = Append(@, message)]
        /\ UNCHANGED <<next, pc, version, status, recvs>>
  BY DEF Transmit
<1>2. /\ VersionsBounded' /\ StatusFollows' /\ Exchanging' /\ HeardFromAll'
      /\ \A t \in Ranks, p \in Coverage :
           Count(t, p)' = Count(t, p) /\ (Posted(t, p)' <=> Posted(t, p))
  BY <1>1, OnlyMPI
<1>3. Places'
  <2>1. channel' = [l \in Links |-> IF l = x[1] THEN Append(channel[l], message) ELSE channel[l]]
    BY <1>1 DEF Places
  <2>2. \A l \in Links : IsList(channel'[l])
    BY <2>1, ListOperations DEF Places
  <2>3. channel' = [l \in Links |-> channel'[l]]
    BY <2>1
  <2> QED BY <1>1, <2>2, <2>3 DEF Places
<1>4. SendsMeant'
  <2> SUFFICES ASSUME NEW y \in sends'
               PROVE  \E t \in Ranks, p \in Coverage : \E f \in CutFaces(p) :
                        y = <<SendLink(t, f), f>> /\ Posted(t, p)'
    BY DEF SendsMeant, CutFaces, SendLink, Other
  <2> QED BY <1>1, <1>2 DEF SendsMeant
<1>5. ASSUME NEW s \in Ranks, NEW r \in Ranks, NEW p \in Coverage, NEW ori \in Ori, NEW dir \in Dir
      PROVE  LinkInv(s, r, p, ori, dir)'
  <2> DEFINE l == <<s, r, Tag(p, ori, dir)>>
  <2>1. l \in Links
    BY LinksFacts
  <2>2. LinkInv(s, r, p, ori, dir)
    BY DEF LinksInv
  <2>3. CASE x[1] = l
    <3>1. Connected(s, r, ori, dir) /\ \A y \in sends : y[1] = l => y = x
      BY <2>3, RequestMeant
    <3>2. Pending(l) /\ ~Pending(l)'
      BY <1>1, <2>3, <3>1 DEF Pending
    <3>3. Len(channel'[l]) = Len(channel[l]) + 1 /\ Len(channel[l]) \in Nat
      BY <1>1, <2>1, <2>3, ListOperations DEF Places
    <3>4. Unit(Pending(l)) + Len(channel[l]) - Len(recvs[l]) = Count(s, p) - Count(r, p)
      BY <2>2, <3>1 DEF LinkInv
    <3>5. Unit(Pending(l)) = 1 /\ Unit(Pending(l)') = 0
      BY <3>2 DEF Unit
    <3>6. recvs[l] \in Seq(Faces)
      BY <2>1 DEF Places
    <3>7. Len(recvs[l]) \in Nat
      BY <3>6, LenProperties
    <3>8. Unit(Pending(l)') + Len(channel'[l]) - Len(recvs'[l]) = Count(s, p)' - Count(r, p)'
      <4> HIDE DEF l
      <4>1. recvs' = recvs /\ Count(s, p)' = Count(s, p) /\ Count(r, p)' = Count(r, p)
        BY <1>1, <1>2
      <4>2. 1 + Len(channel[l]) - Len(recvs[l]) = Count(s, p) - Count(r, p)
        BY <3>4, <3>5
      <4> DEFINE c == Len(channel[l])
                 w == Len(recvs[l])
                 balance == Count(s, p) - Count(r, p)
      <4>3. c \in Nat /\ w \in Nat /\ 1 + c - w = balance
        BY <3>3, <3>7, <4>2
      <4>4. /\ Len(channel'[l]) = c + 1 /\ Len(recvs'[l]) = w
            /\ Count(s, p)' - Count(r, p)' = balance
        BY <3>3, <4>1
      <4> HIDE DEF c, w, balance
      <4>5. 0 + (c + 1) - w = balance
        BY <4>3
      <4> QED BY <3>5, <4>4, <4>5
    <3>9. Len(recvs[l]) <= Unit(Posted(r, p)) /\ recvs' = recvs
      BY <1>1, <2>2 DEF LinkInv
    <3>10. Len(recvs'[l]) <= Unit(Posted(r, p)')
      BY <1>2, <3>9 DEF Unit
    <3>11. Connected(s, r, ori, dir)'
      BY <3>1 DEF Connected
    <3> QED BY <3>1, <3>8, <3>10, <3>11 DEF LinkInv
  <2>4. CASE x[1] # l
    <3>1. Pending(l)' <=> Pending(l)
      BY <1>1, <2>4 DEF Pending
    <3>2. channel'[l] = channel[l] /\ recvs'[l] = recvs[l]
      BY <1>1, <2>1, <2>4 DEF Places
    <3> QED BY <1>2, <2>2, <3>1, <3>2, LinkKept
  <2> QED BY <2>3, <2>4
<1> QED BY <1>2, <1>3, <1>4, <1>5 DEF LinksInv

\* A message meets a receive: one less of each.
LEMMA DeliverStep ==
  ASSUME HInv, NEW m \in Links, Deliver(m)
  PROVE  HInv'
<1> USE DEF HInv
<1>1. /\ channel[m] # << >> /\ recvs[m] # << >>
      /\ channel' = [channel EXCEPT ![m] = Tail(@)]
      /\ recvs' = [recvs EXCEPT ![m] = Tail(@)]
      /\ UNCHANGED <<next, pc, version, status, sends>>
  BY DEF Deliver
<1>2. /\ VersionsBounded' /\ StatusFollows' /\ Exchanging' /\ HeardFromAll'
      /\ \A t \in Ranks, p \in Coverage :
           Count(t, p)' = Count(t, p) /\ (Posted(t, p)' <=> Posted(t, p))
  BY <1>1, OnlyMPI
<1>3. /\ IsList(channel[m]) /\ IsList(Tail(channel[m])) /\ Len(channel[m]) \in Nat
      /\ Len(Tail(channel[m])) = Len(channel[m]) - 1
      /\ recvs[m] \in Seq(Faces) /\ Tail(recvs[m]) \in Seq(Faces) /\ Len(recvs[m]) \in Nat
      /\ Len(Tail(recvs[m])) = Len(recvs[m]) - 1
  <2>1. IsList(channel[m]) /\ recvs[m] \in Seq(Faces)
    BY DEF Places
  <2>2. IsList(Tail(channel[m])) /\ Len(channel[m]) \in Nat
        /\ Len(Tail(channel[m])) = Len(channel[m]) - 1
    BY <1>1, <2>1, ListOperations
  <2>3. Tail(recvs[m]) \in Seq(Faces) /\ Len(recvs[m]) \in Nat
        /\ Len(Tail(recvs[m])) = Len(recvs[m]) - 1
    BY <1>1, <2>1, HeadTailProperties, LenProperties
  <2> QED BY <2>1, <2>2, <2>3
<1>4. Places'
  <2>1. channel' = [l \in Links |-> IF l = m THEN Tail(channel[l]) ELSE channel[l]]
    BY <1>1 DEF Places
  <2>2. \A l \in Links : IsList(channel'[l])
    BY <1>3, <2>1 DEF Places
  <2>3. channel' = [l \in Links |-> channel'[l]]
    BY <2>1
  <2>4. recvs' \in [Links -> Seq(Faces)]
    BY <1>1, <1>3 DEF Places
  <2> QED BY <1>1, <2>2, <2>3, <2>4 DEF Places
<1>5. SendsMeant'
  <2> SUFFICES ASSUME NEW y \in sends
               PROVE  \E t \in Ranks, p \in Coverage : \E f \in CutFaces(p) :
                        y = <<SendLink(t, f), f>> /\ Posted(t, p)'
    BY <1>1 DEF SendsMeant, CutFaces, SendLink, Other
  <2> QED BY <1>2 DEF SendsMeant
<1>6. ASSUME NEW s \in Ranks, NEW r \in Ranks, NEW p \in Coverage, NEW ori \in Ori, NEW dir \in Dir
      PROVE  LinkInv(s, r, p, ori, dir)'
  <2> DEFINE l == <<s, r, Tag(p, ori, dir)>>
  <2>1. l \in Links
    BY LinksFacts
  <2>2. LinkInv(s, r, p, ori, dir)
    BY DEF LinksInv
  <2>3. Pending(l)' <=> Pending(l)
    BY <1>1 DEF Pending
  <2>4. CASE m = l
    <3>1. Connected(s, r, ori, dir)
      BY <1>1, <2>2, <2>4 DEF LinkInv
    <3>2. channel'[l] = Tail(channel[m]) /\ recvs'[l] = Tail(recvs[m])
      BY <1>1, <2>1, <2>4 DEF Places
    <3>3. /\ Unit(Pending(l)) + Len(channel[m]) - Len(recvs[m]) = Count(s, p) - Count(r, p)
          /\ Len(recvs[m]) <= Unit(Posted(r, p))
      BY <2>2, <2>4, <3>1 DEF LinkInv
    <3>4. Unit(Pending(l)') = Unit(Pending(l)) /\ Unit(Pending(l)) \in Nat
      BY <2>3 DEF Unit
    <3>5. Unit(Posted(r, p)') = Unit(Posted(r, p)) /\ Unit(Posted(r, p)) \in Nat
      BY <1>2 DEF Unit
    <3>6. Count(s, p)' = Count(s, p) /\ Count(r, p)' = Count(r, p)
      BY <1>2
    <3>7. /\ Unit(Pending(l)') + Len(channel'[l]) - Len(recvs'[l]) = Count(s, p)' - Count(r, p)'
          /\ Len(recvs'[l]) <= Unit(Posted(r, p)')
      <4> DEFINE u == Unit(Pending(l))
                 v == Unit(Posted(r, p))
                 c == Len(channel[m])
                 w == Len(recvs[m])
                 balance == Count(s, p) - Count(r, p)
      <4>1. /\ u + c - w = balance /\ w <= v
            /\ u \in Nat /\ v \in Nat /\ c \in Nat /\ w \in Nat
        BY <1>3, <3>3, <3>4, <3>5
      <4>2. /\ Len(channel'[l]) = c - 1 /\ Len(recvs'[l]) = w - 1
            /\ Count(s, p)' - Count(r, p)' = balance
        BY <1>3, <3>2, <3>6
      <4> HIDE DEF l, u, v, c, w, balance
      <4>3. u + (c - 1) - (w - 1) = balance /\ w - 1 <= v
        BY <4>1
      <4> QED BY <3>4, <3>5, <4>2, <4>3 DEF u, v
    <3>8. Connected(s, r, ori, dir)'
      BY <3>1 DEF Connected
    <3> QED BY <3>7, <3>8 DEF LinkInv
  <2>5. CASE m # l
    <3>1. channel'[l] = channel[l] /\ recvs'[l] = recvs[l]
      BY <1>1, <2>1, <2>5 DEF Places
    <3> QED BY <1>2, <2>2, <2>3, <3>1, LinkKept
  <2> QED BY <2>4, <2>5
<1> QED BY <1>2, <1>4, <1>5, <1>6 DEF LinksInv

------------------------------------------------------------------------------
(* The theorems.                                                           *)

LEMMA FirstInvariant == Init => HInv
<1> SUFFICES ASSUME Init PROVE HInv
  OBVIOUS
<1>1. /\ next = [r \in Ranks |-> 1] /\ pc = [r \in Ranks |-> <<"app">>]
      /\ version = [r \in Ranks |-> [f \in Fields |-> 0]]
      /\ status = [r \in Ranks |-> [f \in Fields |-> "NOT_UPDATED"]]
      /\ sends = {} /\ recvs = [l \in Links |-> << >>] /\ channel = [l \in Links |-> << >>]
  BY DEF Init
<1>2. << >> \in Seq(Faces) /\ IsList(<< >>) /\ Len(<< >>) = 0
  <2>1. \A S : << >> \in Seq(S)
    OBVIOUS
  <2> QED BY <2>1 DEF IsList
<1>3. Places
  BY <1>1, <1>2, ScriptFacts DEF Places, Stages
<1>4. VersionsBounded
  BY <1>1 DEF VersionsBounded
<1>5. StatusFollows
  <2>1. ~ \E i \in 1..(1 - 1) : TRUE
    OBVIOUS
  <2> QED BY <1>1, <2>1 DEF StatusFollows
<1>6. Exchanging /\ SendsMeant
  BY <1>1 DEF Exchanging, SendsMeant
<1>7. \A r \in Ranks, p \in Coverage : ~Posted(r, p)
  BY <1>1, PostedStages DEF Posted
<1>8. \A r \in Ranks, p \in Coverage :
        Done(r) = 0 /\ Count(r, p) = 0
  <2>1. Exchanges(1) = {}
    BY DEF Exchanges
  <2>2. \A r \in Ranks : Done(r) = 0
    BY <1>1, <2>1, FS_EmptySet DEF Done
  <2> QED BY <1>7, <2>2 DEF Count, Unit
<1>9. ASSUME NEW s \in Ranks, NEW r \in Ranks, NEW p \in Coverage, NEW ori \in Ori, NEW dir \in Dir
      PROVE  LinkInv(s, r, p, ori, dir)
  <2> DEFINE l == <<s, r, Tag(p, ori, dir)>>
  <2>1. ~Pending(l)
    BY <1>1 DEF Pending
  <2>2. recvs[l] = << >> /\ channel[l] = << >>
    BY <1>1, LinksFacts
  <2>3. Unit(Pending(l)) = 0 /\ Unit(Posted(r, p)) = 0
    BY <1>7, <2>1 DEF Unit
  <2> HIDE DEF l
  <2>4. Unit(Pending(l)) + Len(channel[l]) - Len(recvs[l]) = Count(s, p) - Count(r, p)
    BY <1>2, <1>8, <2>2, <2>3
  <2>5. Len(recvs[l]) <= Unit(Posted(r, p))
    BY <1>2, <2>2, <2>3
  <2> QED BY <2>1, <2>2, <2>4, <2>5 DEF LinkInv, l
<1>10. LinksInv /\ HeardFromAll
  BY <1>8, <1>9 DEF LinksInv, HeardFromAll
<1> QED BY <1>3, <1>4, <1>5, <1>6, <1>10 DEF HInv

LEMMA StutterStep == HInv /\ UNCHANGED vars => HInv'
<1> SUFFICES ASSUME HInv, UNCHANGED vars PROVE HInv'
  OBVIOUS
<1>1. UNCHANGED <<next, pc, version, status, sends, recvs, channel>>
  BY DEF vars
<1>2. VersionsBounded' /\ StatusFollows' /\ Exchanging' /\ HeardFromAll'
  BY <1>1, OnlyMPI
<1>3. \A t \in Ranks, p \in Coverage :
         Count(t, p)' = Count(t, p) /\ (Posted(t, p)' <=> Posted(t, p))
  BY <1>1, OnlyMPI
<1>4. Silent
  BY <1>1, <1>3 DEF Silent
<1>5. LinksInv' /\ SendsMeant'
  BY <1>4, SilentKeepsLinks
<1>6. Places'
  BY <1>1 DEF HInv, Places, IsList
<1> QED BY <1>2, <1>5, <1>6 DEF HInv

\* The invariant holds in every run: for any lattice, grid of ranks, layout, fields,
\* script, and whatever the order in which ranks and MPI move.
THEOREM HaloInductive == Spec => []HInv
<1>1. Init => HInv
  BY FirstInvariant
<1>2. HInv /\ [Next]_vars => HInv'
  <2> SUFFICES ASSUME HInv, [Next]_vars PROVE HInv'
    OBVIOUS
  <2>1. ASSUME NEW r \in Ranks, Write(r) PROVE HInv'
    BY <2>1, WriteStep
  <2>2. ASSUME NEW r \in Ranks, EarlyReturn(r) PROVE HInv'
    BY <2>2, EarlyReturnStep
  <2>3. ASSUME NEW r \in Ranks, StartUpdate(r) PROVE HInv'
    BY <2>3, StartUpdateStep
  <2>4. ASSUME NEW r \in Ranks, NEW p \in Coverage, FillAndPost(r, p) PROVE HInv'
    BY <2>4, FillAndPostStep
  <2>5. ASSUME NEW r \in Ranks, Finish(r) PROVE HInv'
    BY <2>5, FinishStep
  <2>6. ASSUME NEW s \in sends, Transmit(s) PROVE HInv'
    BY <2>6, TransmitStep
  <2>7. ASSUME NEW l \in Links, Deliver(l) PROVE HInv'
    BY <2>7, DeliverStep
  <2>8. CASE UNCHANGED vars
    BY <2>8, StutterStep
  <2> QED BY <2>1, <2>2, <2>3, <2>4, <2>5, <2>6, <2>7, <2>8 DEF Next
<1> QED BY <1>1, <1>2, PTL DEF Spec

\* NothingLeftOver: two ranks at the same place have posted as much, so nothing is
\* left in the links between them.
THEOREM NothingLeft == Spec => []NothingLeftOver
<1>1. HInv => NothingLeftOver
  <2> SUFFICES ASSUME HInv, NEW l \in Links,
                      pc[l[1]] = <<"app">>, pc[l[2]] = <<"app">>, next[l[1]] = next[l[2]]
               PROVE  channel[l] = << >> /\ recvs[l] = << >> /\ ~Pending(l)
    BY DEF NothingLeftOver, Pending
  <2>1. PICK s \in Ranks, r \in Ranks, p \in Coverage : \E ori \in Ori, dir \in Dir :
          l = <<s, r, Tag(p, ori, dir)>>
    BY LinksFacts
  <2>2. PICK ori \in Ori, dir \in Dir : l = <<s, r, Tag(p, ori, dir)>>
    BY <2>1
  <2>3. LinkInv(s, r, p, ori, dir)
    BY DEF HInv, LinksInv
  <2>4. l[1] = s /\ l[2] = r
    BY <2>2
  <2>5. ~Posted(s, p) /\ ~Posted(r, p)
    BY <2>4, PostedStages DEF Posted
  <2>6. Count(s, p) = Count(r, p) /\ Count(r, p) \in Nat
    BY <2>4, <2>5, CountsTyped DEF Count, Unit, Done, HInv
  <2>7. IsList(channel[l]) /\ IsList(recvs[l])
    BY DEF HInv, Places, IsList
  <2>8. /\ Len(channel[l]) \in Nat /\ (Len(channel[l]) = 0 <=> channel[l] = << >>)
        /\ Len(recvs[l]) \in Nat /\ (Len(recvs[l]) = 0 <=> recvs[l] = << >>)
    BY <2>7, ListOperations
  <2>9. Len(recvs[l]) = 0
    <3>1. Len(recvs[l]) <= 0
      BY <2>2, <2>3, <2>5 DEF LinkInv, Unit
    <3> QED BY <2>8, <3>1
  <2>10. CASE Connected(s, r, ori, dir)
    <3>1. Unit(Pending(l)) + Len(channel[l]) - Len(recvs[l]) = Count(s, p) - Count(r, p)
      BY <2>2, <2>3, <2>10 DEF LinkInv
    <3>2. Unit(Pending(l)) \in Nat /\ (Pending(l) => Unit(Pending(l)) = 1)
      BY DEF Unit
    <3> DEFINE u == Unit(Pending(l))
    <3>3. u + Len(channel[l]) - Len(recvs[l]) = Count(s, p) - Count(r, p) /\ u \in Nat
      BY <3>1, <3>2
    <3> HIDE DEF u
    <3>4. u = 0 /\ Len(channel[l]) = 0
      BY <2>6, <2>8, <2>9, <3>3
    <3>5. ~Pending(l)
      BY <3>2, <3>4 DEF u
    <3> QED BY <2>8, <2>9, <3>4, <3>5
  <2>11. CASE ~Connected(s, r, ori, dir)
    BY <2>2, <2>3, <2>11 DEF LinkInv
  <2> QED BY <2>10, <2>11
<1> QED BY <1>1, HaloInductive, PTL

\* HaloTypeOK: a rank that runs ahead of a neighbour is one update ahead at most,
\* though it waits for no answer, so two messages are in a link at most.
THEOREM HaloTyped == Spec => []HaloTypeOK
<1>1. HInv => HaloTypeOK
  <2> SUFFICES ASSUME HInv PROVE HaloTypeOK
    OBVIOUS
  <2>1. version \in [Ranks -> [Fields -> 0..Len(Script)]]
    <3>1. ASSUME NEW r \in Ranks, NEW f \in Fields PROVE version[r][f] \in 0..Len(Script)
      BY ScriptFacts DEF HInv, Places, VersionsBounded
    <3>2. version \in [Ranks -> [Fields -> Nat]]
      BY DEF HInv, Places
    <3> QED BY <3>1, <3>2
  <2>2. ASSUME NEW x \in sends PROVE x[1] \in Links
    <3>1. PICK t \in Ranks, p \in Coverage : \E f \in CutFaces(p) : x = <<SendLink(t, f), f>>
      BY DEF HInv, SendsMeant
    <3>2. PICK f \in CutFaces(p) : x = <<SendLink(t, f), f>>
      BY <3>1
    <3>3. f[1] = p /\ f[2] \in Ori /\ f[3] \in Dir
      BY DEF CutFaces
    <3>4. Other(t, f) \in Ranks
      BY <3>3, RanksFacts, NeighbourInverse DEF Other, Ranks
    <3> QED BY <3>2, <3>3, <3>4 DEF SendLink, Links
  <2>3. ASSUME NEW l \in Links PROVE Len(channel[l]) <= 2 /\ Len(recvs[l]) <= 1
    <3>1. PICK s \in Ranks, r \in Ranks, p \in Coverage : \E ori \in Ori, dir \in Dir :
            l = <<s, r, Tag(p, ori, dir)>>
      BY LinksFacts
    <3>2. PICK ori \in Ori, dir \in Dir : l = <<s, r, Tag(p, ori, dir)>>
      BY <3>1
    <3>3. LinkInv(s, r, p, ori, dir) /\ Places
      BY DEF HInv, LinksInv
    <3>4. /\ Len(channel[l]) \in Nat /\ Len(recvs[l]) \in Nat
          /\ (channel[l] = << >> => Len(channel[l]) = 0)
      BY <3>3, ListOperations, LenProperties DEF Places
    <3>5. Len(recvs[l]) <= 1
      <4>1. Len(recvs[l]) <= Unit(Posted(r, p))
        BY <3>2, <3>3 DEF LinkInv
      <4> QED BY <3>4, <4>1 DEF Unit
    <3>6. CASE Connected(s, r, ori, dir)
      <4> DEFINE u == Unit(Pending(l))
      <4>1. u + Len(channel[l]) - Len(recvs[l]) = Count(s, p) - Count(r, p) /\ u \in Nat
        BY <3>2, <3>3, <3>6 DEF LinkInv, Unit
      <4>2. Done(s) <= Count(r, p)
        BY <3>6 DEF HInv, HeardFromAll
      <4>3. /\ Done(s) \in Nat /\ Count(r, p) \in Nat /\ Count(s, p) \in Nat
            /\ Count(s, p) <= Done(s) + 1
        BY <3>3, CountsTyped
      <4> DEFINE c == Len(channel[l])
                 w == Len(recvs[l])
                 a == Count(s, p)
                 b == Count(r, p)
                 d == Done(s)
      <4>4. /\ c \in Nat /\ w \in Nat /\ u \in Nat /\ a \in Nat /\ b \in Nat /\ d \in Nat
            /\ w <= 1 /\ d <= b /\ a <= d + 1 /\ u + c - w = a - b
        BY <3>4, <3>5, <4>1, <4>2, <4>3
      <4> HIDE DEF u, c, w, a, b, d
      <4>5. c <= 2
        BY <4>4
      <4> QED BY <3>5, <4>5 DEF c
    <3>7. CASE ~Connected(s, r, ori, dir)
      BY <3>2, <3>3, <3>4, <3>5, <3>7 DEF LinkInv
    <3> QED BY <3>6, <3>7
  <2> QED BY <2>1, <2>2, <2>3 DEF HaloTypeOK, HInv, Places
<1> QED BY <1>1, HaloInductive, PTL

------------------------------------------------------------------------------
(* What the halos, the buffers and the messages hold.                      *)

\* The version of a field at a place of the script.
Writes(k, f) == Cardinality({j \in 1..(k - 1) : Script[j] = [op |-> "write", field |-> f]})

\* The lanes on the border, and the place i of a section of the halo.
Border(ori, dir) == NonLoc[<<ori, dir>>]

Slot(r, p, ori, dir, i) == EoHaloOffset(SiteG[r], p, ori, dir) + i

\* The site of the face opposite to (ori, dir) that comes i-th in it.
Facing(s, p, ori, dir, i) ==
  CHOOSE y \in Lookers(SiteG[s], p, OppositeOri(ori), dir) :
     Pos(SiteG[s], p, y, OppositeOri(ori), dir) = i

\* What the rank s has behind its face (ori, dir) if it is alone.
Alone(s, p, ori, dir, i, lane) ==
  GlbSite[s][<<p, Facing(s, p, ori, dir, i), RankNeighbour(lane, Lat.nSimdRanks, ori, dir)>>]

SlotsOf(r, p, ori, dir) == 0..(EoHaloPerDir(SiteG[r], p, ori, dir) - 1)

\* The halo of a rank that is alone, and that of a rank among others.
HoldsOwn(r, f, v) ==
  \A p \in Coverage, ori \in Ori, dir \in Dir : \A i \in SlotsOf(r, p, ori, dir), lane \in Lanes :
     halo[r][f][<<p, Slot(r, p, ori, dir, i), lane>>] = <<f, Alone(r, p, ori, dir, i, lane), v>>

HoldsOthers(r, f, v) ==
  \A p \in Coverage, ori \in Ori, dir \in Dir : \A i \in SlotsOf(r, p, ori, dir), lane \in Lanes :
     halo[r][f][<<p, Slot(r, p, ori, dir, i), lane>>]
       = <<f, Alone(RankAcross(Lat, r, lane, ori, dir), p, ori, dir, i, lane), v>>

\* What the rank s sends for its face f, of the field g in its version v: in order of the
\* places of its face, then of the lanes on the border.
Element(s, g, f, v, t) ==
  LET border == Border(OppositeOri(f[2]), f[3])
  IN  <<g, Alone(s, f[1], OppositeOri(f[2]), f[3], t \div Len(border),
                 border[(t % Len(border)) + 1]), v>>

\* The message of the rank s for its face f in the update n.
Message(s, n, f) ==
  [t \in 0..(Section(s, f).n - 1) |->
     Element(s, Script[n].field, f, Writes(n, Script[n].field), t)]

BufferSlot(r, f, t) == <<f[1], Section(r, f).offset + t>>

\* How many exchanges come before the place n, and this one.
Number(n) == Cardinality(Exchanges(n)) + 1

\* The functions of the model have their domains.
Domains ==
  /\ halo = [r \in Ranks |-> halo[r]] /\ updatedAt = [r \in Ranks |-> updatedAt[r]]
  /\ out = [r \in Ranks |-> out[r]] /\ in = [r \in Ranks |-> in[r]]
  /\ \A r \in Ranks :
       /\ halo[r] = [f \in Fields |-> halo[r][f]]
       /\ updatedAt[r] = [f \in Fields |-> updatedAt[r][f]]
       /\ \A f \in Fields : DOMAIN halo[r][f] = Coverage \X HaloSlots(SiteG[r]) \X Lanes
       /\ DOMAIN out[r] = Coverage \X HaloSlots(LocG[r])
       /\ DOMAIN in[r] = Coverage \X HaloSlots(LocG[r])

VersionsFollow == \A r \in Ranks, f \in Fields : version[r][f] = Writes(next[r], f)

\* In an update, the halo of the field is that of the rank alone.
FilledAt(r) == pc[r] # <<"app">> => HoldsOwn(r, TheField(r), version[r][TheField(r)])

\* What is posted is the message of this update.
PackedAt(r, p) ==
  Posted(r, p) => \A f \in CutFaces(p) : \A t \in 0..(Section(r, f).n - 1) :
                     out[r][BufferSlot(r, f, t)] = Message(r, next[r], f)[t]

\* The messages on the way are those of the exchanges after the last delivered, in order.
MessagesOn(s, r, p, ori, dir) ==
  LET l == <<s, r, Tag(p, ori, dir)>>
  IN  Connected(s, r, ori, dir) =>
        \A k \in 1..Len(channel[l]) : \E n \in 1..Len(Script) :
           /\ Exchange(n) /\ Number(n) = Count(r, p) - Len(recvs[l]) + k
           /\ channel[l][k] = Message(s, n, <<p, ori, dir>>)

\* A receive is for the face opposite to that of the message.
RecvMeant(s, r, p, ori, dir) ==
  recvs[<<s, r, Tag(p, ori, dir)>>] \in Seq({<<p, OppositeOri(ori), dir>>})

\* What is received is the message of this update of the rank behind the face.
ReceivedAt(r, p) ==
  Posted(r, p) =>
    \A f \in CutFaces(p) :
      recvs[RecvLink(r, f)] = << >> =>
        \A t \in 0..(Section(r, f).n - 1) :
          in[r][BufferSlot(r, f, t)]
            = Message(Other(r, f), next[r], <<f[1], OppositeOri(f[2]), f[3]>>)[t]

\* An updated halo holds the neighbours' sites of that version.
UpdatedAt(r, f) == status[r][f] = "UPDATED" => HoldsOthers(r, f, updatedAt[r][f])

DInv == /\ Domains
        /\ VersionsFollow
        /\ \A r \in Ranks : FilledAt(r)
        /\ \A r \in Ranks, p \in Coverage : PackedAt(r, p) /\ ReceivedAt(r, p)
        /\ \A s \in Ranks, r \in Ranks, p \in Coverage, ori \in Ori, dir \in Dir :
              MessagesOn(s, r, p, ori, dir) /\ RecvMeant(s, r, p, ori, dir)
        /\ \A r \in Ranks, f \in Fields : UpdatedAt(r, f)

------------------------------------------------------------------------------
(* Grids, sections and lanes of the ranks.                                 *)

LEMMA OppositeFacts ==
  /\ \A o \in Ori : OppositeOri(o) \in Ori /\ OppositeOri(OppositeOri(o)) = o
  /\ \A p \in Parity : OppositeParity(p) \in Parity /\ OppositeParity(OppositeParity(p)) = p
  BY DEF OppositeOri, Ori, BW, FW, OppositeParity, Parity

\* The slot of a site that leaves is that of its place on the face, in the section behind
\* the opposite one.
LEMMA SentIs ==
  ASSUME NEW g, GoodGrid(g), \A d \in Dir : HaloPerDir(g)[d] % 2 = 0, NEW p \in Parity,
         NEW x \in EoSites(g), NEW o \in Ori, NEW d \in Dir, OnFace(g, p, x, o, d)
  PROVE  /\ Sent(g, p, <<x, o, d>>)
              = EoHaloOffset(g, p, OppositeOri(o), d) + Pos(g, p, x, o, d)
         /\ Pos(g, p, x, o, d) \in 0..(EoHaloPerDir(g, p, OppositeOri(o), d) - 1)
<1>1. OppositeOri(o) \in Ori /\ OppositeParity(p) \in Parity
  BY OppositeFacts
<1>2. x \in Lookers(g, p, o, d)
  BY DEF Lookers
<1>3. Pos(g, p, x, o, d) \in 0..(EoHaloPerDir(g, OppositeParity(p), o, d) - 1)
  BY <1>2, SlotsBehindFace
<1>4. EoHaloPerDir(g, OppositeParity(p), o, d) = EoHaloPerDir(g, p, OppositeOri(o), d)
      /\ EoHaloOffset(g, OppositeParity(p), o, d) = EoHaloOffset(g, p, o, d)
  BY <1>1, GridsAlike
<1>5. EoHaloOffset(g, p, o, d) \in Nat /\ EoHaloOffset(g, p, OppositeOri(o), d) \in Nat
  BY <1>1, HaloSection
<1>6. Sent(g, p, <<x, o, d>>)
        = (EoHaloOffset(g, p, o, d) + Pos(g, p, x, o, d))
          + (EoHaloOffset(g, p, OppositeOri(o), d) - EoHaloOffset(g, p, o, d))
  BY <1>4 DEF Sent, Behind
<1> DEFINE a == EoHaloOffset(g, p, o, d)
           b == EoHaloOffset(g, p, OppositeOri(o), d)
           w == Pos(g, p, x, o, d)
<1>7. w \in Int
  BY <1>3
<1> HIDE DEF a, b, w
<1>8. (a + w) + (b - a) = b + w
  BY <1>5, <1>7 DEF a, b
<1> QED BY <1>3, <1>4, <1>6, <1>8 DEF a, b, w

\* The grids of the sites and of the messages.
LEMMA GridsOfRanks ==
  ASSUME Layout = "simdifiable", EvenLattice, NEW s \in Ranks
  PROVE  /\ SiteG[s] = SimdLocGrid(Lat, s) /\ LocG[s] = LocGrid(Lat, s)
         /\ GoodGrid(SiteG[s]) /\ GoodGrid(LocG[s])
         /\ \A d \in Dir : HaloPerDir(SiteG[s])[d] % 2 = 0 /\ HaloPerDir(LocG[s])[d] % 2 = 0
         /\ Lanes = RanksOf(Lat.nSimdRanks)
         /\ \A p \in Parity, o \in Ori, d \in Dir : Lat.nRanks[d] > 1 =>
              /\ Len(Border(o, d)) \in Nat \ {0}
              /\ EoHaloPerDir(SiteG[s], p, o, d) * Len(Border(o, d))
                   = EoHaloPerDir(LocG[s], p, o, d)
<1> DEFINE g == SimdLocGrid(Lat, s)
           h == LocGrid(Lat, s)
<1>1. SiteG[s] = g /\ LocG[s] = h /\ Lanes = RanksOf(Lat.nSimdRanks)
  BY DEF SiteG, LocG, Lanes
<1>2. Divided(Lat) /\ s \in RanksOf(Lat.nRanks) /\ \A d \in Dir : HaloPerDir(g)[d] % 2 = 0
  BY DEF EvenLattice, Ranks
<1>3. Lat.nRanks \in SidesOf /\ Lat.nSimdRanks \in SidesOf
  BY <1>2 DEF Divided
<1>4. GoodGrid(g)
  BY <1>2, LaneGridGood
<1>5. GoodGrid(h) /\ \A d \in Dir : h.sides[d] = g.sides[d] * Lat.nSimdRanks[d]
  BY <1>2, LocGridGood
<1>6. g.n = Times(Lat.nRanks, Lat.nSimdRanks) /\ h.n = Lat.nRanks
  BY DEF SimdLocGrid, LocGrid, Grid
<1> HIDE DEF g, h
<1>7. ASSUME NEW d \in Dir, Lat.nRanks[d] > 1, NEW p \in Parity, NEW o \in Ori
      PROVE  /\ HaloPerDir(h)[d] % 2 = 0
             /\ Len(Border(o, d)) \in Nat \ {0}
             /\ EoHaloPerDir(g, p, o, d) * Len(Border(o, d)) = EoHaloPerDir(h, p, o, d)
  <2>1. Border(o, d) = NonLocSimdRanks(Lat, o, d)
    BY DEF Border, NonLoc
  <2> QED BY <1>2, <1>3, <1>4, <1>5, <1>6, <1>7, <2>1, LanesPerSection
<1>8. ASSUME NEW d \in Dir PROVE HaloPerDir(h)[d] % 2 = 0
  <2>1. 0 \in Parity /\ FW \in Ori
    BY DEF Parity, Ori
  <2>2. CASE Lat.nRanks[d] > 1
    BY <1>7, <2>1, <2>2
  <2>3. CASE ~(Lat.nRanks[d] > 1)
    <3>1. HaloPerDir(h)[d] = 0
      BY <1>5, <1>6, <2>1, <2>3, FaceSizes
    <3> QED BY <3>1
  <2> QED BY <2>2, <2>3
<1>9. \A p \in Parity, o \in Ori, d \in Dir : Lat.nRanks[d] > 1 =>
         /\ Len(Border(o, d)) \in Nat \ {0}
         /\ EoHaloPerDir(SiteG[s], p, o, d) * Len(Border(o, d)) = EoHaloPerDir(LocG[s], p, o, d)
  BY <1>1, <1>7
<1>10. /\ GoodGrid(SiteG[s]) /\ GoodGrid(LocG[s])
       /\ \A d \in Dir : HaloPerDir(SiteG[s])[d] % 2 = 0 /\ HaloPerDir(LocG[s])[d] % 2 = 0
  BY <1>1, <1>2, <1>4, <1>5, <1>8
<1> QED BY <1>1, <1>9, <1>10 DEF g, h

\* The sections of all ranks are alike, for both parities and orientations.
LEMMA RanksAlike ==
  ASSUME Layout = "simdifiable", EvenLattice, NEW s \in Ranks, NEW r \in Ranks,
         NEW p \in Parity, NEW q \in Parity, NEW o \in Ori, NEW u \in Ori, NEW d \in Dir
  PROVE  /\ EoHaloPerDir(SiteG[s], p, o, d) = EoHaloPerDir(SiteG[r], q, u, d)
         /\ EoHaloPerDir(LocG[s], p, o, d) = EoHaloPerDir(LocG[r], q, u, d)
         /\ EoHaloOffset(SiteG[s], p, o, d) = EoHaloOffset(SiteG[r], q, o, d)
         /\ EoHaloOffset(LocG[s], p, o, d) = EoHaloOffset(LocG[r], q, o, d)
<1>1. \A a, b : a.sides = b.sides /\ a.n = b.n => HaloPerDir(a) = HaloPerDir(b)
  BY DEF HaloPerDir, SurfPerDir
<1>2. SiteG[s].sides = SiteG[r].sides /\ SiteG[s].n = SiteG[r].n
      /\ LocG[s].sides = LocG[r].sides /\ LocG[s].n = LocG[r].n
  BY DEF SiteG, LocG, SimdLocGrid, LocGrid, Grid
<1>3. HaloPerDir(SiteG[s]) = HaloPerDir(SiteG[r]) /\ HaloPerDir(LocG[s]) = HaloPerDir(LocG[r])
  BY <1>1, <1>2
<1>4. /\ GoodGrid(SiteG[s]) /\ GoodGrid(LocG[s]) /\ GoodGrid(SiteG[r]) /\ GoodGrid(LocG[r])
      /\ \A e \in Dir : HaloPerDir(SiteG[s])[e] % 2 = 0
      /\ \A e \in Dir : HaloPerDir(LocG[s])[e] % 2 = 0
  BY GridsOfRanks
<1>5. /\ EoHaloPerDir(SiteG[s], p, o, d) = EoHaloPerDir(SiteG[r], q, u, d)
      /\ EoHaloOffset(SiteG[s], p, o, d) = EoHaloOffset(SiteG[r], q, o, d)
  BY <1>3, <1>4, GridsAlike
<1>6. /\ EoHaloPerDir(LocG[s], p, o, d) = EoHaloPerDir(LocG[r], q, u, d)
      /\ EoHaloOffset(LocG[s], p, o, d) = EoHaloOffset(LocG[r], q, o, d)
  BY <1>3, <1>4, GridsAlike
<1> QED BY <1>5, <1>6

\* The lanes on the border: those with another rank behind, once each.
LEMMA BorderIs ==
  ASSUME Layout = "simdifiable", EvenLattice, NEW ori \in Ori, NEW dir \in Dir
  PROVE  /\ Border(ori, dir) \in Seq(Nat) /\ Len(Border(ori, dir)) \in Nat
         /\ \A k \in 1..Len(Border(ori, dir)) :
              /\ Border(ori, dir)[k] \in Lanes
              /\ IsNonLocSimdRank(Lat, Border(ori, dir)[k], ori, dir)
         /\ \A lane \in Lanes : IsNonLocSimdRank(Lat, lane, ori, dir)
                                 => \E k \in 1..Len(Border(ori, dir)) : Border(ori, dir)[k] = lane
         /\ \A k, j \in 1..Len(Border(ori, dir)) :
              Border(ori, dir)[k] = Border(ori, dir)[j] => k = j
         /\ Len(Border(ori, dir)) > 0 => Lat.nRanks[dir] > 1
<1>1. Border(ori, dir) = NonLocSimdRanks(Lat, ori, dir)
  BY DEF Border, NonLoc
<1>2. Lanes = RanksOf(Lat.nSimdRanks) /\ Lat.nSimdRanks \in SidesOf
  BY DEF Lanes, EvenLattice, Divided
<1>3. Volume(Lat.nSimdRanks) \in Nat
  <2>1. PICK below : VolumesUpTo(Lat.nSimdRanks, NDims, below)
                     /\ Volume(Lat.nSimdRanks) = below[NDims]
    BY VolumesThere
  <2>2. NDims \in 0..NDims
    BY NDimsNat
  <2> QED BY <1>2, <2>1, <2>2, VolumesTyped
<1> DEFINE list == NonLocSimdRanks(Lat, ori, dir)
<1>4. /\ list \in Seq(Nat)
      /\ \A k \in 1..Len(list) : list[k] \in RanksOf(Lat.nSimdRanks)
                                 /\ IsNonLocSimdRank(Lat, list[k], ori, dir)
      /\ \A s \in RanksOf(Lat.nSimdRanks) : IsNonLocSimdRank(Lat, s, ori, dir)
                                             => \E k \in 1..Len(list) : list[k] = s
      /\ \A k, j \in 1..Len(list) : list[k] = list[j] => k = j
  BY <1>3, BorderListed
<1>5. Len(list) \in Nat
  BY <1>4
<1>6. Len(list) > 0 => Lat.nRanks[dir] > 1
  <2> SUFFICES ASSUME Len(list) > 0 PROVE Lat.nRanks[dir] > 1
    OBVIOUS
  <2>1. 1 \in 1..Len(list)
    <3> HIDE DEF list
    <3> QED BY <1>5
  <2>2. IsNonLocSimdRank(Lat, list[1], ori, dir)
    BY <1>4, <2>1
  <2> QED BY <2>2 DEF IsNonLocSimdRank
<1> HIDE DEF list
<1> QED BY <1>1, <1>2, <1>4, <1>5, <1>6 DEF list

------------------------------------------------------------------------------
(* The halo of a rank that is alone.                                       *)

\* Each place of a face has one site.
LEMMA FacingIs ==
  ASSUME Layout = "simdifiable", EvenLattice, NEW s \in Ranks, NEW p \in Parity,
         NEW ori \in Ori, NEW dir \in Dir, NEW i \in SlotsOf(s, p, ori, dir)
  PROVE  LET o == OppositeOri(ori)
             y == Facing(s, p, ori, dir, i)
         IN  /\ y \in Lookers(SiteG[s], p, o, dir) /\ y \in EoSites(SiteG[s])
             /\ Pos(SiteG[s], p, y, o, dir) = i
             /\ \A x \in Lookers(SiteG[s], p, o, dir) : Pos(SiteG[s], p, x, o, dir) = i => x = y
<1> DEFINE o == OppositeOri(ori)
           g == SiteG[s]
           face == Lookers(g, p, o, dir)
<1>1. o \in Ori /\ OppositeParity(p) \in Parity
  BY OppositeFacts
<1>2. GoodGrid(g)
  BY GridsOfRanks
<1>3. EoHaloPerDir(g, OppositeParity(p), o, dir) = EoHaloPerDir(g, p, ori, dir)
  BY <1>1, RanksAlike
<1> HIDE DEF o
<1>4. /\ \A x, y \in face : Pos(g, p, x, o, dir) = Pos(g, p, y, o, dir) => x = y
      /\ \E x \in face : Pos(g, p, x, o, dir) = i
  BY <1>1, <1>2, <1>3, SlotsBehindFace DEF SlotsOf
<1>5. Facing(s, p, ori, dir, i) = CHOOSE x \in face : Pos(g, p, x, o, dir) = i
  BY DEF Facing, o
<1>6. Facing(s, p, ori, dir, i) \in face /\ Pos(g, p, Facing(s, p, ori, dir, i), o, dir) = i
  <2> HIDE DEF face, g
  <2> QED BY <1>4, <1>5
<1>7. face \subseteq EoSites(g)
  BY DEF Lookers
<1> QED BY <1>4, <1>6, <1>7 DEF o

\* fillLocHalo gives each slot of the halo the site opposite to it, on the lane behind.
LEMMA FilledOwn ==
  ASSUME Layout = "simdifiable", EvenLattice, NEW s \in Ranks, NEW p \in Coverage,
         NEW ori \in Ori, NEW dir \in Dir, NEW i \in SlotsOf(s, p, ori, dir), NEW lane \in Lanes
  PROVE  LET key == <<p, Slot(s, p, ori, dir, i), lane>>
             from == <<Facing(s, p, ori, dir, i), RankNeighbour(lane, Lat.nSimdRanks, ori, dir)>>
         IN  /\ key \in Coverage \X HaloSlots(SiteG[s]) \X Lanes
             /\ <<key, from>> \in LocHaloCopies[s]
             /\ \A c \in LocHaloCopies[s] : c[1] = key => c[2] = from
<1> DEFINE g == SiteG[s]
           S == Lat.nSimdRanks
           o == OppositeOri(ori)
           y == Facing(s, p, ori, dir, i)
           behind == RankNeighbour(lane, S, ori, dir)
           key == <<p, Slot(s, p, ori, dir, i), lane>>
           from == <<y, behind>>
<1>1. p \in Parity /\ o \in Ori /\ OppositeOri(o) = ori
  BY CoverageFacts, OppositeFacts
<1>2. GoodGrid(g) /\ (\A d \in Dir : HaloPerDir(g)[d] % 2 = 0) /\ Lanes = RanksOf(S)
  BY GridsOfRanks
<1>3. /\ y \in Lookers(g, p, o, dir) /\ y \in EoSites(g) /\ Pos(g, p, y, o, dir) = i
      /\ \A x \in Lookers(g, p, o, dir) : Pos(g, p, x, o, dir) = i => x = y
  BY <1>1, FacingIs
<1>4. S \in SidesOf
  BY DEF EvenLattice, Divided
<1>5. behind \in Lanes /\ RankNeighbour(behind, S, o, dir) = lane
  BY <1>2, <1>4, NeighbourInverse
<1>6. OnFace(g, p, y, o, dir)
  BY <1>3 DEF Lookers
<1>7. Sent(g, p, <<y, o, dir>>) = Slot(s, p, ori, dir, i)
  <2> HIDE DEF g, y, o
  <2>1. Sent(g, p, <<y, o, dir>>) = EoHaloOffset(g, p, OppositeOri(o), dir) + Pos(g, p, y, o, dir)
    BY <1>1, <1>2, <1>3, <1>6, SentIs
  <2> QED BY <1>1, <1>3, <2>1 DEF Slot, g
<1>8. HaloFiller(g, p) = {<<z[1], Sent(g, p, z), z[2], z[3]>> : z \in Leaving(g, p)}
  BY <1>1, <1>2, FillerIs
<1>9. LocHaloCopies[s]
        = UNION {{<<<<q, x[2], RankNeighbour(l, S, x[3], x[4])>>, <<x[1], l>>>> :
                    x \in HaloFiller(g, q), l \in Lanes} : q \in Coverage}
  BY DEF LocHaloCopies
<1> HIDE DEF g, y, o, behind, S
<1>10. <<key, from>> \in LocHaloCopies[s]
  <2> DEFINE x == <<y, Slot(s, p, ori, dir, i), o, dir>>
  <2>1. <<y, o, dir>> \in Leaving(g, p)
    BY <1>1, <1>3, <1>6 DEF Leaving
  <2>2. x \in HaloFiller(g, p)
    BY <1>7, <1>8, <2>1
  <2>3. <<key, from>> = <<<<p, x[2], RankNeighbour(behind, S, x[3], x[4])>>, <<x[1], behind>>>>
    BY <1>5
  <2> HIDE DEF x, key, from
  <2> QED BY <1>5, <1>9, <2>2, <2>3
<1>11. ASSUME NEW c \in LocHaloCopies[s], c[1] = key PROVE c[2] = from
  <2>1. PICK q \in Coverage : c \in {<<<<q, x[2], RankNeighbour(l, S, x[3], x[4])>>, <<x[1], l>>>> :
                                       x \in HaloFiller(g, q), l \in Lanes}
    BY <1>9
  <2>2. PICK x \in HaloFiller(g, q), l \in Lanes :
          c = <<<<q, x[2], RankNeighbour(l, S, x[3], x[4])>>, <<x[1], l>>>>
    BY <2>1
  <2>3. /\ q = p /\ x[2] = Slot(s, p, ori, dir, i) /\ RankNeighbour(l, S, x[3], x[4]) = lane
        /\ c[2] = <<x[1], l>>
    BY <1>11, <2>2
  <2>4. PICK z \in Leaving(g, p) : x = <<z[1], Sent(g, p, z), z[2], z[3]>>
    BY <1>8, <2>3
  <2> DEFINE u == z[2]
             d == z[3]
             w == z[1]
  <2>5. /\ w \in EoSites(g) /\ u \in Ori /\ d \in Dir /\ OnFace(g, p, w, u, d)
        /\ z = <<w, u, d>>
    BY DEF Leaving
  <2>6. /\ x[1] = w /\ x[3] = u /\ x[4] = d /\ x[2] = Sent(g, p, <<w, u, d>>)
    BY <2>4, <2>5
  <2> HIDE DEF u, d, w
  <2>7. /\ x[2] = EoHaloOffset(g, p, OppositeOri(u), d) + Pos(g, p, w, u, d)
        /\ Pos(g, p, w, u, d) \in 0..(EoHaloPerDir(g, p, OppositeOri(u), d) - 1)
    BY <1>1, <1>2, <2>5, <2>6, SentIs
  <2>8. OppositeOri(u) \in Ori /\ OppositeOri(OppositeOri(u)) = u
    BY <2>5, OppositeFacts
  <2>9. OppositeOri(u) = ori /\ d = dir /\ Pos(g, p, w, u, d) = i
    <3>1. EoHaloOffset(g, p, OppositeOri(u), d) + Pos(g, p, w, u, d)
            = EoHaloOffset(g, p, ori, dir) + i
      BY <2>3, <2>7 DEF Slot, g
    <3>2. i \in 0..(EoHaloPerDir(g, p, ori, dir) - 1)
      BY DEF SlotsOf, g
    <3> DEFINE v == OppositeOri(u)
               j == Pos(g, p, w, u, d)
    <3>3. v \in Ori /\ j \in 0..(EoHaloPerDir(g, p, v, d) - 1)
          /\ EoHaloOffset(g, p, v, d) + j = EoHaloOffset(g, p, ori, dir) + i
      BY <2>7, <2>8, <3>1
    <3> HIDE DEF v, j
    <3>4. v = ori /\ d = dir /\ j = i
      BY <1>1, <1>2, <2>5, <3>2, <3>3, SectionsApart
    <3> QED BY <3>4 DEF v, j
  <2>10. u = o
    BY <2>8, <2>9 DEF o
  <2>11. w = y
    <3>1. w \in Lookers(g, p, o, dir)
      BY <2>5, <2>9, <2>10 DEF Lookers
    <3> QED BY <1>3, <2>9, <2>10, <3>1
  <2>12. l = behind
    <3>1. RankNeighbour(l, S, o, dir) = lane /\ l \in RanksOf(S)
      BY <1>2, <2>3, <2>6, <2>9, <2>10
    <3>2. RankNeighbour(RankNeighbour(l, S, o, dir), S, OppositeOri(o), dir) = l
      BY <1>1, <1>4, <3>1, NeighbourInverse
    <3> QED BY <1>1, <3>1, <3>2 DEF behind
  <2> QED BY <2>3, <2>6, <2>11, <2>12
<1>12. key \in Coverage \X HaloSlots(g) \X Lanes
  <2>1. /\ EoHaloOffset(g, p, ori, dir) \in Nat /\ EoHaloPerDir(g, p, ori, dir) \in Nat
        /\ EoHaloOffset(g, p, ori, dir) + EoHaloPerDir(g, p, ori, dir) <= EoHalo(g)
    BY <1>1, <1>2, HaloSection
  <2>2. EoHalo(g) \in Nat
    BY <1>1, <1>2, EoHaloAddsUp
  <2>3. i \in 0..(EoHaloPerDir(g, p, ori, dir) - 1)
    BY DEF SlotsOf, g
  <2> DEFINE a == EoHaloOffset(g, p, ori, dir)
             n == EoHaloPerDir(g, p, ori, dir)
             h == EoHalo(g)
  <2>4. a \in Nat /\ n \in Nat /\ h \in Nat /\ a + n <= h /\ i \in 0..(n - 1)
    BY <2>1, <2>2, <2>3
  <2> HIDE DEF a, n, h
  <2>5. a + i \in 0..(h - 1)
    BY <2>4
  <2>6. Slot(s, p, ori, dir, i) \in HaloSlots(g)
    BY <2>5 DEF Slot, HaloSlots, a, h, g
  <2> QED BY <2>6
<1> QED BY <1>10, <1>11, <1>12 DEF g, y, behind, S

------------------------------------------------------------------------------
(* The copies of an update.                                                *)

LEMMA OverwrittenIs ==
  ASSUME NEW f, NEW pairs
  PROVE  /\ DOMAIN Overwritten(f, pairs) = DOMAIN f
         /\ \A x \in DOMAIN f :
              /\ (\A y \in pairs : y[1] # x) => Overwritten(f, pairs)[x] = f[x]
              /\ \A v : (\E y \in pairs : y[1] = x) /\ (\A y \in pairs : y[1] = x => y[2] = v)
                          => Overwritten(f, pairs)[x] = v
<1> DEFINE found(x) == {y \in pairs : y[1] = x}
<1>1. Overwritten(f, pairs)
        = [x \in DOMAIN f |-> IF found(x) = {} THEN f[x] ELSE (CHOOSE y \in found(x) : TRUE)[2]]
  BY DEF Overwritten
<1>2. ASSUME NEW x \in DOMAIN f, \A y \in pairs : y[1] # x
      PROVE  Overwritten(f, pairs)[x] = f[x]
  <2>1. found(x) = {}
    BY <1>2
  <2> HIDE DEF found
  <2> QED BY <1>1, <2>1
<1>3. ASSUME NEW x \in DOMAIN f, NEW v, \E y \in pairs : y[1] = x,
             \A y \in pairs : y[1] = x => y[2] = v
      PROVE  Overwritten(f, pairs)[x] = v
  <2>1. found(x) # {} /\ \A y \in found(x) : y[2] = v
    BY <1>3
  <2> HIDE DEF found
  <2>2. (CHOOSE y \in found(x) : TRUE) \in found(x)
    BY <2>1
  <2> QED BY <1>1, <2>1, <2>2
<1> QED BY <1>1, <1>2, <1>3

LEMMA OverwrittenAt ==
  ASSUME NEW f, NEW pairs, NEW x \in DOMAIN f, NEW v,
         \E y \in pairs : y[1] = x, \A y \in pairs : y[1] = x => y[2] = v
  PROVE  Overwritten(f, pairs)[x] = v
BY OverwrittenIs

\* The sections of the buffers, and of the halo, in numbers.
LEMMA SectionIs ==
  ASSUME Layout = "simdifiable", EvenLattice, NEW r \in Ranks, NEW p \in Parity,
         NEW o \in Ori, NEW u \in Ori, NEW d \in Dir
  PROVE  /\ Sections[r][<<p, o, d>>] = Section(r, <<p, o, d>>)
         /\ Section(r, <<p, o, d>>).offset = EoHaloOffset(LocG[r], p, o, d)
         /\ Section(r, <<p, o, d>>).n = EoHaloPerDir(LocG[r], p, o, d)
         /\ Section(r, <<p, o, d>>).offset \in Nat /\ Section(r, <<p, o, d>>).n \in Nat
         /\ Section(r, <<p, o, d>>).offset + Section(r, <<p, o, d>>).n <= EoHalo(LocG[r])
         /\ EoHaloPerDir(SiteG[r], p, u, d) \in Nat
         /\ Lat.nRanks[d] > 1 =>
              /\ Len(Border(u, d)) \in Nat \ {0}
              /\ EoHaloPerDir(SiteG[r], p, u, d) * Len(Border(u, d)) = Section(r, <<p, o, d>>).n
<1>1. /\ Section(r, <<p, o, d>>).offset = EoHaloOffset(LocG[r], p, o, d)
      /\ Section(r, <<p, o, d>>).n = EoHaloPerDir(LocG[r], p, o, d)
      /\ Sections[r][<<p, o, d>>] = Section(r, <<p, o, d>>)
  BY DEF Section, Sections
<1>2. GoodGrid(LocG[r]) /\ GoodGrid(SiteG[r])
  BY GridsOfRanks
<1>3. /\ EoHaloOffset(LocG[r], p, o, d) \in Nat /\ EoHaloPerDir(LocG[r], p, o, d) \in Nat
      /\ EoHaloOffset(LocG[r], p, o, d) + EoHaloPerDir(LocG[r], p, o, d) <= EoHalo(LocG[r])
  BY <1>2, HaloSection
<1>4. EoHaloPerDir(SiteG[r], p, u, d) \in Nat
  BY <1>2, HaloSection
<1>5. Lat.nRanks[d] > 1 =>
        /\ Len(Border(u, d)) \in Nat \ {0}
        /\ EoHaloPerDir(SiteG[r], p, u, d) * Len(Border(u, d)) = EoHaloPerDir(LocG[r], p, u, d)
  BY GridsOfRanks
<1>6. EoHaloPerDir(LocG[r], p, u, d) = EoHaloPerDir(LocG[r], p, o, d)
  BY RanksAlike
<1> QED BY <1>1, <1>3, <1>4, <1>5, <1>6

\* The t-th slot of a section of the buffer, for the lane of the slot of the halo in c.
BorderSlotAt(r, p, ori, dir, b, c, t) ==
  /\ t \div Len(Border(ori, dir)) \in SlotsOf(r, p, ori, dir)
  /\ (t % Len(Border(ori, dir))) + 1 \in 1..Len(Border(ori, dir))
  /\ c[1] = Slot(r, p, ori, dir, t \div Len(Border(ori, dir)))
  /\ c[2] = Border(ori, dir)[(t % Len(Border(ori, dir))) + 1]
  /\ c[3] = Section(r, <<p, b, dir>>).offset + t

\* A buffer is in order of the slots of the halo, then of the lanes on the border.
LEMMA BorderSlotsAre ==
  ASSUME Layout = "simdifiable", EvenLattice, NEW r \in Ranks, NEW p \in Parity,
         NEW ori \in Ori, NEW dir \in Dir, NEW b \in Ori, NEW c \in BorderSlots(r, p, ori, dir, b)
  PROVE  /\ Lat.nRanks[dir] > 1 /\ Len(Border(ori, dir)) \in Nat \ {0}
         /\ \E t \in 0..(Section(r, <<p, b, dir>>).n - 1) : BorderSlotAt(r, p, ori, dir, b, c, t)
<1> DEFINE border == Border(ori, dir)
           L == Len(border)
           n == Section(r, <<p, b, dir>>).n
           a == Section(r, <<p, b, dir>>).offset
           m == EoHaloPerDir(SiteG[r], p, ori, dir)
<1>1. PICK i \in 0..(m - 1), k \in 0..(L - 1) :
        c = <<EoHaloOffset(SiteG[r], p, ori, dir) + i, border[k + 1],
              Sections[r][<<p, b, dir>>].offset + i * L + k>>
  <2>1. BorderSlots(r, p, ori, dir, b)
          = {<<EoHaloOffset(SiteG[r], p, ori, dir) + i, border[k + 1],
               Sections[r][<<p, b, dir>>].offset + i * L + k>> : i \in 0..(m - 1), k \in 0..(L - 1)}
    BY DEF BorderSlots, Border
  <2> HIDE DEF border, L, m
  <2>2. c \in {<<EoHaloOffset(SiteG[r], p, ori, dir) + i, border[k + 1],
               Sections[r][<<p, b, dir>>].offset + i * L + k>> : i \in 0..(m - 1), k \in 0..(L - 1)}
    BY <2>1
  <2> QED BY <2>2
<1>2. L \in Nat /\ (L > 0 => Lat.nRanks[dir] > 1)
  BY BorderIs
<1>3. L > 0
  <2> HIDE DEF L
  <2> QED BY <1>1, <1>2
<1>4. /\ Sections[r][<<p, b, dir>>].offset = a /\ a \in Nat /\ n \in Nat /\ m \in Nat
      /\ L \in Nat \ {0} /\ m * L = n
  BY <1>2, <1>3, SectionIs
<1> DEFINE t == i * L + k
<1>5. c[1] = EoHaloOffset(SiteG[r], p, ori, dir) + i /\ c[2] = border[k + 1] /\ c[3] = a + i * L + k
  BY <1>1, <1>4
<1>6. i \in SlotsOf(r, p, ori, dir)
  BY DEF SlotsOf
<1> HIDE DEF border, L, n, a, m
<1>7. /\ i \in Nat /\ k \in Nat /\ i * L \in Nat /\ a + i * L + k = a + t
      /\ t \div L = i /\ t % L = k /\ k + 1 \in 1..L
  <2>1. i \in Nat /\ k \in 0..(L - 1)
    BY <1>4
  <2>2. (i * L + k) \div L = i /\ (i * L + k) % L = k
    BY <1>4, <2>1, QuotientAndRemainder
  <2>3. i * L \in Nat
    BY <1>4, <2>1
  <2> QED BY <1>4, <2>1, <2>2, <2>3
<1>8. t \in 0..(n - 1)
  <2>1. (i + 1) * L <= m * L /\ (i + 1) * L = i * L + L
    BY <1>4, <1>7
  <2> QED BY <1>4, <1>7, <2>1
<1>9. /\ t \in 0..(n - 1) /\ t \div L \in SlotsOf(r, p, ori, dir) /\ (t % L) + 1 \in 1..L
      /\ c[1] = Slot(r, p, ori, dir, t \div L) /\ c[2] = border[(t % L) + 1] /\ c[3] = a + t
  BY <1>5, <1>6, <1>7, <1>8 DEF Slot
<1>10. BorderSlotAt(r, p, ori, dir, b, c, t)
  <2> HIDE DEF t
  <2> QED BY <1>9 DEF BorderSlotAt, border, L, a
<1> HIDE DEF t
<1> QED BY <1>2, <1>3, <1>4, <1>8, <1>10 DEF border, L, n

LEMMA BorderSlotOf ==
  ASSUME Layout = "simdifiable", EvenLattice, NEW r \in Ranks, NEW p \in Parity,
         NEW ori \in Ori, NEW dir \in Dir, NEW b \in Ori, Lat.nRanks[dir] > 1,
         NEW t \in 0..(Section(r, <<p, b, dir>>).n - 1)
  PROVE  LET L == Len(Border(ori, dir))
         IN  /\ t \div L \in SlotsOf(r, p, ori, dir) /\ (t % L) + 1 \in 1..L
             /\ Border(ori, dir)[(t % L) + 1] \in Lanes
             /\ <<Slot(r, p, ori, dir, t \div L), Border(ori, dir)[(t % L) + 1],
                  Section(r, <<p, b, dir>>).offset + t>> \in BorderSlots(r, p, ori, dir, b)
<1> DEFINE border == Border(ori, dir)
           L == Len(border)
           n == Section(r, <<p, b, dir>>).n
           a == Section(r, <<p, b, dir>>).offset
           m == EoHaloPerDir(SiteG[r], p, ori, dir)
           i == t \div L
           k == t % L
<1>1. /\ Sections[r][<<p, b, dir>>].offset = a /\ a \in Nat /\ n \in Nat /\ m \in Nat
      /\ L \in Nat \ {0} /\ m * L = n
  BY SectionIs
<1>2. BorderSlots(r, p, ori, dir, b)
        = {<<EoHaloOffset(SiteG[r], p, ori, dir) + j, border[h + 1], a + j * L + h>> :
             j \in 0..(m - 1), h \in 0..(L - 1)}
  BY <1>1 DEF BorderSlots, Border
<1>3. t \in 0..(n - 1)
  OBVIOUS
<1> HIDE DEF border, L, n, a, m
<1>4. i \in Nat /\ k \in 0..(L - 1) /\ t = i * L + k
  <2>1. t \in Nat
    BY <1>1, <1>3
  <2> QED BY <1>1, <2>1, DivideAndRest
<1>5. i \in 0..(m - 1)
  <2>1. i * L \in Nat /\ i * L < m * L
    BY <1>1, <1>3, <1>4
  <2>2. i >= m => i * L >= m * L
    BY <1>1, <1>4
  <2> QED BY <1>1, <1>4, <2>1, <2>2
<1>6. k + 1 \in 1..L
  BY <1>1, <1>4
<1>7. border[k + 1] \in Lanes
  BY <1>6, BorderIs DEF border, L
<1>8. a + i * L + k = a + t
  <2>1. i * L \in Nat
    BY <1>1, <1>4
  <2> HIDE DEF i, k
  <2> QED BY <1>1, <1>4, <2>1
<1>9. <<Slot(r, p, ori, dir, i), border[k + 1], a + t>> \in BorderSlots(r, p, ori, dir, b)
  <2> HIDE DEF i, k
  <2>1. <<EoHaloOffset(SiteG[r], p, ori, dir) + i, border[k + 1], a + i * L + k>>
          \in BorderSlots(r, p, ori, dir, b)
    BY <1>2, <1>4, <1>5
  <2> QED BY <1>8, <2>1 DEF Slot
<1>10. i \in SlotsOf(r, p, ori, dir)
  BY <1>5 DEF SlotsOf, m
<1> QED BY <1>6, <1>7, <1>9, <1>10 DEF border, L, a

\* Each slot of a section that is sent has one lane of one slot of the halo: that of
\* the opposite side.
LEMMA PackedFrom ==
  ASSUME Layout = "simdifiable", EvenLattice, NEW r \in Ranks, NEW p \in Coverage,
         NEW o \in Ori, NEW dir \in Dir, Lat.nRanks[dir] > 1,
         NEW t \in 0..(Section(r, <<p, o, dir>>).n - 1)
  PROVE  LET ori == OppositeOri(o)
             L == Len(Border(ori, dir))
             slot == Slot(r, p, ori, dir, t \div L)
             lane == Border(ori, dir)[(t % L) + 1]
             at == Section(r, <<p, o, dir>>).offset + t
         IN  /\ t \div L \in SlotsOf(r, p, ori, dir) /\ lane \in Lanes
             /\ <<slot, lane, at>> \in PackCopies[r][p]
             /\ \A c \in PackCopies[r][p] : c[3] = at => c[1] = slot /\ c[2] = lane
             /\ <<p, at>> \in Coverage \X HaloSlots(LocG[r])
<1> DEFINE ori == OppositeOri(o)
           L == Len(Border(ori, dir))
           slot == Slot(r, p, ori, dir, t \div L)
           lane == Border(ori, dir)[(t % L) + 1]
           a == Section(r, <<p, o, dir>>).offset
           at == a + t
<1>1. p \in Parity /\ ori \in Ori /\ OppositeOri(ori) = o
  BY CoverageFacts, OppositeFacts
<1>2. PackCopies[r][p] = UNION {BorderSlots(r, p, u, d, OppositeOri(u)) : u \in Ori, d \in Dir}
  BY <1>1 DEF PackCopies, PackedSections
<1>3. /\ t \div L \in SlotsOf(r, p, ori, dir) /\ lane \in Lanes
      /\ <<slot, lane, at>> \in BorderSlots(r, p, ori, dir, o)
  <2> HIDE DEF ori
  <2> QED BY <1>1, BorderSlotOf
<1>4. <<slot, lane, at>> \in PackCopies[r][p]
  <2> HIDE DEF slot, lane, at, ori
  <2> QED BY <1>1, <1>2, <1>3
<1>5. a \in Nat /\ Section(r, <<p, o, dir>>).n \in Nat
      /\ a + Section(r, <<p, o, dir>>).n <= EoHalo(LocG[r])
  BY <1>1, SectionIs
<1>6. ASSUME NEW c \in PackCopies[r][p], c[3] = at PROVE c[1] = slot /\ c[2] = lane
  <2> HIDE DEF slot, lane, ori
  <2>1. PICK u \in Ori, d \in Dir : c \in BorderSlots(r, p, u, d, OppositeOri(u))
    BY <1>2
  <2> DEFINE v == OppositeOri(u)
             M == Len(Border(u, d))
             m == Section(r, <<p, v, d>>).n
  <2>2. v \in Ori /\ OppositeOri(v) = u
    BY OppositeFacts
  <2>3. PICK w \in 0..(m - 1) :
          /\ c[1] = Slot(r, p, u, d, w \div M)
          /\ c[2] = Border(u, d)[(w % M) + 1]
          /\ c[3] = Section(r, <<p, v, d>>).offset + w
    <3> HIDE DEF v
    <3> HIDE DEF L, a, at
    <3>1. c \in BorderSlots(r, p, u, d, v) /\ v \in Ori
      BY <2>1, <2>2 DEF v
    <3>2. PICK w \in 0..(Section(r, <<p, v, d>>).n - 1) : BorderSlotAt(r, p, u, d, v, c, w)
      BY <1>1, <3>1, BorderSlotsAre
    <3> QED BY <3>2 DEF BorderSlotAt
  <2>4. /\ Section(r, <<p, v, d>>).offset = EoHaloOffset(LocG[r], p, v, d)
        /\ m = EoHaloPerDir(LocG[r], p, v, d)
    <3> HIDE DEF v
    <3> QED BY <1>1, <2>2, SectionIs
  <2>5. a = EoHaloOffset(LocG[r], p, o, dir)
        /\ Section(r, <<p, o, dir>>).n = EoHaloPerDir(LocG[r], p, o, dir)
    BY <1>1, SectionIs
  <2>6. EoHaloOffset(LocG[r], p, o, dir) + t = EoHaloOffset(LocG[r], p, v, d) + w
        /\ t \in 0..(EoHaloPerDir(LocG[r], p, o, dir) - 1)
        /\ w \in 0..(EoHaloPerDir(LocG[r], p, v, d) - 1)
    BY <1>6, <2>3, <2>4, <2>5
  <2>7. GoodGrid(LocG[r])
    BY GridsOfRanks
  <2> HIDE DEF v
  <2>8. o = v /\ dir = d /\ t = w
    BY <1>1, <2>2, <2>6, <2>7, SectionsApart
  <2>9. u = ori
    BY <2>2, <2>8 DEF ori
  <2> QED BY <2>3, <2>8, <2>9 DEF slot, lane
<1>7. at \in HaloSlots(LocG[r])
  <2>1. EoHalo(LocG[r]) \in Nat
    BY <1>1, GridsOfRanks, EoHaloAddsUp
  <2> DEFINE n == Section(r, <<p, o, dir>>).n
             h == EoHalo(LocG[r])
  <2>2. a \in Nat /\ n \in Nat /\ h \in Nat /\ a + n <= h /\ t \in 0..(n - 1)
    BY <1>5, <2>1
  <2> HIDE DEF a, n, h
  <2>3. a + t \in 0..(h - 1)
    BY <2>2
  <2> QED BY <2>3 DEF HaloSlots, h
<1> QED BY <1>3, <1>4, <1>6, <1>7

\* The t-th slot of the section received is the one for a lane of a slot of the halo.
UnpackedAt(r, p, ori, dir, i, lane, t) ==
  /\ t \div Len(Border(ori, dir)) = i /\ Border(ori, dir)[(t % Len(Border(ori, dir))) + 1] = lane
  /\ <<Slot(r, p, ori, dir, i), lane, Section(r, <<p, ori, dir>>).offset + t>> \in UnpackCopies[r][p]
  /\ \A c \in UnpackCopies[r][p] :
       c[1] = Slot(r, p, ori, dir, i) /\ c[2] = lane
         => c[3] = Section(r, <<p, ori, dir>>).offset + t

\* A slot of the halo takes, on the lanes of the border, one slot of the section received;
\* it keeps the other lanes.
LEMMA UnpackedTo ==
  ASSUME Layout = "simdifiable", EvenLattice, NEW r \in Ranks, NEW p \in Coverage,
         NEW ori \in Ori, NEW dir \in Dir, NEW i \in SlotsOf(r, p, ori, dir), NEW lane \in Lanes
  PROVE  /\ ~IsNonLocSimdRank(Lat, lane, ori, dir) =>
              \A c \in UnpackCopies[r][p] : ~(c[1] = Slot(r, p, ori, dir, i) /\ c[2] = lane)
         /\ IsNonLocSimdRank(Lat, lane, ori, dir) =>
              /\ Lat.nRanks[dir] > 1
              /\ \E t \in 0..(Section(r, <<p, ori, dir>>).n - 1) :
                   UnpackedAt(r, p, ori, dir, i, lane, t)
<1> DEFINE border == Border(ori, dir)
           L == Len(border)
           slot == Slot(r, p, ori, dir, i)
           section == Section(r, <<p, ori, dir>>)
<1>1. p \in Parity
  BY CoverageFacts
<1>2. UnpackCopies[r][p] = UNION {BorderSlots(r, p, u, d, u) : u \in Ori, d \in Dir}
  BY <1>1 DEF UnpackCopies
<1>3. ASSUME NEW c \in UnpackCopies[r][p], c[1] = slot, c[2] = lane
      PROVE  /\ L \in Nat \ {0}
             /\ \E w \in 0..(section.n - 1) :
                  /\ w \div L = i /\ (w % L) + 1 \in 1..L /\ border[(w % L) + 1] = lane
                  /\ c[3] = section.offset + w
  <2>1. PICK u \in Ori, d \in Dir : c \in BorderSlots(r, p, u, d, u)
    BY <1>2
  <2> DEFINE M == Len(Border(u, d))
             m == Section(r, <<p, u, d>>).n
  <2>2. M \in Nat \ {0}
    BY <1>1, <2>1, BorderSlotsAre
  <2>3. PICK w \in 0..(m - 1) :
          /\ w \div M \in SlotsOf(r, p, u, d)
          /\ (w % M) + 1 \in 1..M
          /\ c[1] = Slot(r, p, u, d, w \div M)
          /\ c[2] = Border(u, d)[(w % M) + 1]
          /\ c[3] = Section(r, <<p, u, d>>).offset + w
    <3> HIDE DEF L, border, slot, section
    <3>1. PICK w \in 0..(Section(r, <<p, u, d>>).n - 1) : BorderSlotAt(r, p, u, d, u, c, w)
      BY <1>1, <2>1, BorderSlotsAre
    <3> QED BY <3>1 DEF BorderSlotAt
  <2>4. GoodGrid(SiteG[r])
    BY GridsOfRanks
  <2> DEFINE j == w \div M
  <2>5. /\ EoHaloOffset(SiteG[r], p, u, d) + j = EoHaloOffset(SiteG[r], p, ori, dir) + i
        /\ j \in 0..(EoHaloPerDir(SiteG[r], p, u, d) - 1)
        /\ i \in 0..(EoHaloPerDir(SiteG[r], p, ori, dir) - 1)
    BY <1>3, <2>3 DEF Slot, SlotsOf
  <2> HIDE DEF j
  <2>6. u = ori /\ d = dir /\ j = i
    BY <1>1, <2>4, <2>5, SectionsApart
  <2> QED BY <1>3, <2>2, <2>3, <2>6 DEF j
<1>4. ASSUME ~IsNonLocSimdRank(Lat, lane, ori, dir), NEW c \in UnpackCopies[r][p]
      PROVE  ~(c[1] = slot /\ c[2] = lane)
  <2> SUFFICES ASSUME c[1] = slot, c[2] = lane PROVE FALSE
    OBVIOUS
  <2>1. PICK w \in 0..(section.n - 1) : (w % L) + 1 \in 1..L /\ border[(w % L) + 1] = lane
    BY <1>3
  <2>2. IsNonLocSimdRank(Lat, lane, ori, dir)
    BY <2>1, BorderIs
  <2> QED BY <1>4, <2>2
<1>5. ASSUME IsNonLocSimdRank(Lat, lane, ori, dir)
      PROVE  /\ Lat.nRanks[dir] > 1
             /\ \E t \in 0..(section.n - 1) :
                  /\ t \div L = i /\ border[(t % L) + 1] = lane
                  /\ <<slot, lane, section.offset + t>> \in UnpackCopies[r][p]
                  /\ \A c \in UnpackCopies[r][p] :
                       c[1] = slot /\ c[2] = lane => c[3] = section.offset + t
  <2>1. Lat.nRanks[dir] > 1
    BY <1>5 DEF IsNonLocSimdRank
  <2>2. PICK k \in 1..L : border[k] = lane
    BY <1>5, BorderIs
  <2>3. /\ L \in Nat \ {0} /\ EoHaloPerDir(SiteG[r], p, ori, dir) \in Nat
        /\ EoHaloPerDir(SiteG[r], p, ori, dir) * L = section.n
    BY <1>1, <2>1, SectionIs
  <2> DEFINE t == i * L + (k - 1)
             m == EoHaloPerDir(SiteG[r], p, ori, dir)
             n == section.n
  <2>4. i \in 0..(m - 1)
    BY DEF SlotsOf
  <2>5. t \in 0..(n - 1) /\ t \div L = i /\ t % L = k - 1 /\ (t % L) + 1 = k
    <3>1. m \in Nat /\ L \in Nat \ {0} /\ m * L = n /\ k \in 1..L /\ i \in 0..(m - 1)
      BY <2>3, <2>4
    <3> HIDE DEF m, L, n
    <3>2. i \in Nat /\ k - 1 \in 0..(L - 1)
      BY <3>1
    <3>3. t \div L = i /\ t % L = k - 1
      <4> DEFINE e == k - 1
      <4>1. (i * L + e) \div L = i /\ (i * L + e) % L = e
        <5>1. e \in 0..(L - 1)
          BY <3>2
        <5> HIDE DEF e
        <5> QED BY <3>1, <3>2, <5>1, QuotientAndRemainder
      <4> QED BY <4>1
    <3>4. (i + 1) * L <= m * L /\ (i + 1) * L = i * L + L /\ i * L \in Nat
      BY <3>1, <3>2
    <3> QED BY <3>1, <3>2, <3>3, <3>4
  <2> HIDE DEF t
  <2>6. <<slot, lane, section.offset + t>> \in UnpackCopies[r][p]
    <3>1. t \in 0..(Section(r, <<p, ori, dir>>).n - 1)
      BY <2>5
    <3>2. <<Slot(r, p, ori, dir, t \div L), border[(t % L) + 1], section.offset + t>>
            \in BorderSlots(r, p, ori, dir, ori)
      BY <1>1, <2>1, <3>1, BorderSlotOf
    <3>3. <<slot, lane, section.offset + t>> \in BorderSlots(r, p, ori, dir, ori)
      BY <2>2, <2>5, <3>2
    <3> HIDE DEF slot, section
    <3> QED BY <1>2, <3>3
  <2>7. ASSUME NEW c \in UnpackCopies[r][p], c[1] = slot, c[2] = lane
        PROVE  c[3] = section.offset + t
    <3>1. PICK w \in 0..(section.n - 1) :
            /\ w \div L = i /\ (w % L) + 1 \in 1..L /\ border[(w % L) + 1] = lane
            /\ c[3] = section.offset + w
      BY <1>3, <2>7
    <3>2. (w % L) + 1 = k
      BY <2>2, <3>1, BorderIs
    <3>3. w = t
      <4>1. section.n \in Nat /\ w \in Nat /\ t \in Nat
        BY <1>1, <2>5, SectionIs
      <4> HIDE DEF L, section
      <4>2. w = (w \div L) * L + (w % L) /\ t = (t \div L) * L + (t % L)
        BY <2>3, <4>1, DivideAndRest
      <4>3. w % L = t % L
        <5>1. w % L \in Int /\ t % L \in Int
          BY <2>3, <4>1
        <5> QED BY <2>5, <3>2, <5>1
      <4> QED BY <2>5, <3>1, <4>2, <4>3
    <3> QED BY <3>1, <3>3
  <2> QED BY <2>1, <2>2, <2>5, <2>6, <2>7
<1>6. ASSUME IsNonLocSimdRank(Lat, lane, ori, dir)
      PROVE  /\ Lat.nRanks[dir] > 1
             /\ \E t \in 0..(Section(r, <<p, ori, dir>>).n - 1) :
                  UnpackedAt(r, p, ori, dir, i, lane, t)
  <2>1. PICK t \in 0..(section.n - 1) :
          /\ t \div L = i /\ border[(t % L) + 1] = lane
          /\ <<slot, lane, section.offset + t>> \in UnpackCopies[r][p]
          /\ \A c \in UnpackCopies[r][p] : c[1] = slot /\ c[2] = lane => c[3] = section.offset + t
    BY <1>5, <1>6
  <2>2. UnpackedAt(r, p, ori, dir, i, lane, t)
    BY <2>1 DEF UnpackedAt
  <2> QED BY <1>5, <1>6, <2>2
<1> QED BY <1>4, <1>6

------------------------------------------------------------------------------
(* Places of the script.                                                   *)

\* An exchange is known by how many come before it.
LEMMA ExchangeNumber ==
  ASSUME NEW n \in Nat \ {0}, NEW k \in Nat \ {0}, Exchange(n), Exchange(k),
         Cardinality(Exchanges(n)) = Cardinality(Exchanges(k))
  PROVE  n = k
<1>1. ASSUME NEW a \in Nat \ {0}, NEW b \in Nat \ {0}, Exchange(a), a < b
      PROVE  Cardinality(Exchanges(a)) < Cardinality(Exchanges(b))
  <2>1. IsFiniteSet(Exchanges(b))
    <3>1. IsFiniteSet(1..(b - 1))
      BY FS_Interval
    <3> QED BY <3>1, FS_Subset DEF Exchanges
  <2>2. Exchanges(a) \cup {a} \subseteq Exchanges(b) /\ a \notin Exchanges(a)
    BY <1>1 DEF Exchanges
  <2>3. Exchanges(a) \subseteq Exchanges(b) /\ Exchanges(a) # Exchanges(b)
    BY <2>2
  <2>4. /\ Cardinality(Exchanges(a)) \in Nat /\ Cardinality(Exchanges(b)) \in Nat
        /\ Cardinality(Exchanges(a)) <= Cardinality(Exchanges(b))
        /\ Cardinality(Exchanges(a)) # Cardinality(Exchanges(b))
    BY <2>1, <2>3, FS_Subset, FS_CardinalityType
  <2> QED BY <2>4
<1>2. Cardinality(Exchanges(n)) \in Nat /\ Cardinality(Exchanges(k)) \in Nat
  BY ExchangesGrow
<1>3. ~(n < k) /\ ~(k < n)
  BY <1>1, <1>2
<1> QED BY <1>3

\* The version of a field goes up by one where it is written.
LEMMA WritesGrow ==
  ASSUME NEW k \in Nat \ {0}, NEW f
  PROVE  /\ Writes(k, f) \in Nat
         /\ Script[k] = [op |-> "write", field |-> f] => Writes(k + 1, f) = Writes(k, f) + 1
         /\ Script[k] # [op |-> "write", field |-> f] => Writes(k + 1, f) = Writes(k, f)
         /\ Writes(1, f) = 0
<1> DEFINE W(m) == {j \in 1..(m - 1) : Script[j] = [op |-> "write", field |-> f]}
<1>1. IsFiniteSet(1..(k - 1))
  BY FS_Interval
<1>2. IsFiniteSet(W(k))
  BY <1>1, FS_Subset
<1>3. 1..((k + 1) - 1) = (1..(k - 1)) \cup {k} /\ k \notin 1..(k - 1)
  OBVIOUS
<1>4. /\ Script[k] = [op |-> "write", field |-> f] => W(k + 1) = W(k) \cup {k}
      /\ Script[k] # [op |-> "write", field |-> f] => W(k + 1) = W(k)
      /\ k \notin W(k)
  BY <1>3
<1>5. W(1) = {}
  OBVIOUS
<1>6. Writes(k, f) = Cardinality(W(k)) /\ Writes(k + 1, f) = Cardinality(W(k + 1))
      /\ Writes(1, f) = Cardinality(W(1))
  BY DEF Writes
<1> HIDE DEF W
<1>7. Cardinality(W(k)) \in Nat /\ Cardinality(W(k) \cup {k}) = Cardinality(W(k)) + 1
  BY <1>2, <1>4, FS_AddElement, FS_CardinalityType
<1>8. Cardinality({}) = 0
  BY FS_EmptySet
<1> QED BY <1>4, <1>5, <1>6, <1>7, <1>8

------------------------------------------------------------------------------
(* What a rank finds in its halo.                                          *)

\* fillLocHalo fills the halo with the sites of the rank itself.
LEMMA LocHaloOfIs ==
  ASSUME Layout = "simdifiable", EvenLattice, NEW r \in Ranks, NEW f \in Fields,
         DOMAIN halo[r][f] = Coverage \X HaloSlots(SiteG[r]) \X Lanes
  PROVE  /\ DOMAIN LocHaloOf(r, f) = DOMAIN halo[r][f]
         /\ \A p \in Coverage, ori \in Ori, dir \in Dir :
              \A i \in SlotsOf(r, p, ori, dir), lane \in Lanes :
                LocHaloOf(r, f)[<<p, Slot(r, p, ori, dir, i), lane>>]
                  = <<f, Alone(r, p, ori, dir, i, lane), version[r][f]>>
<1> DEFINE value(c) == Data(r, f, c[1][1], c[2][1], c[2][2])
           pairs == {<<c[1], value(c)>> : c \in LocHaloCopies[r]}
<1>1. LocHaloOf(r, f) = Overwritten(halo[r][f], pairs)
  BY DEF LocHaloOf
<1>2. DOMAIN LocHaloOf(r, f) = DOMAIN halo[r][f]
  <2> DEFINE old == halo[r][f]
  <2> HIDE DEF pairs, old, value
  <2>1. DOMAIN Overwritten(old, pairs) = DOMAIN old
    BY OverwrittenIs
  <2> QED BY <1>1, <2>1 DEF old
<1>3. ASSUME NEW p \in Coverage, NEW ori \in Ori, NEW dir \in Dir,
             NEW i \in SlotsOf(r, p, ori, dir), NEW lane \in Lanes
      PROVE  LocHaloOf(r, f)[<<p, Slot(r, p, ori, dir, i), lane>>]
               = <<f, Alone(r, p, ori, dir, i, lane), version[r][f]>>
  <2> DEFINE key == <<p, Slot(r, p, ori, dir, i), lane>>
             from == <<Facing(r, p, ori, dir, i), RankNeighbour(lane, Lat.nSimdRanks, ori, dir)>>
             v == <<f, Alone(r, p, ori, dir, i, lane), version[r][f]>>
  <2>1. /\ key \in Coverage \X HaloSlots(SiteG[r]) \X Lanes
        /\ <<key, from>> \in LocHaloCopies[r]
        /\ \A c \in LocHaloCopies[r] : c[1] = key => c[2] = from
    BY FilledOwn
  <2>2. \A c \in LocHaloCopies[r] : c[1] = key => value(c) = v
    <3> SUFFICES ASSUME NEW c \in LocHaloCopies[r], c[1] = key PROVE value(c) = v
      OBVIOUS
    <3>1. c[1][1] = p /\ c[2] = from
      BY <2>1
    <3>2. c[2][1] = Facing(r, p, ori, dir, i)
          /\ c[2][2] = RankNeighbour(lane, Lat.nSimdRanks, ori, dir)
      BY <3>1
    <3> QED BY <3>1, <3>2 DEF Data, Alone
  <2> HIDE DEF key, from, v, value
  <2>3. (\E y \in pairs : y[1] = key) /\ (\A y \in pairs : y[1] = key => y[2] = v)
    <3>1. <<key, value(<<key, from>>)>> \in pairs
      BY <2>1
    <3>2. \A y \in pairs : \E c \in LocHaloCopies[r] : y = <<c[1], value(c)>>
      OBVIOUS
    <3> HIDE DEF pairs
    <3> QED BY <2>2, <3>1, <3>2
  <2> HIDE DEF pairs
  <2>4. LocHaloOf(r, f)[key] = v
    <3> DEFINE old == halo[r][f]
    <3>1. key \in DOMAIN old
      BY <2>1
    <3> HIDE DEF old
    <3>2. Overwritten(old, pairs)[key] = v
      BY <2>3, <3>1, OverwrittenIs
    <3> QED BY <1>1, <3>2 DEF old
  <2> QED BY <2>4 DEF key, v
<1> QED BY <1>2, <1>3

\* The global site of a site of the lattice.
LEMMA GlbSiteIs ==
  ASSUME Layout = "simdifiable", NEW r \in Ranks, NEW p \in Parity,
         NEW x \in EoSites(SiteG[r]), NEW lane \in Lanes
  PROVE  GlbSite[r][<<p, x, lane>>]
           = SiteOfCoords(GlbCoordsOfSimdEoSite(Lat, r, p, x, lane), Lat.glbSides)
BY DEF GlbSite

\* The tables of a rank send each site of a face to the slot of the halo that holds its
\* neighbour, if the halo holds what is behind the faces.
LEMMA FoundBehind ==
  ASSUME Layout = "simdifiable", EvenLattice, NEW r \in Ranks, NEW f, NEW v, HoldsOthers(r, f, v)
  PROVE  FindsNeighbours(r, f, v)
<1> SUFFICES ASSUME NEW z \in Beyond[r] PROVE halo[r][f][z[1]] = <<f, z[2], v>>
  BY DEF FindsNeighbours
<1>1. PICK p \in Parity, x \in EoSites(SiteG[r]), o \in Ori, d \in Dir : \E lane \in Lanes :
        /\ EoNeighbour(SiteG[r], p, x, o, d) >= EoVol(SiteG[r])
        /\ OppositeParity(p) \in Coverage
        /\ z = <<<<OppositeParity(p), EoNeighbour(SiteG[r], p, x, o, d) - EoVol(SiteG[r]), lane>>,
                 SiteOfCoords(ShiftedGlbCoords(Lat,
                    CoordsOfSite(GlbSite[r][<<p, x, lane>>], Lat.glbSides), o, d), Lat.glbSides)>>
  <2>1. PICK y \in Parity \X EoSites(SiteG[r]) \X Ori \X Dir \X Lanes :
          /\ EoNeighbour(SiteG[r], y[1], y[2], y[3], y[4]) >= EoVol(SiteG[r])
          /\ OppositeParity(y[1]) \in Coverage
          /\ z = <<<<OppositeParity(y[1]),
                     EoNeighbour(SiteG[r], y[1], y[2], y[3], y[4]) - EoVol(SiteG[r]), y[5]>>,
                   SiteOfCoords(ShiftedGlbCoords(Lat,
                      CoordsOfSite(GlbSite[r][<<y[1], y[2], y[5]>>], Lat.glbSides), y[3], y[4]),
                      Lat.glbSides)>>
    BY DEF Beyond
  <2>2. /\ y[1] \in Parity /\ y[2] \in EoSites(SiteG[r]) /\ y[3] \in Ori /\ y[4] \in Dir
        /\ y[5] \in Lanes
    OBVIOUS
  <2> QED BY <2>1, <2>2
<1>2. PICK lane \in Lanes :
        /\ EoNeighbour(SiteG[r], p, x, o, d) >= EoVol(SiteG[r])
        /\ OppositeParity(p) \in Coverage
        /\ z = <<<<OppositeParity(p), EoNeighbour(SiteG[r], p, x, o, d) - EoVol(SiteG[r]), lane>>,
                 SiteOfCoords(ShiftedGlbCoords(Lat,
                    CoordsOfSite(GlbSite[r][<<p, x, lane>>], Lat.glbSides), o, d), Lat.glbSides)>>
  BY <1>1
<1> DEFINE g == SiteG[r]
           q == OppositeParity(p)
           u == OppositeOri(o)
           i == Pos(g, p, x, o, d)
           there == RankAcross(Lat, r, lane, o, d)
           other == RankNeighbour(lane, Lat.nSimdRanks, o, d)
           h == SiteG[there]
           at == GlbCoordsOfSimdEoSite(Lat, r, p, x, lane)
           shifted == ShiftedGlbCoords(Lat, at, o, d)
           N == Lat.glbSides
<1>3. q \in Parity /\ u \in Ori /\ GoodGrid(g)
  BY OppositeFacts, GridsOfRanks
<1>4. OnFace(g, p, x, o, d)
      /\ EoVol(g) \in Nat
      /\ EoNeighbour(g, p, x, o, d) = EoVol(g) + (EoHaloOffset(g, q, o, d) + i)
      /\ i \in 0..(EoHaloPerDir(g, q, o, d) - 1)
  BY <1>2, <1>3, NeighbourPlace
<1>5. z[1] = <<q, Slot(r, q, o, d, i), lane>>
  <2>1. EoHaloOffset(g, q, o, d) \in Nat
    BY <1>3, HaloSection
  <2> DEFINE w == EoVol(g)
             a == EoHaloOffset(g, q, o, d)
  <2>2. w \in Nat /\ a \in Nat /\ i \in Int
    BY <1>4, <2>1
  <2> HIDE DEF i, w, a
  <2>3. (w + (a + i)) - w = a + i
    BY <2>2
  <2>4. EoNeighbour(SiteG[r], p, x, o, d) - EoVol(SiteG[r]) = Slot(r, q, o, d, i)
    BY <1>4, <2>3 DEF w, a, Slot
  <2> QED BY <1>2, <2>4
<1>6. i \in SlotsOf(r, q, o, d)
  BY <1>4 DEF SlotsOf
<1>7. halo[r][f][z[1]] = <<f, Alone(there, q, o, d, i, lane), v>>
  <2> HIDE DEF i, q, there
  <2>1. q \in Coverage
    BY <1>2 DEF q
  <2> QED BY <1>5, <1>6, <2>1 DEF HoldsOthers, there
<1>8. /\ Divided(Lat) /\ LanesEven(Lat) /\ EvenCuts(Lat) /\ r \in RanksOf(Lat.nRanks)
      /\ lane \in RanksOf(Lat.nSimdRanks) /\ g = SimdLocGrid(Lat, r) /\ N \in SidesOf
      /\ Ranks = RanksOf(Lat.nRanks) /\ Lanes = RanksOf(Lat.nSimdRanks)
  <2>1. N \in SidesOf
    BY LatAssumption DEF SidesOf
  <2>2. g = SimdLocGrid(Lat, r) /\ Lanes = RanksOf(Lat.nSimdRanks)
    BY GridsOfRanks
  <2> QED BY <2>1, <2>2 DEF EvenLattice, Ranks
<1>9. /\ there \in Ranks /\ other \in Lanes /\ at \in Box(N)
      /\ \E y \in Lookers(SimdLocGrid(Lat, there), q, u, d) :
           /\ Pos(SimdLocGrid(Lat, there), q, y, u, d) = i
           /\ GlbCoordsOfSimdEoSite(Lat, there, q, y, other) = shifted
           /\ shifted \in Box(N)
  <2>1. x \in EoSites(SimdLocGrid(Lat, r)) /\ OnFace(SimdLocGrid(Lat, r), p, x, o, d)
    BY <1>4, <1>8
  <2> QED BY <1>8, <2>1, Across
<1>10. h = SimdLocGrid(Lat, there)
  <2> HIDE DEF there
  <2> QED BY <1>9, GridsOfRanks
<1>11. PICK y \in Lookers(h, q, u, d) :
           /\ Pos(h, q, y, u, d) = i
           /\ GlbCoordsOfSimdEoSite(Lat, there, q, y, other) = shifted
           /\ shifted \in Box(N)
  <2> HIDE DEF h, u, q, i, there, other, shifted, at
  <2> QED BY <1>9, <1>10
<1>12. i \in SlotsOf(there, q, o, d)
  <2> HIDE DEF there, q, i
  <2>1. EoHaloPerDir(SiteG[there], q, o, d) = EoHaloPerDir(SiteG[r], q, o, d)
    BY <1>3, <1>9, RanksAlike
  <2> QED BY <1>6, <2>1 DEF SlotsOf
<1>13. y = Facing(there, q, o, d, i) /\ y \in EoSites(h)
  <2> HIDE DEF there, q, i
  <2>1. /\ Facing(there, q, o, d, i) \in EoSites(SiteG[there])
        /\ \A w \in Lookers(SiteG[there], q, OppositeOri(o), d) :
             Pos(SiteG[there], q, w, OppositeOri(o), d) = i => w = Facing(there, q, o, d, i)
    BY <1>3, <1>9, <1>12, FacingIs
  <2> QED BY <1>11, <2>1
<1>14. Alone(there, q, o, d, i, lane) = SiteOfCoords(shifted, N)
  <2>1. Alone(there, q, o, d, i, lane) = GlbSite[there][<<q, y, other>>]
    <3> HIDE DEF there, q, i
    <3> QED BY <1>13 DEF Alone
  <2>2. GlbSite[there][<<q, y, other>>]
          = SiteOfCoords(GlbCoordsOfSimdEoSite(Lat, there, q, y, other), N)
    <3> HIDE DEF there, q, other
    <3> QED BY <1>3, <1>9, <1>13, GlbSiteIs
  <2> HIDE DEF there, q, i, other, shifted
  <2> QED BY <1>11, <2>1, <2>2
<1>15. CoordsOfSite(GlbSite[r][<<p, x, lane>>], N) = at
  <2>1. GlbSite[r][<<p, x, lane>>] = SiteOfCoords(at, N)
    BY GlbSiteIs
  <2> HIDE DEF at
  <2> QED BY <1>8, <1>9, <2>1, SiteOfCoordsInverse
<1>16. z[2] = SiteOfCoords(shifted, N)
  BY <1>2, <1>15
<1> HIDE DEF i, q, there, shifted
<1> QED BY <1>7, <1>14, <1>16

------------------------------------------------------------------------------
(* The buffers.                                                            *)

LEMMA BufferSlots ==
  ASSUME Layout = "simdifiable", EvenLattice, NEW r \in Ranks, NEW f \in Faces,
         NEW t \in 0..(Section(r, f).n - 1)
  PROVE  /\ f[1] \in Coverage => BufferSlot(r, f, t) \in Coverage \X HaloSlots(LocG[r])
         /\ \A h \in Faces : \A w : w \in 0..(Section(r, h).n - 1)
                                /\ BufferSlot(r, h, w) = BufferSlot(r, f, t) => h = f /\ w = t
<1>1. PICK p \in Parity, o \in Ori, d \in Dir : f = <<p, o, d>>
  BY DEF Faces
<1> DEFINE a == Section(r, f).offset
           n == Section(r, f).n
           size == EoHalo(LocG[r])
<1>2. a \in Nat /\ n \in Nat /\ a + n <= size
  BY <1>1, SectionIs
<1>3. GoodGrid(LocG[r])
  BY GridsOfRanks
<1>4. size \in Nat
  BY <1>1, <1>3, EoHaloAddsUp
<1>5. ASSUME f[1] \in Coverage PROVE BufferSlot(r, f, t) \in Coverage \X HaloSlots(LocG[r])
  <2>1. a + t \in 0..(size - 1)
    <3>1. t \in 0..(n - 1)
      OBVIOUS
    <3> HIDE DEF a, n, size
    <3> QED BY <1>2, <1>4, <3>1
  <2> QED BY <1>5, <2>1 DEF BufferSlot, HaloSlots
<1>6. ASSUME NEW h \in Faces, NEW w \in 0..(Section(r, h).n - 1),
             BufferSlot(r, h, w) = BufferSlot(r, f, t)
      PROVE  h = f /\ w = t
  <2>1. PICK q \in Parity, u \in Ori, e \in Dir : h = <<q, u, e>>
    BY DEF Faces
  <2>2. h[1] = f[1] /\ Section(r, h).offset + w = Section(r, f).offset + t
    BY <1>6 DEF BufferSlot
  <2>3. q = p
    BY <1>1, <2>1, <2>2
  <2>4. /\ Section(r, f).offset = EoHaloOffset(LocG[r], p, o, d)
        /\ Section(r, f).n = EoHaloPerDir(LocG[r], p, o, d)
    BY <1>1, SectionIs
  <2>5. /\ Section(r, h).offset = EoHaloOffset(LocG[r], p, u, e)
        /\ Section(r, h).n = EoHaloPerDir(LocG[r], p, u, e)
    BY <2>1, <2>3, SectionIs
  <2>6. /\ t \in 0..(EoHaloPerDir(LocG[r], p, o, d) - 1)
        /\ w \in 0..(EoHaloPerDir(LocG[r], p, u, e) - 1)
        /\ EoHaloOffset(LocG[r], p, u, e) + w = EoHaloOffset(LocG[r], p, o, d) + t
    BY <2>2, <2>4, <2>5
  <2>7. u = o /\ e = d /\ w = t
    BY <1>3, <2>6, SectionsApart
  <2> QED BY <1>1, <2>1, <2>3, <2>7
<1> QED BY <1>5, <1>6

LEMMA CutFacesAre ==
  ASSUME NEW p \in Coverage
  PROVE  /\ CutFaces(p) \subseteq Faces
         /\ \A f \in CutFaces(p) : \E o \in Ori, d \in Dir : f = <<p, o, d>> /\ Lat.nRanks[d] > 1
         /\ \A o \in Ori, d \in Dir : Lat.nRanks[d] > 1 => <<p, o, d>> \in CutFaces(p)
BY CoverageFacts DEF CutFaces, Faces

\* fillBufferParity puts each message in its section.
LEMMA PackedIs ==
  ASSUME Layout = "simdifiable", EvenLattice, NEW r \in Ranks, NEW f, NEW v, NEW p \in Coverage,
         HoldsOwn(r, f, v), DOMAIN out[r] = Coverage \X HaloSlots(LocG[r])
  PROVE  /\ DOMAIN Overwritten(out[r], Packed(r, f, p)) = DOMAIN out[r]
         /\ \A x \in DOMAIN out[r] :
              x[1] # p => Overwritten(out[r], Packed(r, f, p))[x] = out[r][x]
         /\ \A face \in CutFaces(p) : \A t \in 0..(Section(r, face).n - 1) :
              Overwritten(out[r], Packed(r, f, p))[BufferSlot(r, face, t)] = Element(r, f, face, v, t)
<1> DEFINE value(c) == halo[r][f][<<p, c[1], c[2]>>]
           pairs == {<<<<p, c[3]>>, value(c)>> : c \in PackCopies[r][p]}
           old == out[r]
           new == Overwritten(old, pairs)
<1>1. Packed(r, f, p) = pairs
  BY DEF Packed
<1>2. \A y \in pairs : \E c \in PackCopies[r][p] : y = <<<<p, c[3]>>, value(c)>>
  OBVIOUS
<1>3. DOMAIN new = DOMAIN old
  <2> HIDE DEF pairs, old
  <2> QED BY OverwrittenIs
<1>4. ASSUME NEW x \in DOMAIN old, x[1] # p PROVE new[x] = old[x]
  <2>1. \A y \in pairs : y[1] # x
    <3> HIDE DEF pairs, value
    <3> QED BY <1>2, <1>4
  <2> HIDE DEF pairs, old
  <2> QED BY <2>1, OverwrittenIs
<1>5. ASSUME NEW face \in CutFaces(p), NEW t \in 0..(Section(r, face).n - 1)
      PROVE  new[BufferSlot(r, face, t)] = Element(r, f, face, v, t)
  <2>1. PICK o \in Ori, dir \in Dir : face = <<p, o, dir>> /\ Lat.nRanks[dir] > 1
    BY CutFacesAre
  <2> DEFINE ori == OppositeOri(o)
             L == Len(Border(ori, dir))
             i == t \div L
             lane == Border(ori, dir)[(t % L) + 1]
             slot == Slot(r, p, ori, dir, i)
             at == Section(r, <<p, o, dir>>).offset + t
  <2>2. t \in 0..(Section(r, <<p, o, dir>>).n - 1)
    BY <2>1
  <2>3. /\ i \in SlotsOf(r, p, ori, dir) /\ lane \in Lanes
        /\ <<slot, lane, at>> \in PackCopies[r][p]
        /\ \A c \in PackCopies[r][p] : c[3] = at => c[1] = slot /\ c[2] = lane
        /\ <<p, at>> \in Coverage \X HaloSlots(LocG[r])
    BY <2>1, <2>2, PackedFrom
  <2>4. ori \in Ori
    BY OppositeFacts
  <2>5. halo[r][f][<<p, slot, lane>>] = <<f, Alone(r, p, ori, dir, i, lane), v>>
    <3> HIDE DEF i, lane, ori
    <3> QED BY <2>3, <2>4 DEF HoldsOwn
  <2>6. Element(r, f, face, v, t) = <<f, Alone(r, p, ori, dir, i, lane), v>>
    BY <2>1 DEF Element
  <2>7. BufferSlot(r, face, t) = <<p, at>>
    BY <2>1 DEF BufferSlot
  <2> DEFINE e == Element(r, f, face, v, t)
             key == <<p, at>>
  <2>8. (\E y \in pairs : y[1] = key) /\ (\A y \in pairs : y[1] = key => y[2] = e)
    <3>1. <<key, value(<<slot, lane, at>>)>> \in pairs
      <4> HIDE DEF slot, lane, at
      <4> QED BY <2>3
    <3>2. ASSUME NEW y \in pairs, y[1] = key PROVE y[2] = e
      <4>1. PICK c \in PackCopies[r][p] : y = <<<<p, c[3]>>, value(c)>>
        BY <1>2
      <4> HIDE DEF at, slot, lane, pairs
      <4>2. c[3] = at
        BY <3>2, <4>1
      <4>3. c[1] = slot /\ c[2] = lane
        BY <2>3, <4>2
      <4> QED BY <2>5, <2>6, <4>1, <4>3
    <3> HIDE DEF pairs, key, e
    <3> QED BY <3>1, <3>2
  <2>9. key \in DOMAIN old
    BY <2>3
  <2> HIDE DEF pairs, key, e, old
  <2>10. new[key] = e
    BY <2>8, <2>9, OverwrittenIs
  <2> QED BY <2>7, <2>10 DEF key, e
<1> HIDE DEF pairs
<1> QED BY <1>1, <1>3, <1>4, <1>5

\* The buffer when MPI has put a message in the section it is received in.
Received(r, f, payload) ==
  Overwritten(in[r], {<<<<f[1], Sections[r][f].offset + i>>, payload[i]>> : i \in DOMAIN payload})

\* The message is in its section, and the others are as they were.
LEMMA DeliveredIs ==
  ASSUME Layout = "simdifiable", EvenLattice, NEW r \in Ranks, NEW f \in Faces, f[1] \in Coverage,
         NEW payload, DOMAIN payload = 0..(Section(r, f).n - 1),
         DOMAIN in[r] = Coverage \X HaloSlots(LocG[r])
  PROVE  /\ DOMAIN Received(r, f, payload) = DOMAIN in[r]
         /\ \A t \in 0..(Section(r, f).n - 1) :
              Received(r, f, payload)[BufferSlot(r, f, t)] = payload[t]
         /\ \A h \in Faces : h # f /\ h[1] \in Coverage =>
              \A t \in 0..(Section(r, h).n - 1) :
                 Received(r, f, payload)[BufferSlot(r, h, t)] = in[r][BufferSlot(r, h, t)]
<1> DEFINE buffer == in[r]
           new == Received(r, f, payload)
           pairs == {<<BufferSlot(r, f, i), payload[i]>> : i \in DOMAIN payload}
<1>1. Sections[r][f] = Section(r, f)
  BY DEF Sections, Faces
<1>2. new = Overwritten(buffer, pairs)
  BY <1>1 DEF BufferSlot, Received
<1>0. DOMAIN buffer = Coverage \X HaloSlots(LocG[r])
  OBVIOUS
<1> HIDE DEF new, buffer
<1>3. \A y \in pairs : \E i \in 0..(Section(r, f).n - 1) : y = <<BufferSlot(r, f, i), payload[i]>>
  OBVIOUS
<1>4. DOMAIN new = DOMAIN buffer
  <2> HIDE DEF pairs
  <2> QED BY <1>2, OverwrittenIs
<1>5. ASSUME NEW t \in 0..(Section(r, f).n - 1) PROVE new[BufferSlot(r, f, t)] = payload[t]
  <2> DEFINE key == BufferSlot(r, f, t)
             v == payload[t]
  <2>1. key \in DOMAIN buffer
    BY <1>0, BufferSlots
  <2>2. \A i \in 0..(Section(r, f).n - 1) : BufferSlot(r, f, i) = key => i = t
    BY <1>0, BufferSlots
  <2>3. <<key, v>> \in pairs
    OBVIOUS
  <2> HIDE DEF pairs, key
  <2>4. \A y \in pairs : y[1] = key => y[2] = v
    BY <1>3, <2>2
  <2>5. \E y \in pairs : y[1] = key
    BY <2>3
  <2> HIDE DEF v
  <2>6. (\E y \in pairs : y[1] = key) /\ (\A y \in pairs : y[1] = key => y[2] = v)
    BY <2>4, <2>5
  <2>7. Overwritten(buffer, pairs)[key] = v
    <3> DEFINE old == buffer
    <3>1. key \in DOMAIN old
      BY <2>1
    <3> HIDE DEF old
    <3>2. Overwritten(old, pairs)[key] = v
      BY <2>4, <2>5, <3>1, OverwrittenAt
    <3> QED BY <3>2 DEF old
  <2> QED BY <1>2, <2>7 DEF key, v
<1>6. ASSUME NEW h \in Faces, h # f, h[1] \in Coverage, NEW t \in 0..(Section(r, h).n - 1)
      PROVE  new[BufferSlot(r, h, t)] = buffer[BufferSlot(r, h, t)]
  <2> DEFINE key == BufferSlot(r, h, t)
  <2>1. key \in DOMAIN buffer
    BY <1>0, <1>6, BufferSlots
  <2>2. \A i \in 0..(Section(r, f).n - 1) : BufferSlot(r, f, i) # key
    BY <1>0, <1>6, BufferSlots
  <2> HIDE DEF pairs, key
  <2>3. \A y \in pairs : y[1] # key
    BY <1>3, <2>2
  <2>4. Overwritten(buffer, pairs)[key] = buffer[key]
    BY <2>1, <2>3, OverwrittenIs
  <2> QED BY <1>2, <2>4 DEF key
<1> HIDE DEF pairs
<1> QED BY <1>4, <1>5, <1>6 DEF new, buffer

\* All messages of an update are in the buffer of what is received.
AllReceived(r, f, v) ==
  \A p \in Coverage : \A face \in CutFaces(p) : \A t \in 0..(Section(r, face).n - 1) :
     in[r][BufferSlot(r, face, t)]
       = Element(Other(r, face), f, <<face[1], OppositeOri(face[2]), face[3]>>, v, t)

\* fillHaloParity leaves each lane of the halo what is behind it: on the rank itself or,
\* on the border, on the one behind the face.
LEMMA UnpackedIs ==
  ASSUME Layout = "simdifiable", EvenLattice, NEW r \in Ranks, NEW f \in Fields, NEW v,
         DOMAIN halo[r][f] = Coverage \X HaloSlots(SiteG[r]) \X Lanes,
         HoldsOwn(r, f, v), AllReceived(r, f, v)
  PROVE  /\ DOMAIN Unpacked(r, f) = DOMAIN halo[r][f]
         /\ \A p \in Coverage, ori \in Ori, dir \in Dir :
              \A i \in SlotsOf(r, p, ori, dir), lane \in Lanes :
                Unpacked(r, f)[<<p, Slot(r, p, ori, dir, i), lane>>]
                  = <<f, Alone(RankAcross(Lat, r, lane, ori, dir), p, ori, dir, i, lane), v>>
<1> DEFINE old == halo[r][f]
           received(p, c) == in[r][<<p, c[3]>>]
           pairs == UNION {{<<<<p, c[1], c[2]>>, received(p, c)>> : c \in UnpackCopies[r][p]} :
                             p \in Coverage}
<1>1. Unpacked(r, f) = Overwritten(old, pairs)
  BY DEF Unpacked
<1>2. \A y \in pairs : \E p \in Coverage : \E c \in UnpackCopies[r][p] :
        y = <<<<p, c[1], c[2]>>, received(p, c)>>
  OBVIOUS
<1>3. \A p \in Coverage : \A c \in UnpackCopies[r][p] :
        <<<<p, c[1], c[2]>>, received(p, c)>> \in pairs
  <2> SUFFICES ASSUME NEW p \in Coverage, NEW c \in UnpackCopies[r][p]
               PROVE  <<<<p, c[1], c[2]>>, received(p, c)>> \in pairs
    OBVIOUS
  <2> HIDE DEF received
  <2> DEFINE those == {<<<<p, k[1], k[2]>>, received(p, k)>> : k \in UnpackCopies[r][p]}
  <2>1. <<<<p, c[1], c[2]>>, received(p, c)>> \in those
    OBVIOUS
  <2>2. those \in {{<<<<q, k[1], k[2]>>, received(q, k)>> : k \in UnpackCopies[r][q]} :
                     q \in Coverage}
    OBVIOUS
  <2> HIDE DEF those
  <2> QED BY <2>1, <2>2
<1>4. DOMAIN Unpacked(r, f) = DOMAIN halo[r][f]
  <2> HIDE DEF pairs, old
  <2>1. DOMAIN Overwritten(old, pairs) = DOMAIN old
    BY OverwrittenIs
  <2> QED BY <1>1, <2>1 DEF old
<1>5. ASSUME NEW p \in Coverage, NEW ori \in Ori, NEW dir \in Dir,
             NEW i \in SlotsOf(r, p, ori, dir), NEW lane \in Lanes
      PROVE  Unpacked(r, f)[<<p, Slot(r, p, ori, dir, i), lane>>]
               = <<f, Alone(RankAcross(Lat, r, lane, ori, dir), p, ori, dir, i, lane), v>>
  <2> DEFINE slot == Slot(r, p, ori, dir, i)
             key == <<p, slot, lane>>
             face == <<p, ori, dir>>
             e == <<f, Alone(RankAcross(Lat, r, lane, ori, dir), p, ori, dir, i, lane), v>>
  <2>1. key \in DOMAIN old
    <3>1. key \in Coverage \X HaloSlots(SiteG[r]) \X Lanes
      BY FilledOwn
    <3> QED BY <3>1
  <2>2. CASE ~IsNonLocSimdRank(Lat, lane, ori, dir)
    <3>1. \A c \in UnpackCopies[r][p] : ~(c[1] = slot /\ c[2] = lane)
      BY <2>2, UnpackedTo
    <3>2. \A y \in pairs : y[1] # key
      <4> HIDE DEF pairs, received, slot
      <4> QED BY <1>2, <3>1
    <3>3. Unpacked(r, f)[key] = old[key]
      <4> HIDE DEF pairs, old, key
      <4>1. Overwritten(old, pairs)[key] = old[key]
        BY <2>1, <3>2, OverwrittenIs
      <4> QED BY <1>1, <4>1
    <3>4. RankAcross(Lat, r, lane, ori, dir) = r
      BY <2>2 DEF RankAcross
    <3>5. old[key] = <<f, Alone(r, p, ori, dir, i, lane), v>>
      BY DEF HoldsOwn
    <3> QED BY <3>3, <3>4, <3>5
  <2>3. CASE IsNonLocSimdRank(Lat, lane, ori, dir)
    <3> DEFINE L == Len(Border(ori, dir))
               section == Section(r, face)
    <3>1. Lat.nRanks[dir] > 1
      BY <2>3 DEF IsNonLocSimdRank
    <3>2. PICK t \in 0..(section.n - 1) :
            /\ t \div L = i /\ Border(ori, dir)[(t % L) + 1] = lane
            /\ <<slot, lane, section.offset + t>> \in UnpackCopies[r][p]
            /\ \A c \in UnpackCopies[r][p] : c[1] = slot /\ c[2] = lane => c[3] = section.offset + t
      <4>1. PICK t \in 0..(Section(r, <<p, ori, dir>>).n - 1) :
               UnpackedAt(r, p, ori, dir, i, lane, t)
        <5> HIDE DEF old, received, pairs, slot, key, face, e, L, section
        <5> QED BY <2>3, UnpackedTo
      <4> QED BY <4>1 DEF UnpackedAt
    <3>3. face \in CutFaces(p)
      BY <3>1, CutFacesAre
    <3>4. in[r][BufferSlot(r, face, t)]
            = Element(Other(r, face), f, <<face[1], OppositeOri(face[2]), face[3]>>, v, t)
      <4> HIDE DEF face
      <4> QED BY <3>2, <3>3 DEF AllReceived
    <3>5. Other(r, face) = RankAcross(Lat, r, lane, ori, dir)
      BY <2>3 DEF Other, RankAcross
    <3>6. OppositeOri(OppositeOri(ori)) = ori
      BY OppositeFacts
    <3>7. Element(Other(r, face), f, <<face[1], OppositeOri(face[2]), face[3]>>, v, t)
            = <<f, Alone(Other(r, face), p, ori, dir, t \div L, Border(ori, dir)[(t % L) + 1]), v>>
      BY <3>6 DEF Element
    <3>8. in[r][<<p, section.offset + t>>] = e
      <4>1. BufferSlot(r, face, t) = <<p, section.offset + t>>
        BY DEF BufferSlot
      <4>2. t \div L = i /\ Border(ori, dir)[(t % L) + 1] = lane
        BY <3>2
      <4> HIDE DEF face, L, section
      <4> QED BY <3>4, <3>5, <3>7, <4>1, <4>2
    <3> HIDE DEF section
    <3>9. /\ \E y \in pairs : y[1] = key
          /\ \A y \in pairs : y[1] = key => y[2] = e
      <4>1. <<<<p, slot, lane>>, received(p, <<slot, lane, section.offset + t>>)>> \in pairs
        <5> HIDE DEF slot, pairs, received
        <5> QED BY <1>3, <3>2
      <4>2. ASSUME NEW y \in pairs, y[1] = key PROVE y[2] = e
        <5>0. PICK q \in Coverage : \E c \in UnpackCopies[r][q] :
                y = <<<<q, c[1], c[2]>>, received(q, c)>>
          <6> HIDE DEF pairs, received
          <6> QED BY <1>2
        <5>1. PICK c \in UnpackCopies[r][q] : y = <<<<q, c[1], c[2]>>, received(q, c)>>
          BY <5>0
        <5> HIDE DEF pairs, slot, e
        <5>2. q = p /\ c[1] = slot /\ c[2] = lane
          BY <4>2, <5>1
        <5>3. c[3] = section.offset + t
          BY <3>2, <5>2
        <5> QED BY <3>8, <5>1, <5>2, <5>3
      <4> HIDE DEF pairs, e
      <4> QED BY <4>1, <4>2
    <3> HIDE DEF pairs, old, key, e
    <3>10. Overwritten(old, pairs)[key] = e
      BY <2>1, <3>9, OverwrittenAt
    <3> QED BY <1>1, <3>10 DEF key, e
  <2> QED BY <2>2, <2>3
<1> QED BY <1>4, <1>5

------------------------------------------------------------------------------
(* What a step leaves alone.                                               *)

LEMMA FilledKept ==
  ASSUME NEW r \in Ranks, FilledAt(r), pc'[r] = pc[r], next'[r] = next[r],
         version'[r] = version[r], halo'[r] = halo[r]
  PROVE  FilledAt(r)'
<1>1. TheField(r)' = TheField(r)
  BY DEF TheField, Now
<1> QED BY <1>1 DEF FilledAt, HoldsOwn

LEMMA PackedKept ==
  ASSUME NEW r \in Ranks, NEW p \in Coverage, PackedAt(r, p), next'[r] = next[r],
         Posted(r, p)' => Posted(r, p), out'[r] = out[r]
  PROVE  PackedAt(r, p)'
BY DEF PackedAt, CutFaces, BufferSlot

LEMMA ReceivedKept ==
  ASSUME NEW r \in Ranks, NEW p \in Coverage, ReceivedAt(r, p), next'[r] = next[r],
         Posted(r, p)' => Posted(r, p), in'[r] = in[r],
         \A f \in CutFaces(p) : recvs'[RecvLink(r, f)] = recvs[RecvLink(r, f)]
  PROVE  ReceivedAt(r, p)'
BY DEF ReceivedAt, CutFaces, BufferSlot, RecvLink, Other

LEMMA MessagesKept ==
  ASSUME NEW s \in Ranks, NEW r \in Ranks, NEW p \in Coverage, NEW ori \in Ori, NEW dir \in Dir,
         MessagesOn(s, r, p, ori, dir),
         channel'[<<s, r, Tag(p, ori, dir)>>] = channel[<<s, r, Tag(p, ori, dir)>>],
         Count(r, p)' - Len(recvs'[<<s, r, Tag(p, ori, dir)>>])
           = Count(r, p) - Len(recvs[<<s, r, Tag(p, ori, dir)>>])
  PROVE  MessagesOn(s, r, p, ori, dir)'
<1> DEFINE l == <<s, r, Tag(p, ori, dir)>>
           c == channel[l]
           from == Count(r, p) - Len(recvs[l])
<1>1. Connected(s, r, ori, dir) =>
        \A k \in 1..Len(c) : \E n \in 1..Len(Script) :
           Exchange(n) /\ Number(n) = from + k /\ c[k] = Message(s, n, <<p, ori, dir>>)
  BY DEF MessagesOn
<1>2. channel'[l] = c /\ Count(r, p)' - Len(recvs'[l]) = from
  OBVIOUS
<1>3. MessagesOn(s, r, p, ori, dir)' <=>
        (Connected(s, r, ori, dir) =>
          \A k \in 1..Len(channel'[l]) : \E n \in 1..Len(Script) :
             /\ Exchange(n) /\ Number(n) = (Count(r, p)' - Len(recvs'[l])) + k
             /\ channel'[l][k] = Message(s, n, <<p, ori, dir>>))
  BY DEF MessagesOn, Connected
<1> HIDE DEF c, from, l
<1> QED BY <1>1, <1>2, <1>3

LEMMA UpdatedKept ==
  ASSUME NEW r \in Ranks, NEW f \in Fields, UpdatedAt(r, f), status'[r][f] = status[r][f],
         updatedAt'[r][f] = updatedAt[r][f], halo'[r][f] = halo[r][f]
  PROVE  UpdatedAt(r, f)'
BY DEF UpdatedAt, HoldsOthers

\* A step without communications.
LEMMA SilentKeepsMessages ==
  ASSUME DInv, Silent,
         NEW s \in Ranks, NEW r \in Ranks, NEW p \in Coverage, NEW ori \in Ori, NEW dir \in Dir
  PROVE  MessagesOn(s, r, p, ori, dir)' /\ RecvMeant(s, r, p, ori, dir)'
<1>1. MessagesOn(s, r, p, ori, dir) /\ RecvMeant(s, r, p, ori, dir)
  BY DEF DInv
<1>2. Count(r, p)' = Count(r, p) /\ recvs' = recvs /\ channel' = channel
  BY DEF Silent
<1>3. MessagesOn(s, r, p, ori, dir)'
  BY <1>1, <1>2, MessagesKept
<1> QED BY <1>1, <1>2, <1>3 DEF RecvMeant

------------------------------------------------------------------------------
(* The steps of a rank, and what is held.                                  *)

\* Neither a write nor an update that returns at once touches a halo or a buffer.
LEMMA PassKeepsData ==
  ASSUME HInv, DInv, NEW r \in Ranks, Pass(r), VersionsFollow',
         UNCHANGED <<updatedAt, status, halo, out, in>>,
         \A t \in Ranks : t # r => version'[t] = version[t]
  PROVE  DInv'
<1>1. Places
  BY DEF HInv
<1>2. /\ \A t \in Ranks : t # r => next'[t] = next[t]
      /\ pc' = pc /\ pc[r] = <<"app">> /\ recvs' = recvs /\ channel' = channel
  BY <1>1 DEF Pass, Places
<1>3. \A p \in Coverage : ~Posted(r, p)'
  BY <1>2, PostedStages DEF Posted, PostedAt
<1>4. Silent
  BY PassIsSilent
<1>5. Domains'
  BY DEF DInv, Domains
<1>6. ASSUME NEW t \in Ranks PROVE FilledAt(t)'
  <2>1. CASE t = r
    BY <1>2, <2>1 DEF FilledAt
  <2>2. CASE t # r
    BY <1>2, <2>2, FilledKept DEF DInv
  <2> QED BY <2>1, <2>2
<1>7. ASSUME NEW t \in Ranks, NEW p \in Coverage PROVE PackedAt(t, p)' /\ ReceivedAt(t, p)'
  <2>1. CASE t = r
    BY <1>3, <2>1 DEF PackedAt, ReceivedAt
  <2>2. CASE t # r
    <3>1. Posted(t, p)' <=> Posted(t, p)
      BY <1>2, <2>2, CountKept
    <3>2. PackedAt(t, p) /\ ReceivedAt(t, p)
      BY DEF DInv
    <3>3. PackedAt(t, p)'
      BY <1>2, <2>2, <3>1, <3>2, PackedKept
    <3>4. ReceivedAt(t, p)'
      BY <1>2, <2>2, <3>1, <3>2, ReceivedKept
    <3> QED BY <3>3, <3>4
  <2> QED BY <2>1, <2>2
<1>8. ASSUME NEW s \in Ranks, NEW t \in Ranks, NEW p \in Coverage, NEW ori \in Ori, NEW dir \in Dir
      PROVE  MessagesOn(s, t, p, ori, dir)' /\ RecvMeant(s, t, p, ori, dir)'
  BY <1>4, SilentKeepsMessages
<1>9. ASSUME NEW t \in Ranks, NEW f \in Fields PROVE UpdatedAt(t, f)'
  BY UpdatedKept DEF DInv
<1> QED BY <1>5, <1>6, <1>7, <1>8, <1>9 DEF DInv

LEMMA WriteKeepsData ==
  ASSUME HInv, DInv, NEW r \in Ranks, Write(r)
  PROVE  DInv'
<1>1. Places /\ VersionsFollow
  BY DEF HInv, DInv
<1>2. /\ pc[r] = <<"app">> /\ Running(r) /\ Now(r).op = "write"
      /\ version' = [version EXCEPT ![r][TheField(r)] = @ + 1]
      /\ next' = [next EXCEPT ![r] = @ + 1]
      /\ UNCHANGED <<pc, updatedAt, status, halo, out, in, sends, recvs, channel>>
  BY DEF Write
<1>3. next[r] \in 1..Len(Script) /\ TheField(r) \in Fields /\ next[r] \in Nat \ {0}
  BY <1>1, <1>2, PlaceOf
<1>4. Now(r) = [op |-> "write", field |-> TheField(r)] /\ Now(r) = Script[next[r]]
  BY <1>2, <1>3, ScriptFacts DEF Now, TheField
<1>5. Pass(r)
  BY <1>2 DEF Pass, Exchange, Now
<1>6. \A t \in Ranks : t # r => version'[t] = version[t] /\ next'[t] = next[t]
  BY <1>1, <1>2 DEF Places
<1>7. VersionsFollow'
  <2> SUFFICES ASSUME NEW t \in Ranks, NEW f \in Fields
               PROVE  version'[t][f] = Writes(next'[t], f)
    BY DEF VersionsFollow, Writes
  <2>1. version[t][f] = Writes(next[t], f)
    BY <1>1 DEF VersionsFollow
  <2>2. CASE t # r
    BY <1>6, <2>1, <2>2
  <2>3. CASE t = r
    <3>1. next'[r] = next[r] + 1
      BY <1>1, <1>2 DEF Places
    <3>2. version'[r][f] = IF f = TheField(r) THEN version[r][f] + 1 ELSE version[r][f]
      BY <1>1, <1>2, <1>3 DEF Places
    <3>3. Script[next[r]] = [op |-> "write", field |-> f] <=> f = TheField(r)
      BY <1>4
    <3>4. Writes(next[r] + 1, f)
            = IF f = TheField(r) THEN Writes(next[r], f) + 1 ELSE Writes(next[r], f)
      BY <1>3, <3>3, WritesGrow
    <3> QED BY <2>1, <2>3, <3>1, <3>2, <3>4
  <2> QED BY <2>2, <2>3
<1> QED BY <1>2, <1>5, <1>6, <1>7, PassKeepsData

LEMMA EarlyReturnKeepsData ==
  ASSUME HInv, DInv, NEW r \in Ranks, EarlyReturn(r)
  PROVE  DInv'
<1>1. Places /\ VersionsFollow /\ StatusFollows
  BY DEF HInv, DInv
<1>2. /\ pc[r] = <<"app">> /\ Running(r) /\ Now(r).op = "update"
      /\ status[r][TheField(r)] = "UPDATED"
      /\ next' = [next EXCEPT ![r] = @ + 1]
      /\ UNCHANGED <<pc, version, updatedAt, status, halo, out, in, sends, recvs, channel>>
  BY DEF EarlyReturn
<1>3. next[r] \in 1..Len(Script) /\ TheField(r) \in Fields /\ next[r] \in Nat \ {0}
  BY <1>1, <1>2, PlaceOf
<1>4. Pass(r)
  BY <1>1, <1>2, StatusTells DEF Pass
<1>5. \A t \in Ranks : t # r => next'[t] = next[t]
  BY <1>1, <1>2 DEF Places
<1>6. VersionsFollow'
  <2> SUFFICES ASSUME NEW t \in Ranks, NEW f \in Fields
               PROVE  version[t][f] = Writes(next'[t], f)
    BY <1>2 DEF VersionsFollow, Writes
  <2>1. version[t][f] = Writes(next[t], f)
    BY <1>1 DEF VersionsFollow
  <2>2. CASE t # r
    BY <1>5, <2>1, <2>2
  <2>3. CASE t = r
    <3>1. next'[r] = next[r] + 1
      BY <1>1, <1>2 DEF Places
    <3>2. Script[next[r]].op = "update"
      BY <1>2 DEF Now
    <3>3. Script[next[r]] # [op |-> "write", field |-> f]
      BY <3>2
    <3>4. Writes(next[r] + 1, f) = Writes(next[r], f)
      BY <1>3, <3>3, WritesGrow
    <3> QED BY <2>1, <2>3, <3>1, <3>4
  <2> QED BY <2>2, <2>3
<1> QED BY <1>2, <1>4, <1>6, PassKeepsData

\* fillLocHalo: the halo of the field becomes that of the rank alone.
LEMMA StartKeepsData ==
  ASSUME Layout = "simdifiable", EvenLattice, HInv, DInv, NEW r \in Ranks, StartUpdate(r)
  PROVE  DInv'
<1> DEFINE g == TheField(r)
           filled == LocHaloOf(r, g)
<1>1. Places /\ VersionsFollow /\ Domains
  BY DEF HInv, DInv
<1>2. /\ pc[r] = <<"app">> /\ Running(r) /\ status[r][g] = "NOT_UPDATED"
      /\ halo' = [halo EXCEPT ![r][g] = filled]
      /\ pc' = [pc EXCEPT ![r] = <<"fill", Min(Coverage)>>]
      /\ UNCHANGED <<next, version, updatedAt, status, out, in, sends, recvs, channel>>
  BY DEF StartUpdate
<1>3. g \in Fields
  BY <1>1, <1>2, PlaceOf
<1>4. /\ Silent
      /\ \A t \in Ranks, p \in Coverage : Posted(t, p)' <=> Posted(t, p)
  BY StartIsSilent
<1>5. DOMAIN halo[r][g] = Coverage \X HaloSlots(SiteG[r]) \X Lanes
  BY <1>1, <1>3 DEF Domains
<1>6. /\ DOMAIN filled = DOMAIN halo[r][g]
      /\ \A p \in Coverage, ori \in Ori, dir \in Dir :
           \A i \in SlotsOf(r, p, ori, dir), lane \in Lanes :
             filled[<<p, Slot(r, p, ori, dir, i), lane>>]
               = <<g, Alone(r, p, ori, dir, i, lane), version[r][g]>>
  <2> HIDE DEF g
  <2> QED BY <1>3, <1>5, LocHaloOfIs
<1>7. TheField(r)' = g
  BY <1>2 DEF TheField, Now
<1> HIDE DEF g, filled
<1>8. /\ halo = [t \in Ranks |-> halo[t]]
      /\ \A t \in Ranks : halo[t] = [f \in Fields |-> halo[t][f]]
  BY <1>1 DEF Domains
<1>9. /\ halo' = [t \in Ranks |-> halo'[t]]
      /\ \A t \in Ranks : halo'[t] = [f \in Fields |-> halo'[t][f]]
      /\ halo'[r][g] = filled
      /\ \A t \in Ranks : t # r => halo'[t] = halo[t]
      /\ \A t \in Ranks, f \in Fields : ~(t = r /\ f = g) => halo'[t][f] = halo[t][f]
  BY <1>2, <1>3, <1>8
<1>10. Domains'
  <2>1. \A t \in Ranks, f \in Fields : DOMAIN halo'[t][f] = Coverage \X HaloSlots(SiteG[t]) \X Lanes
    BY <1>1, <1>5, <1>6, <1>9 DEF Domains
  <2> QED BY <1>1, <1>2, <1>9, <2>1 DEF Domains
<1>11. VersionsFollow'
  BY <1>1, <1>2 DEF VersionsFollow, Writes
<1>12. ASSUME NEW t \in Ranks PROVE FilledAt(t)'
  <2>1. CASE t = r
    <3>1. \A p \in Coverage, ori \in Ori, dir \in Dir :
            \A i \in SlotsOf(r, p, ori, dir), lane \in Lanes :
              halo'[r][TheField(r)'][<<p, Slot(r, p, ori, dir, i), lane>>]
                = <<TheField(r)', Alone(r, p, ori, dir, i, lane), version'[r][TheField(r)']>>
      BY <1>2, <1>6, <1>7, <1>9
    <3> QED BY <2>1, <3>1 DEF FilledAt, HoldsOwn
  <2>2. CASE t # r
    <3>1. pc'[t] = pc[t]
      BY <1>1, <1>2, <2>2 DEF Places
    <3> QED BY <1>2, <1>9, <2>2, <3>1, FilledKept DEF DInv
  <2> QED BY <2>1, <2>2
<1>13. ASSUME NEW t \in Ranks, NEW p \in Coverage PROVE PackedAt(t, p)' /\ ReceivedAt(t, p)'
  <2>1. PackedAt(t, p) /\ ReceivedAt(t, p)
    BY DEF DInv
  <2>2. PackedAt(t, p)'
    BY <1>2, <1>4, <2>1, PackedKept
  <2>3. ReceivedAt(t, p)'
    BY <1>2, <1>4, <2>1, ReceivedKept
  <2> QED BY <2>2, <2>3
<1>14. ASSUME NEW s \in Ranks, NEW t \in Ranks, NEW p \in Coverage, NEW ori \in Ori, NEW dir \in Dir
       PROVE  MessagesOn(s, t, p, ori, dir)' /\ RecvMeant(s, t, p, ori, dir)'
  BY <1>4, SilentKeepsMessages
<1>15. ASSUME NEW t \in Ranks, NEW f \in Fields PROVE UpdatedAt(t, f)'
  <2>1. CASE t = r /\ f = g
    BY <1>2, <2>1 DEF UpdatedAt
  <2>2. CASE ~(t = r /\ f = g)
    BY <1>2, <1>9, <2>2, UpdatedKept DEF DInv
  <2> QED BY <2>1, <2>2
<1> QED BY <1>10, <1>11, <1>12, <1>13, <1>14, <1>15 DEF DInv

\* What is received in a face comes on the link of the opposite face of the rank behind.
LEMMA BehindFace ==
  ASSUME NEW r \in Ranks, NEW p \in Coverage, NEW f \in CutFaces(p)
  PROVE  \E ori \in Ori, dir \in Dir :
           /\ f = <<p, OppositeOri(ori), dir>> /\ <<f[1], OppositeOri(f[2]), f[3]>> = <<p, ori, dir>>
           /\ RecvLink(r, f) = <<Other(r, f), r, Tag(p, ori, dir)>>
           /\ Other(r, f) \in Ranks /\ Connected(Other(r, f), r, ori, dir)
           /\ Other(r, f) = RankNeighbour(r, Lat.nRanks, OppositeOri(ori), dir)
<1>1. PICK o \in Ori, dir \in Dir : f = <<p, o, dir>> /\ Lat.nRanks[dir] > 1
  BY CutFacesAre
<1> DEFINE ori == OppositeOri(o)
           s == Other(r, f)
<1>2. ori \in Ori /\ OppositeOri(ori) = o
  BY OppositeFacts
<1>3. s = RankNeighbour(r, Lat.nRanks, o, dir)
  BY <1>1 DEF Other
<1>4. s \in Ranks
  BY <1>3, RanksFacts, NeighbourInverse DEF Ranks
<1>5. Connected(r, s, o, dir)
  BY <1>1, <1>3 DEF Connected
<1>6. Connected(s, r, ori, dir)
  <2> HIDE DEF s
  <2> QED BY <1>4, <1>5, ConnectedMutual
<1>7. RecvLink(r, f) = <<s, r, Tag(p, ori, dir)>>
  BY <1>1 DEF RecvLink, RecvTag
<1>8. f = <<p, OppositeOri(ori), dir>> /\ <<f[1], OppositeOri(f[2]), f[3]>> = <<p, ori, dir>>
  BY <1>1, <1>2
<1> HIDE DEF ori, s
<1> QED BY <1>2, <1>3, <1>4, <1>6, <1>7, <1>8 DEF s

\* A message has one value for each slot of the section it is sent from.
LEMMA MessageIs ==
  ASSUME NEW s \in Ranks, NEW n, NEW f
  PROVE  /\ DOMAIN Message(s, n, f) = 0..(Section(s, f).n - 1)
         /\ \A t \in 0..(Section(s, f).n - 1) :
              Message(s, n, f)[t] = Element(s, Script[n].field, f, Writes(n, Script[n].field), t)
BY DEF Message

\* fillBufferParity packs the messages, and startCommunicationsParity posts them.
LEMMA FillAndPostKeepsData ==
  ASSUME Layout = "simdifiable", EvenLattice, HInv, DInv,
         NEW r \in Ranks, NEW q \in Coverage, FillAndPost(r, q)
  PROVE  DInv'
<1> DEFINE g == TheField(r)
           packed == Overwritten(out[r], Packed(r, g, q))
<1>1. Places /\ VersionsFollow /\ Domains /\ Exchanging
  BY DEF HInv, DInv
<1>2. /\ pc[r] = <<"fill", q>>
      /\ out' = [out EXCEPT ![r] = packed]
      /\ \A t \in Ranks : t # r => pc'[t] = pc[t]
      /\ UNCHANGED <<next, version, updatedAt, status, halo, in, channel>>
  BY <1>1 DEF FillAndPost, Places
<1>3. pc[r] # <<"app">>
  BY <1>2, StagesApart
<1>4. g \in Fields /\ g = Script[next[r]].field /\ version[r][g] = Writes(next[r], g)
  <2>1. Running(r)
    BY <1>1, <1>3 DEF Exchanging
  <2>2. g \in Fields
    BY <1>1, <2>1, PlaceOf
  <2> QED BY <1>1, <2>2 DEF TheField, Now, VersionsFollow
<1>5. /\ ~Posted(r, q)
      /\ \A t \in Ranks, p \in Coverage :
           /\ Posted(t, p)' <=> Posted(t, p) \/ (t = r /\ p = q)
           /\ Count(t, p)' = IF t = r /\ p = q THEN Count(t, p) + 1 ELSE Count(t, p)
  BY PostsOne
<1>6. /\ DOMAIN packed = DOMAIN out[r]
      /\ \A x \in DOMAIN out[r] : x[1] # q => packed[x] = out[r][x]
      /\ \A f \in CutFaces(q) : \A t \in 0..(Section(r, f).n - 1) :
           packed[BufferSlot(r, f, t)] = Element(r, g, f, version[r][g], t)
  <2> DEFINE v == version[r][g]
  <2>1. HoldsOwn(r, g, v)
    BY <1>3 DEF DInv, FilledAt
  <2>2. DOMAIN out[r] = Coverage \X HaloSlots(LocG[r])
    BY <1>1 DEF Domains
  <2> HIDE DEF g, v
  <2> QED BY <2>1, <2>2, PackedIs DEF v
<1> HIDE DEF packed
<1>7. out'[r] = packed /\ \A t \in Ranks : t # r => out'[t] = out[t]
  BY <1>1, <1>2 DEF Domains
<1>8. Domains'
  <2>1. out' = [t \in Ranks |-> out'[t]]
    BY <1>1, <1>2 DEF Domains
  <2>2. \A t \in Ranks : DOMAIN out'[t] = Coverage \X HaloSlots(LocG[t])
    BY <1>1, <1>6, <1>7 DEF Domains
  <2> QED BY <1>1, <1>2, <2>1, <2>2 DEF Domains
<1>9. VersionsFollow'
  BY <1>1, <1>2 DEF VersionsFollow, Writes
<1>10. ASSUME NEW t \in Ranks PROVE FilledAt(t)'
  <2>1. pc'[t] # <<"app">> => pc[t] # <<"app">>
    BY <1>2, <1>3
  <2>2. TheField(t)' = TheField(t)
    BY <1>2 DEF TheField, Now
  <2>3. FilledAt(t)
    BY DEF DInv
  <2> QED BY <1>2, <2>1, <2>2, <2>3 DEF FilledAt, HoldsOwn
<1>11. ASSUME NEW t \in Ranks, NEW p \in Coverage PROVE PackedAt(t, p)'
  <2>1. PackedAt(t, p)
    BY DEF DInv
  <2>2. CASE t # r
    BY <1>2, <1>5, <1>7, <2>1, <2>2, PackedKept
  <2>3. CASE t = r
    <3> SUFFICES ASSUME Posted(r, p)', NEW f \in CutFaces(p), NEW i \in 0..(Section(r, f).n - 1)
                 PROVE  packed[BufferSlot(r, f, i)] = Message(r, next[r], f)[i]
      BY <1>2, <1>7, <2>3 DEF PackedAt, CutFaces, BufferSlot
    <3>1. CASE p = q
      <4>1. packed[BufferSlot(r, f, i)] = Element(r, g, f, version[r][g], i)
        BY <1>6, <3>1
      <4>2. Message(r, next[r], f)[i]
              = Element(r, Script[next[r]].field, f, Writes(next[r], Script[next[r]].field), i)
        BY MessageIs
      <4> HIDE DEF g
      <4> QED BY <1>4, <4>1, <4>2
    <3>2. CASE p # q
      <4>1. Posted(r, p)
        BY <1>5, <3>2
      <4>2. out[r][BufferSlot(r, f, i)] = Message(r, next[r], f)[i]
        BY <2>1, <2>3, <4>1 DEF PackedAt
      <4>3. f \in Faces /\ f[1] = p
        BY CutFacesAre DEF CutFaces
      <4>4. BufferSlot(r, f, i) \in Coverage \X HaloSlots(LocG[r])
        BY <4>3, BufferSlots
      <4>5. BufferSlot(r, f, i) \in DOMAIN out[r] /\ BufferSlot(r, f, i)[1] = p
        BY <1>1, <4>3, <4>4 DEF Domains, BufferSlot
      <4>6. packed[BufferSlot(r, f, i)] = out[r][BufferSlot(r, f, i)]
        BY <1>6, <3>2, <4>5
      <4> QED BY <4>2, <4>6
    <3> QED BY <3>1, <3>2
  <2> QED BY <2>2, <2>3
<1>12. ASSUME NEW s \in Ranks, NEW t \in Ranks, NEW p \in Coverage, NEW ori \in Ori, NEW dir \in Dir
       PROVE  LET l == <<s, t, Tag(p, ori, dir)>>
                  isAwaited == t = r /\ p = q /\ Connected(s, t, ori, dir)
              IN  /\ ~isAwaited => recvs'[l] = recvs[l]
                  /\ Len(recvs[l]) \in Nat
                  /\ isAwaited => /\ recvs'[l] \in Seq({<<p, OppositeOri(ori), dir>>})
                                  /\ Len(recvs'[l]) = Len(recvs[l]) + 1
  <2>1. LinkPosted(r, q, s, t, p, ori, dir)
    BY LinksPosted
  <2>2. recvs[<<s, t, Tag(p, ori, dir)>>] \in Seq(Faces)
    BY <1>1, LinksFacts DEF Places
  <2>3. Len(recvs[<<s, t, Tag(p, ori, dir)>>]) \in Nat
    BY <2>2, LenProperties
  <2> QED BY <2>1, <2>3 DEF LinkPosted
<1>13. ASSUME NEW t \in Ranks, NEW p \in Coverage PROVE ReceivedAt(t, p)'
  <2>1. ReceivedAt(t, p)
    BY DEF DInv
  <2>2. CASE ~(t = r /\ p = q)
    <3>1. ASSUME NEW f \in CutFaces(p) PROVE recvs'[RecvLink(t, f)] = recvs[RecvLink(t, f)]
      <4>1. PICK ori \in Ori, dir \in Dir :
              RecvLink(t, f) = <<Other(t, f), t, Tag(p, ori, dir)>> /\ Other(t, f) \in Ranks
        BY BehindFace
      <4> DEFINE s == Other(t, f)
      <4> HIDE DEF s
      <4>2. s \in Ranks
        BY <4>1 DEF s
      <4>3. recvs'[<<s, t, Tag(p, ori, dir)>>] = recvs[<<s, t, Tag(p, ori, dir)>>]
        BY <1>12, <2>2, <4>2
      <4> QED BY <4>1, <4>3 DEF s
    <3> QED BY <1>2, <1>5, <2>1, <2>2, <3>1, ReceivedKept
  <2>3. CASE t = r /\ p = q
    <3>1. ASSUME NEW f \in CutFaces(q) PROVE recvs'[RecvLink(r, f)] # << >>
      <4>1. PICK ori \in Ori, dir \in Dir :
              /\ RecvLink(r, f) = <<Other(r, f), r, Tag(q, ori, dir)>> /\ Other(r, f) \in Ranks
              /\ Connected(Other(r, f), r, ori, dir)
        BY BehindFace
      <4> DEFINE s == Other(r, f)
                 l == <<s, r, Tag(q, ori, dir)>>
      <4> HIDE DEF s
      <4>2. s \in Ranks /\ Connected(s, r, ori, dir)
        BY <4>1 DEF s
      <4>3. Len(recvs'[l]) = Len(recvs[l]) + 1 /\ Len(recvs[l]) \in Nat
        BY <1>12, <4>2
      <4>4. Len(<< >>) = 0
        BY EmptySeq
      <4>5. recvs'[l] # << >>
        <5> HIDE DEF l
        <5> QED BY <4>3, <4>4
      <4> QED BY <4>1, <4>5 DEF s
    <3> QED BY <2>3, <3>1 DEF ReceivedAt, CutFaces, RecvLink, Other
  <2> QED BY <2>2, <2>3
<1>14. ASSUME NEW s \in Ranks, NEW t \in Ranks, NEW p \in Coverage, NEW ori \in Ori, NEW dir \in Dir
       PROVE  MessagesOn(s, t, p, ori, dir)' /\ RecvMeant(s, t, p, ori, dir)'
  <2> DEFINE l == <<s, t, Tag(p, ori, dir)>>
             isAwaited == t = r /\ p = q /\ Connected(s, t, ori, dir)
  <2>1. MessagesOn(s, t, p, ori, dir) /\ RecvMeant(s, t, p, ori, dir)
    BY DEF DInv
  <2>2. /\ ~isAwaited => recvs'[l] = recvs[l]
        /\ Len(recvs[l]) \in Nat
        /\ isAwaited => recvs'[l] \in Seq({<<p, OppositeOri(ori), dir>>})
                        /\ Len(recvs'[l]) = Len(recvs[l]) + 1
    BY <1>12
  <2>3. RecvMeant(s, t, p, ori, dir)'
    <3>1. CASE isAwaited
      BY <2>2, <3>1 DEF RecvMeant
    <3>2. CASE ~isAwaited
      BY <2>1, <2>2, <3>2 DEF RecvMeant
    <3> QED BY <3>1, <3>2
  <2>4. MessagesOn(s, t, p, ori, dir)'
    <3>1. CASE ~Connected(s, t, ori, dir)
      BY <3>1 DEF MessagesOn, Connected
    <3>2. CASE Connected(s, t, ori, dir)
      <4> DEFINE a == Count(t, p)
                 b == Len(recvs[l])
      <4>1. a \in Nat /\ b \in Nat
        BY <1>1, <2>2, CountsTyped
      <4>2. Count(t, p)' - Len(recvs'[l]) = a - b
        <5>1. CASE isAwaited
          <6>1. Count(t, p)' = a + 1 /\ Len(recvs'[l]) = b + 1
            BY <1>5, <2>2, <5>1
          <6> HIDE DEF a, b, l
          <6> QED BY <4>1, <6>1
        <5>2. CASE ~isAwaited
          <6>1. Count(t, p)' = a /\ recvs'[l] = recvs[l]
            BY <1>5, <2>2, <3>2, <5>2
          <6> QED BY <6>1
        <5> QED BY <5>1, <5>2
      <4> QED BY <1>2, <2>1, <4>2, MessagesKept
    <3> QED BY <3>1, <3>2
  <2> QED BY <2>3, <2>4
<1>15. ASSUME NEW t \in Ranks, NEW f \in Fields PROVE UpdatedAt(t, f)'
  BY <1>2, UpdatedKept DEF DInv
<1> QED BY <1>8, <1>9, <1>10, <1>11, <1>13, <1>14, <1>15 DEF DInv

\* A section that is received has the size of the one it is sent from.
LEMMA SectionsAlike ==
  ASSUME Layout = "simdifiable", EvenLattice, NEW s \in Ranks, NEW r \in Ranks,
         NEW p \in Parity, NEW o \in Ori, NEW u \in Ori, NEW d \in Dir
  PROVE  Section(s, <<p, o, d>>).n = Section(r, <<p, u, d>>).n
<1>1. EoHaloPerDir(LocG[s], p, o, d) = EoHaloPerDir(LocG[r], p, u, d)
  BY RanksAlike
<1> QED BY <1>1 DEF Section

\* When all receives are done, the buffer has all messages of the update.
LEMMA WaitedForAll ==
  ASSUME Layout = "simdifiable", EvenLattice, HInv, DInv, NEW r \in Ranks,
         pc[r] = <<"wait">>, \A l \in Links : l[2] = r => recvs[l] = << >>
  PROVE  AllReceived(r, TheField(r), version[r][TheField(r)])
<1>1. Places /\ VersionsFollow /\ Exchanging
  BY DEF HInv, DInv
<1>2. TheField(r) \in Fields /\ TheField(r) = Script[next[r]].field
      /\ version[r][TheField(r)] = Writes(next[r], TheField(r))
  <2>1. Running(r)
    BY <1>1, StagesApart DEF Exchanging
  <2>2. TheField(r) \in Fields
    BY <1>1, <2>1, PlaceOf
  <2> QED BY <1>1, <2>2 DEF TheField, Now, VersionsFollow
<1> SUFFICES ASSUME NEW p \in Coverage, NEW f \in CutFaces(p), NEW t \in 0..(Section(r, f).n - 1)
             PROVE  in[r][BufferSlot(r, f, t)]
                      = Element(Other(r, f), TheField(r), <<f[1], OppositeOri(f[2]), f[3]>>,
                                version[r][TheField(r)], t)
  BY DEF AllReceived
<1>3. PICK ori \in Ori, dir \in Dir :
        /\ f = <<p, OppositeOri(ori), dir>> /\ <<f[1], OppositeOri(f[2]), f[3]>> = <<p, ori, dir>>
        /\ RecvLink(r, f) = <<Other(r, f), r, Tag(p, ori, dir)>>
        /\ Other(r, f) \in Ranks
  BY BehindFace
<1> DEFINE s == Other(r, f)
           h == <<p, ori, dir>>
<1> HIDE DEF s
<1>4. s \in Ranks /\ RecvLink(r, f) = <<s, r, Tag(p, ori, dir)>>
  BY <1>3 DEF s
<1>5. RecvLink(r, f) \in Links /\ RecvLink(r, f)[2] = r
  BY <1>4, LinksFacts
<1>6. recvs[RecvLink(r, f)] = << >>
  BY <1>5
<1>7. Posted(r, p)
  BY PostedStages DEF Posted
<1>8. in[r][BufferSlot(r, f, t)] = Message(s, next[r], h)[t]
  <2>1. ReceivedAt(r, p)
    BY DEF DInv
  <2> QED BY <1>3, <1>6, <1>7, <2>1 DEF ReceivedAt, s
<1>9. t \in 0..(Section(s, h).n - 1)
  <2>1. p \in Parity /\ OppositeOri(ori) \in Ori
    BY CoverageFacts, OppositeFacts
  <2>2. Section(s, <<p, ori, dir>>).n = Section(r, <<p, OppositeOri(ori), dir>>).n
    BY <1>4, <2>1, SectionsAlike
  <2> QED BY <1>3, <2>2
<1>10. Message(s, next[r], h)[t]
         = Element(s, Script[next[r]].field, h, Writes(next[r], Script[next[r]].field), t)
  <2> HIDE DEF h
  <2> QED BY <1>4, <1>9, MessageIs
<1> QED BY <1>2, <1>3, <1>8, <1>10 DEF s

\* The halo is whole when the update returns.
LEMMA FinishKeepsData ==
  ASSUME Layout = "simdifiable", EvenLattice, HInv, DInv, NEW r \in Ranks, Finish(r)
  PROVE  DInv'
<1> DEFINE g == TheField(r)
           v == version[r][g]
           unpacked == Unpacked(r, g)
<1>1. Places /\ VersionsFollow /\ Domains /\ Exchanging
  BY DEF HInv, DInv
<1>2. /\ pc[r] = <<"wait">>
      /\ \A l \in Links : l[2] = r => recvs[l] = << >>
      /\ halo' = [halo EXCEPT ![r][g] = unpacked]
      /\ status' = [status EXCEPT ![r][g] = "UPDATED"]
      /\ updatedAt' = [updatedAt EXCEPT ![r][g] = v]
      /\ out' = [out EXCEPT ![r] = EmptyBuffer(r)]
      /\ in' = [in EXCEPT ![r] = EmptyBuffer(r)]
      /\ next' = [next EXCEPT ![r] = @ + 1]
      /\ pc' = [pc EXCEPT ![r] = <<"app">>]
      /\ UNCHANGED <<version, sends, recvs, channel>>
  BY DEF Finish
<1>3. pc[r] # <<"app">>
  BY <1>2, StagesApart
<1>4. g \in Fields /\ next[r] \in Nat \ {0} /\ Script[next[r]].op = "update"
  <2>1. Running(r) /\ Exchange(next[r])
    BY <1>1, <1>3 DEF Exchanging
  <2> QED BY <1>1, <2>1, PlaceOf DEF Exchange
<1>5. /\ Silent
      /\ \A p \in Coverage : ~Posted(r, p)'
      /\ \A t \in Ranks, p \in Coverage : t # r => (Posted(t, p)' <=> Posted(t, p))
  BY FinishIsSilent
<1>6. /\ DOMAIN unpacked = DOMAIN halo[r][g]
      /\ \A p \in Coverage, ori \in Ori, dir \in Dir :
           \A i \in SlotsOf(r, p, ori, dir), lane \in Lanes :
             unpacked[<<p, Slot(r, p, ori, dir, i), lane>>]
               = <<g, Alone(RankAcross(Lat, r, lane, ori, dir), p, ori, dir, i, lane), v>>
  <2>1. HoldsOwn(r, g, v)
    BY <1>3 DEF DInv, FilledAt
  <2>2. AllReceived(r, g, v)
    BY <1>2, WaitedForAll
  <2>3. DOMAIN halo[r][g] = Coverage \X HaloSlots(SiteG[r]) \X Lanes
    BY <1>1, <1>4 DEF Domains
  <2> HIDE DEF g, v
  <2> QED BY <1>4, <2>1, <2>2, <2>3, UnpackedIs
<1> HIDE DEF g, v, unpacked
<1>7. /\ halo' = [t \in Ranks |-> halo'[t]] /\ updatedAt' = [t \in Ranks |-> updatedAt'[t]]
      /\ out' = [t \in Ranks |-> out'[t]] /\ in' = [t \in Ranks |-> in'[t]]
      /\ \A t \in Ranks : t # r => /\ halo'[t] = halo[t] /\ out'[t] = out[t] /\ in'[t] = in[t]
                                   /\ next'[t] = next[t] /\ pc'[t] = pc[t]
      /\ out'[r] = EmptyBuffer(r) /\ in'[r] = EmptyBuffer(r) /\ pc'[r] = <<"app">>
      /\ next'[r] = next[r] + 1
  BY <1>1, <1>2 DEF Domains, Places
<1>8. \A t \in Ranks : /\ halo'[t] = [f \in Fields |-> halo'[t][f]]
                       /\ updatedAt'[t] = [f \in Fields |-> updatedAt'[t][f]]
  BY <1>1, <1>2, <1>4 DEF Domains
<1>9. /\ halo'[r][g] = unpacked /\ updatedAt'[r][g] = v
      /\ \A t \in Ranks, f \in Fields : ~(t = r /\ f = g) =>
           halo'[t][f] = halo[t][f] /\ updatedAt'[t][f] = updatedAt[t][f]
           /\ status'[t][f] = status[t][f]
  BY <1>1, <1>2, <1>4 DEF Domains, Places
<1>10. Domains'
  <2>1. \A t \in Ranks, f \in Fields : DOMAIN halo'[t][f] = Coverage \X HaloSlots(SiteG[t]) \X Lanes
    BY <1>1, <1>4, <1>6, <1>9 DEF Domains
  <2>2. \A t \in Ranks : /\ DOMAIN out'[t] = Coverage \X HaloSlots(LocG[t])
                         /\ DOMAIN in'[t] = Coverage \X HaloSlots(LocG[t])
    BY <1>1, <1>7 DEF Domains, EmptyBuffer
  <2> QED BY <1>7, <1>8, <2>1, <2>2 DEF Domains
<1>11. VersionsFollow'
  <2> SUFFICES ASSUME NEW t \in Ranks, NEW f \in Fields
               PROVE  version[t][f] = Writes(next'[t], f)
    BY <1>2 DEF VersionsFollow, Writes
  <2>1. version[t][f] = Writes(next[t], f)
    BY <1>1 DEF VersionsFollow
  <2>2. CASE t # r
    BY <1>7, <2>1, <2>2
  <2>3. CASE t = r
    <3>1. Script[next[r]] # [op |-> "write", field |-> f]
      BY <1>4
    <3>2. Writes(next[r] + 1, f) = Writes(next[r], f)
      BY <1>4, <3>1, WritesGrow
    <3> QED BY <1>7, <2>1, <2>3, <3>2
  <2> QED BY <2>2, <2>3
<1>12. ASSUME NEW t \in Ranks PROVE FilledAt(t)'
  <2>1. CASE t = r
    BY <1>7, <2>1 DEF FilledAt
  <2>2. CASE t # r
    BY <1>2, <1>7, <2>2, FilledKept DEF DInv
  <2> QED BY <2>1, <2>2
<1>13. ASSUME NEW t \in Ranks, NEW p \in Coverage PROVE PackedAt(t, p)' /\ ReceivedAt(t, p)'
  <2>1. CASE t = r
    BY <1>5, <2>1 DEF PackedAt, ReceivedAt
  <2>2. CASE t # r
    <3>1. PackedAt(t, p) /\ ReceivedAt(t, p)
      BY DEF DInv
    <3>2. PackedAt(t, p)'
      BY <1>5, <1>7, <2>2, <3>1, PackedKept
    <3>3. ReceivedAt(t, p)'
      BY <1>2, <1>5, <1>7, <2>2, <3>1, ReceivedKept
    <3> QED BY <3>2, <3>3
  <2> QED BY <2>1, <2>2
<1>14. ASSUME NEW s \in Ranks, NEW t \in Ranks, NEW p \in Coverage, NEW ori \in Ori, NEW dir \in Dir
       PROVE  MessagesOn(s, t, p, ori, dir)' /\ RecvMeant(s, t, p, ori, dir)'
  BY <1>5, SilentKeepsMessages
<1>15. ASSUME NEW t \in Ranks, NEW f \in Fields PROVE UpdatedAt(t, f)'
  <2>1. CASE t = r /\ f = g
    <3>1. \A p \in Coverage, ori \in Ori, dir \in Dir :
            \A i \in SlotsOf(t, p, ori, dir), lane \in Lanes :
              halo'[t][f][<<p, Slot(t, p, ori, dir, i), lane>>]
                = <<f, Alone(RankAcross(Lat, t, lane, ori, dir), p, ori, dir, i, lane),
                    updatedAt'[t][f]>>
      BY <1>6, <1>9, <2>1
    <3> QED BY <3>1 DEF UpdatedAt, HoldsOthers
  <2>2. CASE ~(t = r /\ f = g)
    BY <1>9, <2>2, UpdatedKept DEF DInv
  <2> QED BY <2>1, <2>2
<1> QED BY <1>10, <1>11, <1>12, <1>13, <1>14, <1>15 DEF DInv

------------------------------------------------------------------------------
(* The steps of MPI, and what is held.                                     *)

\* The elements of a list that grows at its end and is read at its head.
LEMMA ListElements ==
  ASSUME NEW q, IsList(q), NEW x
  PROVE  /\ \A k \in 1..Len(q) : Append(q, x)[k] = q[k]
         /\ Append(q, x)[Len(q) + 1] = x
         /\ q # << >> => /\ Head(q) = q[1] /\ 1 \in 1..Len(q)
                         /\ \A k \in 1..Len(Tail(q)) : Tail(q)[k] = q[k + 1] /\ k + 1 \in 1..Len(q)
<1>1. PICK S : q \in Seq(S)
  BY DEF IsList
<1> DEFINE T == S \cup {x}
<1>2. S \subseteq T /\ x \in T
  OBVIOUS
<1> HIDE DEF T
<1>3. q \in Seq(T)
  BY <1>1, <1>2, SeqMonotonic
<1>4. /\ Len(Append(q, x)) = Len(q) + 1 /\ Len(q) \in Nat
      /\ \A i \in 1..(Len(q) + 1) : Append(q, x)[i] = IF i <= Len(q) THEN q[i] ELSE x
  <2>1. Len(q) \in Nat
    BY <1>3, LenProperties
  <2>2. /\ Len(Append(q, x)) = Len(q) + 1
        /\ \A i \in 1..Len(q) : Append(q, x)[i] = q[i]
        /\ Append(q, x)[Len(q) + 1] = x
    BY <1>2, <1>3, AppendProperties
  <2>3. \A i \in 1..(Len(q) + 1) : i <= Len(q) => i \in 1..Len(q)
    BY <2>1
  <2>4. \A i \in 1..(Len(q) + 1) : ~(i <= Len(q)) => i = Len(q) + 1
    BY <2>1
  <2> QED BY <2>1, <2>2, <2>3, <2>4
<1>5. ASSUME q # << >>
      PROVE  /\ Head(q) = q[1] /\ 1 \in 1..Len(q)
             /\ \A k \in 1..Len(Tail(q)) : Tail(q)[k] = q[k + 1] /\ k + 1 \in 1..Len(q)
  <2>1. /\ Head(q) = q[1] /\ Len(Tail(q)) = Len(q) - 1
        /\ \A i \in 1..Len(Tail(q)) : Tail(q)[i] = q[i + 1]
    BY <1>3, <1>5, HeadTailProperties
  <2>2. Len(q) \in Nat /\ Len(q) # 0
    BY <1>3, <1>5, EmptySeq, LenProperties
  <2>3. 1 \in 1..Len(q) /\ \A k \in 1..(Len(q) - 1) : k + 1 \in 1..Len(q)
    BY <2>2
  <2> QED BY <2>1, <2>3
<1>6. Append(q, x)[Len(q) + 1] = x /\ \A k \in 1..Len(q) : Append(q, x)[k] = q[k]
  BY <1>2, <1>3, AppendProperties
<1> QED BY <1>5, <1>6

\* A send that is read is the message of this update.
LEMMA TransmitKeepsData ==
  ASSUME Layout = "simdifiable", EvenLattice, HInv, DInv, NEW x \in sends, Transmit(x)
  PROVE  DInv'
<1>1. Places /\ Domains /\ VersionsFollow /\ Exchanging /\ SendsMeant
  BY DEF HInv, DInv
<1>2. PICK s \in Ranks, p \in Coverage : \E f \in CutFaces(p) :
        x = <<SendLink(s, f), f>> /\ Posted(s, p)
  BY <1>1 DEF SendsMeant
<1>3. PICK f \in CutFaces(p) : x = <<SendLink(s, f), f>> /\ Posted(s, p)
  BY <1>2
<1>4. PICK ori \in Ori, dir \in Dir : f = <<p, ori, dir>> /\ Lat.nRanks[dir] > 1
  BY CutFacesAre
<1> DEFINE r == Other(s, f)
           l == <<s, r, Tag(p, ori, dir)>>
           payload == [i \in 0..(Sections[s][f].n - 1) |-> out[s][<<f[1], Sections[s][f].offset + i>>]]
<1>5. /\ x[1] = l /\ x[2] = f /\ x[1][1] = s
  BY <1>3, <1>4 DEF SendLink
<1>6. /\ channel' = [channel EXCEPT ![l] = Append(@, payload)]
      /\ UNCHANGED <<next, pc, version, updatedAt, status, halo, out, in, recvs>>
  BY <1>5 DEF Transmit
<1>7. payload = Message(s, next[s], f)
  <2>1. Sections[s][f] = Section(s, f)
    BY CutFacesAre DEF Sections, Faces
  <2>2. payload = [i \in 0..(Section(s, f).n - 1) |-> out[s][BufferSlot(s, f, i)]]
    BY <2>1 DEF BufferSlot
  <2>3. \A i \in 0..(Section(s, f).n - 1) :
           out[s][BufferSlot(s, f, i)] = Message(s, next[s], f)[i]
    BY <1>3 DEF DInv, PackedAt
  <2>4. Message(s, next[s], f)
          = [i \in 0..(Section(s, f).n - 1) |-> Message(s, next[s], f)[i]]
    BY DEF Message
  <2> HIDE DEF payload
  <2> QED BY <2>2, <2>3, <2>4
<1> HIDE DEF payload, r
<1>8. r \in Ranks /\ Connected(s, r, ori, dir) /\ l \in Links
  <2>1. r = RankNeighbour(s, Lat.nRanks, ori, dir)
    BY <1>4 DEF Other, r
  <2>2. r \in Ranks
    BY <2>1, RanksFacts, NeighbourInverse DEF Ranks
  <2> QED BY <1>4, <2>1, <2>2, LinksFacts DEF Connected
<1>9. /\ Exchange(next[s]) /\ next[s] \in 1..Len(Script)
      /\ Number(next[s]) = Count(r, p) - Len(recvs[l]) + (Len(channel[l]) + 1)
  <2>1. pc[s] # <<"app">>
    BY <1>3, PostedStages DEF Posted
  <2>2. Exchange(next[s]) /\ next[s] \in 1..Len(Script)
    BY <1>1, <2>1, PlaceOf DEF Exchanging
  <2>3. Count(s, p) = Done(s) + 1 /\ Number(next[s]) = Done(s) + 1 /\ Count(s, p) \in Nat
        /\ Count(r, p) \in Nat
    BY <1>1, <1>3, <1>8, CountsTyped DEF Number, Done
  <2>4. Pending(l)
    BY <1>5 DEF Pending
  <2>5. Unit(Pending(l)) + Len(channel[l]) - Len(recvs[l]) = Count(s, p) - Count(r, p)
    BY <1>8 DEF HInv, LinksInv, LinkInv
  <2>6. Len(channel[l]) \in Nat /\ Len(recvs[l]) \in Nat
    <3>1. IsList(channel[l]) /\ recvs[l] \in Seq(Faces)
      BY <1>1, <1>8 DEF Places
    <3> QED BY <3>1, ListOperations, LenProperties
  <2>7. Unit(Pending(l)) = 1
    BY <2>4 DEF Unit
  <2> DEFINE a == Count(s, p)
             b == Count(r, p)
             c == Len(channel[l])
             w == Len(recvs[l])
  <2>8. /\ a \in Nat /\ b \in Nat /\ c \in Nat /\ w \in Nat /\ 1 + c - w = a - b
        /\ Number(next[s]) = a
    BY <2>3, <2>5, <2>6, <2>7
  <2> HIDE DEF a, b, c, w
  <2>9. a = b - w + (c + 1)
    BY <2>8
  <2> QED BY <2>2, <2>8, <2>9 DEF a, b, c, w
<1>10. \A t \in Ranks, q \in Coverage :
          Count(t, q)' = Count(t, q) /\ (Posted(t, q)' <=> Posted(t, q))
  BY <1>6, OnlyMPI
<1>11. ASSUME NEW a \in Ranks, NEW b \in Ranks, NEW q \in Coverage, NEW u \in Ori, NEW e \in Dir
       PROVE  MessagesOn(a, b, q, u, e)' /\ RecvMeant(a, b, q, u, e)'
  <2> DEFINE k == <<a, b, Tag(q, u, e)>>
  <2>1. MessagesOn(a, b, q, u, e) /\ RecvMeant(a, b, q, u, e) /\ k \in Links
    BY LinksFacts DEF DInv
  <2>2. RecvMeant(a, b, q, u, e)'
    BY <1>6, <2>1 DEF RecvMeant
  <2>3. CASE k # l
    <3>1. channel'[k] = channel[k]
      BY <1>1, <1>6, <2>1, <2>3 DEF Places
    <3>2. MessagesOn(a, b, q, u, e)'
      BY <1>6, <1>10, <2>1, <3>1, MessagesKept
    <3> QED BY <2>2, <3>2
  <2>4. CASE k = l
    <3>1. a = s /\ b = r /\ q = p /\ u = ori /\ e = dir
      <4>1. a = s /\ b = r /\ Tag(q, u, e) = Tag(p, ori, dir)
        BY <2>4
      <4> QED BY <4>1, CoverageFacts, TagInjective
    <3>2. channel'[l] = Append(channel[l], payload) /\ recvs'[l] = recvs[l]
      BY <1>1, <1>6, <1>8 DEF Places
    <3>3. IsList(channel[l]) /\ Len(channel'[l]) = Len(channel[l]) + 1 /\ Len(channel[l]) \in Nat
      BY <1>1, <1>8, <3>2, ListOperations DEF Places
    <3>4. ASSUME NEW i \in 1..Len(channel'[l])
          PROVE  \E n \in 1..Len(Script) :
                   /\ Exchange(n) /\ Number(n) = Count(r, p)' - Len(recvs'[l]) + i
                   /\ channel'[l][i] = Message(s, n, <<p, ori, dir>>)
      <4>1. Count(r, p)' = Count(r, p)
        BY <1>8, <1>10
      <4>2. CASE i \in 1..Len(channel[l])
        <5>1. channel'[l][i] = channel[l][i]
          BY <3>2, <3>3, <4>2, ListElements
        <5>2. \E n \in 1..Len(Script) :
                 /\ Exchange(n) /\ Number(n) = Count(r, p) - Len(recvs[l]) + i
                 /\ channel[l][i] = Message(s, n, <<p, ori, dir>>)
          BY <1>8, <2>1, <3>1, <4>2 DEF MessagesOn
        <5> QED BY <3>2, <4>1, <5>1, <5>2
      <4>3. CASE i \notin 1..Len(channel[l])
        <5>1. i = Len(channel[l]) + 1
          BY <3>3, <4>3
        <5>2. channel'[l][i] = payload
          BY <3>2, <3>3, <5>1, ListElements
        <5> QED BY <1>4, <1>7, <1>9, <3>2, <4>1, <5>1, <5>2
      <4> QED BY <4>2, <4>3
    <3>5. MessagesOn(s, r, p, ori, dir)'
      BY <3>4 DEF MessagesOn
    <3> QED BY <2>2, <3>1, <3>5
  <2> QED BY <2>3, <2>4
<1>12. Domains' /\ VersionsFollow'
  BY <1>1, <1>6 DEF Domains, VersionsFollow, Writes
<1>13. \A t \in Ranks : FilledAt(t)'
  BY <1>6, FilledKept DEF DInv
<1>14. ASSUME NEW t \in Ranks, NEW q \in Coverage PROVE PackedAt(t, q)' /\ ReceivedAt(t, q)'
  <2>1. PackedAt(t, q) /\ ReceivedAt(t, q)
    BY DEF DInv
  <2>2. PackedAt(t, q)'
    BY <1>6, <1>10, <2>1, PackedKept
  <2>3. ReceivedAt(t, q)'
    BY <1>6, <1>10, <2>1, ReceivedKept
  <2> QED BY <2>2, <2>3
<1>15. \A t \in Ranks, g \in Fields : UpdatedAt(t, g)'
  BY <1>6, UpdatedKept DEF DInv
<1> QED BY <1>11, <1>12, <1>13, <1>14, <1>15 DEF DInv

\* A message that meets a receive is the one of this update.
LEMMA MeetsItsUpdate ==
  ASSUME HInv, DInv, NEW m \in Links, channel[m] # << >>, recvs[m] # << >>
  PROVE  \E s \in Ranks, r \in Ranks, p \in Coverage, ori \in Ori, dir \in Dir :
           /\ m = <<s, r, Tag(p, ori, dir)>> /\ Connected(s, r, ori, dir)
           /\ Head(recvs[m]) = <<p, OppositeOri(ori), dir>>
           /\ Len(recvs[m]) = 1 /\ Tail(recvs[m]) = << >> /\ Posted(r, p)
           /\ channel[m][1] = Message(s, next[r], <<p, ori, dir>>)
<1>1. Places /\ Exchanging
  BY DEF HInv
<1>2. PICK s \in Ranks, r \in Ranks, p \in Coverage : \E ori \in Ori, dir \in Dir :
        m = <<s, r, Tag(p, ori, dir)>>
  BY LinksFacts
<1>3. PICK ori \in Ori, dir \in Dir : m = <<s, r, Tag(p, ori, dir)>>
  BY <1>2
<1>4. LinkInv(s, r, p, ori, dir) /\ MessagesOn(s, r, p, ori, dir) /\ RecvMeant(s, r, p, ori, dir)
  BY DEF HInv, LinksInv, DInv
<1>5. Connected(s, r, ori, dir) /\ Len(recvs[m]) <= Unit(Posted(r, p))
  BY <1>3, <1>4 DEF LinkInv
<1>6. recvs[m] \in Seq({<<p, OppositeOri(ori), dir>>})
  BY <1>3, <1>4 DEF RecvMeant
<1>7. Len(recvs[m]) \in Nat /\ Len(recvs[m]) # 0
  BY <1>6, EmptySeq, LenProperties
<1>8. Posted(r, p) /\ Len(recvs[m]) = 1
  <2> DEFINE w == Len(recvs[m])
             u == Unit(Posted(r, p))
  <2>1. (u = 1 \/ u = 0) /\ (u # 0 => Posted(r, p))
    BY DEF Unit
  <2>2. w \in Nat /\ w # 0 /\ w <= u
    BY <1>5, <1>7
  <2> HIDE DEF w, u
  <2>3. w = 1 /\ u # 0
    BY <2>1, <2>2
  <2> QED BY <2>1, <2>3 DEF w
<1>9. Head(recvs[m]) = <<p, OppositeOri(ori), dir>> /\ Tail(recvs[m]) = << >>
  <2>1. /\ Head(recvs[m]) \in {<<p, OppositeOri(ori), dir>>}
        /\ Tail(recvs[m]) \in Seq({<<p, OppositeOri(ori), dir>>})
        /\ Len(Tail(recvs[m])) = Len(recvs[m]) - 1
    BY <1>6, HeadTailProperties
  <2>2. Len(Tail(recvs[m])) = 0
    BY <1>8, <2>1
  <2> QED BY <2>1, <2>2, EmptySeq
<1>10. 1 \in 1..Len(channel[m])
  BY <1>1, ListElements DEF Places
<1>11. PICK n \in 1..Len(Script) :
          /\ Exchange(n) /\ Number(n) = Count(r, p) - Len(recvs[m]) + 1
          /\ channel[m][1] = Message(s, n, <<p, ori, dir>>)
  BY <1>3, <1>4, <1>5, <1>10 DEF MessagesOn
<1>12. next[r] = n
  <2>1. pc[r] # <<"app">>
    BY <1>8, PostedStages DEF Posted
  <2>2. Exchange(next[r]) /\ next[r] \in Nat \ {0} /\ n \in Nat \ {0}
    BY <1>1, <2>1, PlaceOf, ScriptFacts DEF Exchanging
  <2>3. Count(r, p) = Done(r) + 1 /\ Done(r) \in Nat
    BY <1>1, <1>8, CountsTyped
  <2>4. Cardinality(Exchanges(n)) \in Nat
    BY <2>2, ExchangesGrow
  <2>5. Cardinality(Exchanges(n)) + 1 = Count(r, p) - 1 + 1
    BY <1>8, <1>11 DEF Number
  <2>6. Cardinality(Exchanges(next[r])) = Cardinality(Exchanges(n))
    BY <2>3, <2>4, <2>5 DEF Done
  <2> QED BY <1>11, <2>2, <2>6, ExchangeNumber
<1> QED BY <1>3, <1>5, <1>8, <1>9, <1>11, <1>12

\* A message is received in the section of its face.
LEMMA DeliverKeepsData ==
  ASSUME Layout = "simdifiable", EvenLattice, HInv, DInv, NEW m \in Links, Deliver(m)
  PROVE  DInv'
<1>1. Places /\ Domains /\ VersionsFollow
  BY DEF HInv, DInv
<1>2. channel[m] # << >> /\ recvs[m] # << >>
  BY DEF Deliver
<1>3. PICK s \in Ranks, r \in Ranks, p \in Coverage, ori \in Ori, dir \in Dir :
        /\ m = <<s, r, Tag(p, ori, dir)>> /\ Connected(s, r, ori, dir)
        /\ Head(recvs[m]) = <<p, OppositeOri(ori), dir>>
        /\ Len(recvs[m]) = 1 /\ Tail(recvs[m]) = << >> /\ Posted(r, p)
        /\ channel[m][1] = Message(s, next[r], <<p, ori, dir>>)
  BY <1>2, MeetsItsUpdate
<1> DEFINE f == <<p, OppositeOri(ori), dir>>
           h == <<p, ori, dir>>
           message == Message(s, next[r], h)
           received == Received(r, f, message)
<1>4. Head(channel[m]) = message
  <2>1. IsList(channel[m])
    BY <1>1 DEF Places
  <2> QED BY <1>2, <1>3, <2>1, ListElements
<1>5. /\ in' = [in EXCEPT ![r] = received]
      /\ channel' = [channel EXCEPT ![m] = Tail(@)]
      /\ recvs' = [recvs EXCEPT ![m] = Tail(@)]
      /\ UNCHANGED <<next, pc, version, updatedAt, status, halo, out, sends>>
  <2>1. m[2] = r /\ Head(recvs[m]) = f
    BY <1>3
  <2> HIDE DEF message, f
  <2> QED BY <1>4, <2>1 DEF Deliver, Received
<1>6. /\ f \in CutFaces(p) /\ f \in Faces /\ f[1] = p /\ h \in Faces
      /\ Other(r, f) = s /\ <<f[1], OppositeOri(f[2]), f[3]>> = h
      /\ p \in Parity /\ OppositeOri(ori) \in Ori
  <2>1. OppositeOri(ori) \in Ori /\ OppositeOri(OppositeOri(ori)) = ori
    BY OppositeFacts
  <2>2. Lat.nRanks[dir] > 1 /\ RankNeighbour(r, Lat.nRanks, OppositeOri(ori), dir) = s
    BY <1>3, ConnectedMutual DEF Connected
  <2> QED BY <2>1, <2>2, CutFacesAre, CoverageFacts DEF Other, Faces
<1>7. DOMAIN message = 0..(Section(r, f).n - 1)
  <2>1. DOMAIN message = 0..(Section(s, h).n - 1)
    BY MessageIs
  <2>2. Section(s, <<p, ori, dir>>).n = Section(r, <<p, OppositeOri(ori), dir>>).n
    BY <1>6, SectionsAlike
  <2> QED BY <2>1, <2>2
<1>8. DOMAIN in[r] = Coverage \X HaloSlots(LocG[r])
  BY <1>1 DEF Domains
<1>9. /\ DOMAIN received = DOMAIN in[r]
      /\ \A t \in 0..(Section(r, f).n - 1) : received[BufferSlot(r, f, t)] = message[t]
      /\ \A k \in Faces : k # f /\ k[1] \in Coverage =>
           \A t \in 0..(Section(r, k).n - 1) :
              received[BufferSlot(r, k, t)] = in[r][BufferSlot(r, k, t)]
  <2>1. f \in Faces
    BY <1>6
  <2>2. f[1] \in Coverage
    BY <1>6
  <2> HIDE DEF f, message
  <2>3. DOMAIN Received(r, f, message) = DOMAIN in[r]
    BY <1>7, <1>8, <2>1, <2>2, DeliveredIs
  <2>4. ASSUME NEW t \in 0..(Section(r, f).n - 1)
        PROVE  Received(r, f, message)[BufferSlot(r, f, t)] = message[t]
    BY <1>7, <1>8, <2>1, <2>2, <2>4, DeliveredIs, ZenonT(60)
  <2>5. \A k \in Faces : k # f /\ k[1] \in Coverage =>
           \A t \in 0..(Section(r, k).n - 1) :
              Received(r, f, message)[BufferSlot(r, k, t)] = in[r][BufferSlot(r, k, t)]
    BY <1>7, <1>8, <2>1, <2>2, DeliveredIs
  <2> QED BY <2>3, <2>4, <2>5
<1> HIDE DEF received, message
<1>10. in'[r] = received /\ \A t \in Ranks : t # r => in'[t] = in[t]
  BY <1>1, <1>5 DEF Domains
<1>11. \A t \in Ranks, q \in Coverage :
          Count(t, q)' = Count(t, q) /\ (Posted(t, q)' <=> Posted(t, q))
  BY <1>5, OnlyMPI
<1>12. \A k \in Links : k # m => recvs'[k] = recvs[k] /\ channel'[k] = channel[k]
  BY <1>1, <1>5 DEF Places
<1>13. recvs'[m] = Tail(recvs[m]) /\ channel'[m] = Tail(channel[m])
  BY <1>1, <1>5 DEF Places
<1>14. Domains'
  <2>1. in' = [t \in Ranks |-> in'[t]]
    BY <1>1, <1>5 DEF Domains
  <2>2. \A t \in Ranks : DOMAIN in'[t] = Coverage \X HaloSlots(LocG[t])
    BY <1>1, <1>8, <1>9, <1>10 DEF Domains
  <2> QED BY <1>1, <1>5, <2>1, <2>2 DEF Domains
<1>15. VersionsFollow' /\ \A t \in Ranks : FilledAt(t)'
  <2>1. VersionsFollow'
    BY <1>1, <1>5 DEF VersionsFollow, Writes
  <2> QED BY <1>5, <2>1, FilledKept DEF DInv
<1>16. \A t \in Ranks, q \in Coverage : PackedAt(t, q)'
  BY <1>5, <1>11, PackedKept DEF DInv
<1>17. \A t \in Ranks, g \in Fields : UpdatedAt(t, g)'
  BY <1>5, UpdatedKept DEF DInv
<1>18. ASSUME NEW t \in Ranks, NEW q \in Coverage PROVE ReceivedAt(t, q)'
  <2>1. ReceivedAt(t, q)
    BY DEF DInv
  <2>2. ASSUME NEW k \in CutFaces(q)
        PROVE  RecvLink(t, k) \in Links /\ RecvLink(t, k)[2] = t
               /\ (RecvLink(t, k) = m <=> t = r /\ k = f)
    <3>1. RecvLink(t, k) \in Links /\ RecvLink(t, k)[2] = t
      <4>1. PICK u \in Ori, e \in Dir :
              RecvLink(t, k) = <<Other(t, k), t, Tag(q, u, e)>> /\ Other(t, k) \in Ranks
        BY BehindFace
      <4> QED BY <4>1, LinksFacts
    <3>2. RecvLink(t, k) = <<s, r, Tag(p, ori, dir)>>
            <=> t = r /\ k = <<p, OppositeOri(ori), dir>> /\ q = p /\ Connected(s, r, ori, dir)
      BY LinkEnds
    <3>3. k[1] = q
      BY DEF CutFaces
    <3> QED BY <1>3, <1>6, <3>1, <3>2, <3>3
  <2>3. CASE t # r
    <3>1. \A k \in CutFaces(q) : recvs'[RecvLink(t, k)] = recvs[RecvLink(t, k)]
      BY <1>12, <2>2, <2>3
    <3> QED BY <1>5, <1>10, <1>11, <2>1, <2>3, <3>1, ReceivedKept
  <2>4. CASE t = r
    <3>1. ASSUME Posted(r, q), NEW k \in CutFaces(q), recvs'[RecvLink(r, k)] = << >>,
                 NEW w \in 0..(Section(r, k).n - 1)
          PROVE  in'[r][BufferSlot(r, k, w)]
                   = Message(Other(r, k), next[r], <<k[1], OppositeOri(k[2]), k[3]>>)[w]
      <4>1. CASE k = f
        BY <1>6, <1>9, <1>10, <3>1, <4>1 DEF message
      <4>2. CASE k # f
        <5>1. recvs[RecvLink(r, k)] = << >>
          BY <1>12, <2>2, <2>4, <3>1, <4>2
        <5>2. in[r][BufferSlot(r, k, w)]
                = Message(Other(r, k), next[r], <<k[1], OppositeOri(k[2]), k[3]>>)[w]
          BY <2>1, <2>4, <3>1, <5>1 DEF ReceivedAt
        <5>3. k \in Faces /\ k[1] \in Coverage
          BY CutFacesAre DEF CutFaces
        <5> QED BY <1>9, <1>10, <4>2, <5>2, <5>3
      <4> QED BY <4>1, <4>2
    <3>2. ReceivedAt(r, q)'
            <=> (Posted(r, q)' => \A k \in CutFaces(q) :
                   recvs'[RecvLink(r, k)] = << >> =>
                     \A w \in 0..(Section(r, k).n - 1) :
                       in'[r][BufferSlot(r, k, w)]
                         = Message(Other(r, k), next'[r], <<k[1], OppositeOri(k[2]), k[3]>>)[w])
      BY DEF ReceivedAt, CutFaces, BufferSlot, RecvLink, Other
    <3> QED BY <1>5, <1>11, <2>4, <3>1, <3>2
  <2> QED BY <2>3, <2>4
<1>19. ASSUME NEW a \in Ranks, NEW b \in Ranks, NEW q \in Coverage, NEW u \in Ori, NEW e \in Dir
       PROVE  MessagesOn(a, b, q, u, e)' /\ RecvMeant(a, b, q, u, e)'
  <2> DEFINE l == <<a, b, Tag(q, u, e)>>
  <2>1. MessagesOn(a, b, q, u, e) /\ RecvMeant(a, b, q, u, e) /\ l \in Links
    BY LinksFacts DEF DInv
  <2>2. CASE l # m
    <3>1. MessagesOn(a, b, q, u, e)'
      BY <1>11, <1>12, <2>1, <2>2, MessagesKept
    <3>2. RecvMeant(a, b, q, u, e)'
      BY <1>12, <2>1, <2>2 DEF RecvMeant
    <3> QED BY <3>1, <3>2
  <2>3. CASE l = m
    <3>1. RecvMeant(a, b, q, u, e)'
      <4>1. recvs'[l] = << >>
        BY <1>3, <1>13, <2>3
      <4> QED BY <4>1 DEF RecvMeant
    <3>2. /\ IsList(channel[l]) /\ Len(recvs[l]) = 1 /\ Len(recvs'[l]) = 0
          /\ channel'[l] = Tail(channel[l]) /\ channel[l] # << >> /\ Count(b, q) \in Nat
      <4>1. recvs'[l] = << >> /\ Len(<< >>) = 0
        BY <1>3, <1>13, <2>3
      <4> QED BY <1>1, <1>2, <1>3, <1>13, <2>3, <4>1, CountsTyped DEF Places
    <3>3. ASSUME Connected(a, b, u, e), NEW i \in 1..Len(channel'[l])
          PROVE  \E n \in 1..Len(Script) :
                   /\ Exchange(n) /\ Number(n) = Count(b, q)' - Len(recvs'[l]) + i
                   /\ channel'[l][i] = Message(a, n, <<q, u, e>>)
      <4>1. channel'[l][i] = channel[l][i + 1] /\ i + 1 \in 1..Len(channel[l])
        BY <3>2, ListElements
      <4>2. PICK n \in 1..Len(Script) :
              /\ Exchange(n) /\ Number(n) = Count(b, q) - Len(recvs[l]) + (i + 1)
              /\ channel[l][i + 1] = Message(a, n, <<q, u, e>>)
        BY <2>1, <3>3, <4>1 DEF MessagesOn
      <4>3. Count(b, q)' = Count(b, q)
        BY <1>11
      <4>4. Number(n) = Count(b, q)' - Len(recvs'[l]) + i
        <5> DEFINE c == Count(b, q)
        <5>1. c \in Nat /\ Number(n) = c - 1 + (i + 1)
          BY <3>2, <4>2
        <5> HIDE DEF c
        <5>2. Number(n) = c - 0 + i
          BY <5>1
        <5> QED BY <3>2, <4>3, <5>2 DEF c
      <4> QED BY <4>1, <4>2, <4>4
    <3>4. MessagesOn(a, b, q, u, e)'
      BY <3>3 DEF MessagesOn, Connected
    <3> QED BY <3>1, <3>4
  <2> QED BY <2>2, <2>3
<1> QED BY <1>14, <1>15, <1>16, <1>17, <1>18, <1>19 DEF DInv

LEMMA FirstData == Init => DInv
<1> SUFFICES ASSUME Init PROVE DInv
  OBVIOUS
<1>1. /\ next = [r \in Ranks |-> 1] /\ pc = [r \in Ranks |-> <<"app">>]
      /\ version = [r \in Ranks |-> [f \in Fields |-> 0]]
      /\ updatedAt = version
      /\ status = [r \in Ranks |-> [f \in Fields |-> "NOT_UPDATED"]]
      /\ recvs = [l \in Links |-> << >>] /\ channel = [l \in Links |-> << >>]
  BY DEF Init
<1>2. Domains
  <2>1. halo = [r \in Ranks |-> [f \in Fields |->
                 [x \in Coverage \X HaloSlots(SiteG[r]) \X Lanes |-> Garbage]]]
        /\ out = [r \in Ranks |-> EmptyBuffer(r)] /\ in = out
    BY DEF Init
  <2>2. \A r \in Ranks : DOMAIN EmptyBuffer(r) = Coverage \X HaloSlots(LocG[r])
    BY DEF EmptyBuffer
  <2> QED BY <1>1, <2>1, <2>2 DEF Domains
<1>3. VersionsFollow
  <2>1. \A f : Writes(1, f) = 0
    BY WritesGrow, 1 \in Nat \ {0}
  <2> QED BY <1>1, <2>1 DEF VersionsFollow
<1>4. \A r \in Ranks : FilledAt(r)
  BY <1>1 DEF FilledAt
<1>5. \A r \in Ranks, p \in Coverage : ~Posted(r, p)
  BY <1>1, PostedStages DEF Posted
<1>6. \A r \in Ranks, p \in Coverage : PackedAt(r, p) /\ ReceivedAt(r, p)
  BY <1>5 DEF PackedAt, ReceivedAt
<1>7. ASSUME NEW s \in Ranks, NEW r \in Ranks, NEW p \in Coverage, NEW ori \in Ori, NEW dir \in Dir
      PROVE  MessagesOn(s, r, p, ori, dir) /\ RecvMeant(s, r, p, ori, dir)
  <2> DEFINE l == <<s, r, Tag(p, ori, dir)>>
  <2>1. channel[l] = << >> /\ recvs[l] = << >>
    BY <1>1, LinksFacts
  <2>2. Len(<< >>) = 0 /\ 1..0 = {}
    OBVIOUS
  <2>3. 1..Len(channel[l]) = {}
    BY <2>1, <2>2
  <2>4. MessagesOn(s, r, p, ori, dir)
    BY <2>3 DEF MessagesOn
  <2> QED BY <2>1, <2>4 DEF RecvMeant
<1>8. \A r \in Ranks, f \in Fields : UpdatedAt(r, f)
  BY <1>1 DEF UpdatedAt
<1> QED BY <1>2, <1>3, <1>4, <1>6, <1>7, <1>8 DEF DInv

LEMMA StutterData == HInv /\ DInv /\ UNCHANGED vars => DInv'
<1> SUFFICES ASSUME HInv, DInv, UNCHANGED vars PROVE DInv'
  OBVIOUS
<1>1. UNCHANGED <<next, pc, version, updatedAt, status, halo, out, in, sends, recvs, channel>>
  BY DEF vars
<1>2. \A t \in Ranks, q \in Coverage :
         Count(t, q)' = Count(t, q) /\ (Posted(t, q)' <=> Posted(t, q))
  BY <1>1, OnlyMPI
<1>3. Domains' /\ VersionsFollow'
  BY <1>1 DEF DInv, Domains, VersionsFollow, Writes
<1>4. \A t \in Ranks : FilledAt(t)'
  BY <1>1, FilledKept DEF DInv
<1>5. \A t \in Ranks, q \in Coverage : PackedAt(t, q)' /\ ReceivedAt(t, q)'
  <2>1. \A t \in Ranks, q \in Coverage : PackedAt(t, q)'
    BY <1>1, <1>2, PackedKept DEF DInv
  <2>2. \A t \in Ranks, q \in Coverage : ReceivedAt(t, q)'
    BY <1>1, <1>2, ReceivedKept DEF DInv
  <2> QED BY <2>1, <2>2
<1>6. ASSUME NEW s \in Ranks, NEW r \in Ranks, NEW p \in Coverage, NEW ori \in Ori, NEW dir \in Dir
      PROVE  MessagesOn(s, r, p, ori, dir)' /\ RecvMeant(s, r, p, ori, dir)'
  <2>1. MessagesOn(s, r, p, ori, dir) /\ RecvMeant(s, r, p, ori, dir)
    BY DEF DInv
  <2>2. MessagesOn(s, r, p, ori, dir)'
    BY <1>1, <1>2, <2>1, MessagesKept
  <2> QED BY <1>1, <2>1, <2>2 DEF RecvMeant
<1>7. \A t \in Ranks, g \in Fields : UpdatedAt(t, g)'
  BY <1>1, UpdatedKept DEF DInv
<1> QED BY <1>3, <1>4, <1>5, <1>6, <1>7 DEF DInv

\* What the halos, the buffers and the messages hold, in every run of updateHalo on the
\* simdifiable layout, for any even lattice, grid of ranks, fields and script, and
\* whatever the order in which ranks and MPI move.
THEOREM HaloDataInductive ==
  ASSUME Layout = "simdifiable", EvenLattice
  PROVE  Spec => []DInv
<1>1. Init => DInv
  BY FirstData
<1>2. HInv /\ DInv /\ [Next]_vars => DInv'
  <2> SUFFICES ASSUME HInv, DInv, [Next]_vars PROVE DInv'
    OBVIOUS
  <2>1. ASSUME NEW r \in Ranks, Write(r) PROVE DInv'
    BY <2>1, WriteKeepsData
  <2>2. ASSUME NEW r \in Ranks, EarlyReturn(r) PROVE DInv'
    BY <2>2, EarlyReturnKeepsData
  <2>3. ASSUME NEW r \in Ranks, StartUpdate(r) PROVE DInv'
    BY <2>3, StartKeepsData
  <2>4. ASSUME NEW r \in Ranks, NEW p \in Coverage, FillAndPost(r, p) PROVE DInv'
    BY <2>4, FillAndPostKeepsData
  <2>5. ASSUME NEW r \in Ranks, Finish(r) PROVE DInv'
    BY <2>5, FinishKeepsData
  <2>6. ASSUME NEW s \in sends, Transmit(s) PROVE DInv'
    BY <2>6, TransmitKeepsData
  <2>7. ASSUME NEW l \in Links, Deliver(l) PROVE DInv'
    BY <2>7, DeliverKeepsData
  <2>8. CASE UNCHANGED vars
    BY <2>8, StutterData
  <2> QED BY <2>1, <2>2, <2>3, <2>4, <2>5, <2>6, <2>7, <2>8 DEF Next
<1> QED BY <1>1, <1>2, HaloInductive, PTL DEF Spec

\* HaloHoldsNeighbours: after an update, in whatever order the ranks ran and the messages
\* came, the halo of a rank is what its neighbours held when they made the same update,
\* where the tables of neighbours look for it.
THEOREM HaloHolds ==
  ASSUME Layout = "simdifiable", EvenLattice
  PROVE  Spec => []HaloHoldsNeighbours
<1>1. DInv => HaloHoldsNeighbours
  <2> SUFFICES ASSUME DInv, NEW r \in Ranks, NEW f \in Fields, Quiet(r, f)
               PROVE  FindsNeighbours(r, f, updatedAt[r][f])
    BY DEF HaloHoldsNeighbours
  <2>1. HoldsOthers(r, f, updatedAt[r][f])
    BY DEF DInv, UpdatedAt, Quiet
  <2> QED BY <2>1, FoundBehind
<1> QED BY <1>1, HaloDataInductive, PTL

================================================================================
