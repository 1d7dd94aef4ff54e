----------------------------- MODULE HaloExchange -----------------------------
(***************************************************************************)
(* updateHalo in include/lattice/field.hpp: every rank of the program runs *)
(* the same script of writes and halo updates of some even/odd fields. In  *)
(* an update a rank packs the sites its neighbours need, posts one         *)
(* MPI_Isend and one MPI_Irecv per parity and cut face, waits for all of   *)
(* them and unpacks. A rank that has updated a field returns at once.      *)
(*                                                                         *)
(* A value is the field, the global site and the version it was written    *)
(* with. The local sites of a field are then known from its version, and   *)
(* only the halo is kept. External: MPI. A posted send is read at any time *)
(* before the wait ends; messages of a pair of ranks with one tag arrive   *)
(* in order, all others in any order.                                      *)
(***************************************************************************)
EXTENDS EoGeometry, SequencesExt, TLC

CONSTANTS
  Lat,       \* the lattice: glbSides, nRanks, nSimdRanks, parityDir
  Layout,    \* "simdifiable", or "serial" (also that of GPUs)
  Coverage,  \* the parities the fields cover: both, or one
  Fields,
  Script     \* sequence of [op, field], op being "write" or "update"

ASSUME LayoutAssumption == Layout \in {"simdifiable", "serial"}
ASSUME CoverageAssumption == Coverage \in {Parity, {0}, {1}}
ASSUME ScriptAssumption == Script \in Seq([op : {"write", "update"}, field : Fields])
\* Every direction has a side, and is in one part at least.
ASSUME LatAssumption ==
  {Lat.glbSides, Lat.nRanks, Lat.nSimdRanks} \subseteq [Dir -> Nat \ {0}]

Ranks == RanksOf(Lat.nRanks)

Lanes == IF Layout = "simdifiable" THEN RanksOf(Lat.nSimdRanks) ELSE {0}

LocG == [r \in Ranks |-> LocGrid(Lat, r)]

\* The grid of the sites of a field.
SiteG == IF Layout = "simdifiable" THEN [r \in Ranks |-> SimdLocGrid(Lat, r)] ELSE LocG

\* index({}, parity, ori, dir)
Tag(parity, ori, dir) == (parity * 2 + ori) * NDims + dir

HaloSlots(g) == 0..(EoHalo(g) - 1)

Section(r, f) == [offset |-> EoHaloOffset(LocG[r], f[1], f[2], f[3]),
                  n |-> EoHaloPerDir(LocG[r], f[1], f[2], f[3])]

Sections == [r \in Ranks |-> [f \in Parity \X Ori \X Dir |-> Section(r, f)]]

NonLoc == [f \in Ori \X Dir |-> NonLocSimdRanks(Lat, f[1], f[2])]

GlbSite == [r \in Ranks |->
  [x \in Parity \X EoSites(SiteG[r]) \X Lanes |->
     SiteOfCoords(IF Layout = "simdifiable"
                  THEN GlbCoordsOfSimdEoSite(Lat, r, x[1], x[2], x[3])
                  ELSE GlbCoordsOfLocEoSite(Lat, r, x[1], x[2]),
                  Lat.glbSides)]]

------------------------------------------------------------------------------
(* The copies of an update: source and destination, for each rank.         *)

\* fillLocHalo: <<parity, halo slot, lane>> and the <<site, lane>> it holds, as if
\* the rank were alone.
LocHaloCopies == [r \in Ranks |->
  UNION {{<<<<p, x[2], RankNeighbour(lane, Lat.nSimdRanks, x[3], x[4])>>, <<x[1], lane>>>> :
            x \in HaloFiller(SiteG[r], p), lane \in Lanes} : p \in Coverage}]

\* The lanes on the border in the section (ori, dir) of the halo and their slots in
\* the section of the buffer of the given orientation: <<halo slot, lane, slot>>.
BorderSlots(r, parity, ori, dir, bufferOri) ==
  {<<EoHaloOffset(SiteG[r], parity, ori, dir) + i, NonLoc[<<ori, dir>>][k + 1],
     Sections[r][<<parity, bufferOri, dir>>].offset + i * Len(NonLoc[<<ori, dir>>]) + k>> :
     i \in 0..(EoHaloPerDir(SiteG[r], parity, ori, dir) - 1),
     k \in 0..(Len(NonLoc[<<ori, dir>>]) - 1)}

\* A slip: the halo goes to the section of its own orientation.
PackedSameOri(r, parity) ==
  UNION {BorderSlots(r, parity, ori, dir, ori) : ori \in Ori, dir \in Dir}

\* fillBufferParity of the simdifiable layout: it leaves by the opposite side.
PackedSections(r, parity) ==
  UNION {BorderSlots(r, parity, ori, dir, OppositeOri(ori)) : ori \in Ori, dir \in Dir}

PackCopies == [r \in Ranks |-> [p \in Parity |-> PackedSections(r, p)]]

\* fillHaloParity of the simdifiable layout.
UnpackCopies == [r \in Ranks |-> [p \in Parity |->
  UNION {BorderSlots(r, p, ori, dir, ori) : ori \in Ori, dir \in Dir}]]

\* fillBufferParity of the other layouts: <<site, slot>>.
SerialPackCopies == [r \in Ranks |-> [p \in Parity |->
  {<<x[1], x[2]>> : x \in HaloFiller(SiteG[r], p)}]]

\* A function changed where the pairs <<argument, value>> say.
Overwritten(f, pairs) ==
  [x \in DOMAIN f |-> LET found == {y \in pairs : y[1] = x}
                      IN  IF found = {} THEN f[x] ELSE (CHOOSE y \in found : TRUE)[2]]

------------------------------------------------------------------------------

VARIABLES
  next,       \* per rank: place in the script
  pc,         \* per rank: "app", or a stage of the update
  version,    \* per rank and field: how many times it was written
  updatedAt,  \* per rank and field: its version at the last exchange
  status,     \* per rank and field: haloStatus
  halo,       \* per rank and field: <<parity, slot, lane>> -> value
  out, in,    \* per rank: bufferOut and bufferIn, <<parity, slot>> -> value
  sends,      \* requests: posted sends MPI has not read yet
  recvs,      \* requests: <<source, rank, tag>> -> sections to receive in
  channel     \* <<source, rank, tag>> -> payloads on the way

vars == <<next, pc, version, updatedAt, status, halo, out, in, sends, recvs, channel>>

Garbage == <<"garbage">>

EmptyBuffer(r) == [x \in Coverage \X HaloSlots(LocG[r]) |-> Garbage]

Links == {<<s, r, Tag(p, ori, dir)>> :
            s \in Ranks, r \in Ranks, p \in Coverage, ori \in Ori, dir \in Dir}

\* What a local site of the field of rank r holds.
Data(r, f, parity, site, lane) == <<f, GlbSite[r][<<parity, site, lane>>], version[r][f]>>

Init ==
  /\ next = [r \in Ranks |-> 1]
  /\ pc = [r \in Ranks |-> <<"app">>]
  /\ version = [r \in Ranks |-> [f \in Fields |-> 0]]
  /\ updatedAt = version
  /\ status = [r \in Ranks |-> [f \in Fields |-> "NOT_UPDATED"]]
  /\ halo = [r \in Ranks |-> [f \in Fields |->
               [x \in Coverage \X HaloSlots(SiteG[r]) \X Lanes |-> Garbage]]]
  /\ out = [r \in Ranks |-> EmptyBuffer(r)]
  /\ in = out
  /\ sends = {}
  /\ recvs = [l \in Links |-> << >>]
  /\ channel = [l \in Links |-> << >>]

------------------------------------------------------------------------------
(* The program.                                                            *)

Running(r) == next[r] <= Len(Script)

Now(r) == Script[next[r]]

TheField(r) == Now(r).field

Write(r) ==
  /\ pc[r] = <<"app">> /\ Running(r) /\ Now(r).op = "write"
  /\ version' = [version EXCEPT ![r][TheField(r)] = @ + 1]
  /\ next' = [next EXCEPT ![r] = @ + 1]
  /\ UNCHANGED <<pc, updatedAt, status, halo, out, in, sends, recvs, channel>>

\* "No need to update the halo"
EarlyReturn(r) ==
  /\ pc[r] = <<"app">> /\ Running(r) /\ Now(r).op = "update"
  /\ status[r][TheField(r)] = "UPDATED"
  /\ next' = [next EXCEPT ![r] = @ + 1]
  /\ UNCHANGED <<pc, version, updatedAt, status, halo, out, in, sends, recvs, channel>>

LocHaloOf(r, f) ==
  IF Layout = "serial" THEN halo[r][f]
  ELSE Overwritten(halo[r][f],
                   {<<c[1], Data(r, f, c[1][1], c[2][1], c[2][2])>> : c \in LocHaloCopies[r]})

StartUpdate(r) ==
  /\ pc[r] = <<"app">> /\ Running(r) /\ Now(r).op = "update"
  /\ status[r][TheField(r)] = "NOT_UPDATED"
  /\ halo' = [halo EXCEPT ![r][TheField(r)] = LocHaloOf(r, TheField(r))]
  /\ pc' = [pc EXCEPT ![r] = <<"fill", Min(Coverage)>>]
  /\ UNCHANGED <<next, version, updatedAt, status, out, in, sends, recvs, channel>>

Packed(r, f, parity) ==
  IF Layout = "serial"
  THEN {<<<<parity, c[2]>>, Data(r, f, parity, c[1], 0)>> : c \in SerialPackCopies[r][parity]}
  ELSE {<<<<parity, c[3]>>, halo[r][f][<<parity, c[1], c[2]>>]>> : c \in PackCopies[r][parity]}

\* A slip: the tag a rank sends with is the one it waits for.
RecvTagSame(parity, ori, dir) == Tag(parity, ori, dir)

\* The message that fills a section of mine is what the rank behind that face
\* sent through its opposite face.
RecvTag(parity, ori, dir) == Tag(parity, OppositeOri(ori), dir)

Other(r, f) == RankNeighbour(r, Lat.nRanks, f[2], f[3])

SendLink(r, f) == <<r, Other(r, f), Tag(f[1], f[2], f[3])>>

RecvLink(r, f) == <<Other(r, f), r, RecvTag(f[1], f[2], f[3])>>

\* What is sent and received: the faces with a rank behind. Two of them with
\* one tag would be received in the order of the loops.
CutFaces(parity) == {f \in {parity} \X Ori \X Dir : Lat.nRanks[f[3]] > 1}

\* fillBufferParity and startCommunicationsParity of one parity.
FillAndPost(r, parity) ==
  /\ pc[r] = <<"fill", parity>>
  /\ out' = [out EXCEPT ![r] = Overwritten(@, Packed(r, TheField(r), parity))]
  /\ sends' = sends \cup {<<SendLink(r, f), f>> : f \in CutFaces(parity)}
  /\ recvs' = [l \in Links |->
                 recvs[l] \o SetToSeq({f \in CutFaces(parity) : RecvLink(r, f) = l})]
  /\ pc' = [pc EXCEPT ![r] = IF parity + 1 \in Coverage THEN <<"fill", parity + 1>> ELSE <<"wait">>]
  /\ UNCHANGED <<next, version, updatedAt, status, halo, in, channel>>

\* fillHaloParity, on all parities.
Unpacked(r, f) ==
  IF Layout = "serial" THEN [x \in DOMAIN halo[r][f] |-> in[r][<<x[1], x[2]>>]]
  ELSE Overwritten(halo[r][f],
                   UNION {{<<<<p, c[1], c[2]>>, in[r][<<p, c[3]>>]>> : c \in UnpackCopies[r][p]} :
                            p \in Coverage})

\* A slip: the halo is unpacked when the sends are done.
FinishSendsOnly(r) ==
  /\ pc[r] = <<"wait">>
  /\ \A s \in sends : s[1][1] # r
  /\ halo' = [halo EXCEPT ![r][TheField(r)] = Unpacked(r, TheField(r))]
  /\ status' = [status EXCEPT ![r][TheField(r)] = "UPDATED"]
  /\ updatedAt' = [updatedAt EXCEPT ![r][TheField(r)] = version[r][TheField(r)]]
  /\ out' = [out EXCEPT ![r] = EmptyBuffer(r)]
  /\ in' = [in EXCEPT ![r] = EmptyBuffer(r)]
  /\ next' = [next EXCEPT ![r] = @ + 1]
  /\ pc' = [pc EXCEPT ![r] = <<"app">>]
  /\ UNCHANGED <<version, sends, recvs, channel>>

\* MPI_Waitall returns; the buffers go away with the function.
Finish(r) ==
  /\ pc[r] = <<"wait">>
  /\ \A s \in sends : s[1][1] # r
  /\ \A l \in Links : l[2] = r => recvs[l] = << >>
  /\ halo' = [halo EXCEPT ![r][TheField(r)] = Unpacked(r, TheField(r))]
  /\ status' = [status EXCEPT ![r][TheField(r)] = "UPDATED"]
  /\ updatedAt' = [updatedAt EXCEPT ![r][TheField(r)] = version[r][TheField(r)]]
  /\ out' = [out EXCEPT ![r] = EmptyBuffer(r)]
  /\ in' = [in EXCEPT ![r] = EmptyBuffer(r)]
  /\ next' = [next EXCEPT ![r] = @ + 1]
  /\ pc' = [pc EXCEPT ![r] = <<"app">>]
  /\ UNCHANGED <<version, sends, recvs, channel>>

------------------------------------------------------------------------------
(* External: MPI.                                                          *)

\* A posted send is read.
Transmit(s) ==
  LET r == s[1][1]
      section == Sections[r][s[2]]
      payload == [i \in 0..(section.n - 1) |-> out[r][<<s[2][1], section.offset + i>>]]
  IN  /\ sends' = sends \ {s}
      /\ channel' = [channel EXCEPT ![s[1]] = Append(@, payload)]
      /\ UNCHANGED <<next, pc, version, updatedAt, status, halo, out, in, recvs>>

\* The oldest message of a link meets the oldest receive.
Deliver(l) ==
  /\ channel[l] # << >> /\ recvs[l] # << >>
  /\ LET f == Head(recvs[l])
         offset == Sections[l[2]][f].offset
         payload == Head(channel[l])
     IN  in' = [in EXCEPT ![l[2]] =
                  Overwritten(@, {<<<<f[1], offset + i>>, payload[i]>> : i \in DOMAIN payload})]
  /\ channel' = [channel EXCEPT ![l] = Tail(@)]
  /\ recvs' = [recvs EXCEPT ![l] = Tail(@)]
  /\ UNCHANGED <<next, pc, version, updatedAt, status, halo, out, sends>>

Next == \/ \E r \in Ranks :
             \/ Write(r)
             \/ EarlyReturn(r)
             \/ StartUpdate(r)
             \/ \E p \in Coverage : FillAndPost(r, p)
             \/ Finish(r)
        \/ \E s \in sends : Transmit(s)
        \/ \E l \in Links : Deliver(l)

Spec == Init /\ [][Next]_vars

\* Every rank goes on and MPI makes progress on what is posted.
FairSpec == Spec /\ WF_vars(Next)

------------------------------------------------------------------------------

\* The places of the program. A rank has one receive in a link at most, and the
\* rank that sends is one update ahead at most, though it waits for no answer.
HaloTypeOK ==
  /\ next \in [Ranks -> 1..(Len(Script) + 1)]
  /\ status \in [Ranks -> [Fields -> {"NOT_UPDATED", "UPDATED"}]]
  /\ version \in [Ranks -> [Fields -> 0..Len(Script)]]
  /\ \A s \in sends : s[1] \in Links
  /\ \A l \in Links : Len(channel[l]) <= 2 /\ Len(recvs[l]) <= 1

\* Where the tables of a rank send a site for a neighbour that is not local, and
\* the neighbour: <<<<parity, halo slot, lane>>, global site>>.
Beyond == [r \in Ranks |->
  {<<<<OppositeParity(x[1]), EoNeighbour(SiteG[r], x[1], x[2], x[3], x[4]) - EoVol(SiteG[r]),
       x[5]>>,
     SiteOfCoords(ShiftedGlbCoords(Lat,
                    CoordsOfSite(GlbSite[r][<<x[1], x[2], x[5]>>], Lat.glbSides), x[3], x[4]),
                  Lat.glbSides)>> :
     x \in {y \in Parity \X EoSites(SiteG[r]) \X Ori \X Dir \X Lanes :
              EoNeighbour(SiteG[r], y[1], y[2], y[3], y[4]) >= EoVol(SiteG[r])
              /\ OppositeParity(y[1]) \in Coverage}}]

FindsNeighbours(r, f, v) == \A x \in Beyond[r] : halo[r][f][x[1]] = <<f, x[2], v>>

Quiet(r, f) == status[r][f] = "UPDATED"
               /\ (pc[r] # <<"app">> => TheField(r) # f)

\* What init accepts, if ranks cut even sides and every face has an even number of sites:
\* on other lattices two ranks may number the sites of a face apart.
EvenLattice ==
  /\ Divided(Lat) /\ LanesEven(Lat) /\ EvenCuts(Lat)
  /\ \A r \in Ranks, d \in Dir : HaloPerDir(SimdLocGrid(Lat, r))[d] % 2 = 0

\* After an update, in whatever order the ranks ran and the messages came, the
\* halo of a rank is what its neighbours held when they made the same update.
HaloHoldsNeighbours ==
  \A r \in Ranks, f \in Fields : Quiet(r, f) => FindsNeighbours(r, f, updatedAt[r][f])

\* Two ranks that came to the same place left nothing between them: no message on
\* the way, none awaited, none that a send still holds.
NothingLeftOver ==
  \A l \in Links :
    pc[l[1]] = <<"app">> /\ pc[l[2]] = <<"app">> /\ next[l[1]] = next[l[2]]
      => channel[l] = << >> /\ recvs[l] = << >> /\ \A s \in sends : s[1] # l

\* No rank waits for ever: the updates of the script all return.
AllReturn == <>(\A r \in Ranks : ~Running(r))

==============================================================================
