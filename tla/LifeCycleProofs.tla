--------------------------- MODULE LifeCycleProofs ---------------------------
(***************************************************************************)
(* A program of any number of ranks, with any body, in which ranks run     *)
(* ahead of each other and may end at any moment: its stopwatches, its     *)
(* turns and its collective calls, each part on top of the one before.     *)
(***************************************************************************)
EXTENDS LifeCycle, SequenceTheorems, FiniteSetTheorems, TLAPS

------------------------------------------------------------------------------
(***************************************************************************)
(* Stopwatches: a rank that does not print ignores a check that fails, and *)
(* what it measures is right as far as the master has come.                *)
(*                                                                         *)
(* The argument: whether a stopwatch runs depends on the operations done   *)
(* and on nothing else, so a check fails on all ranks or on none; the      *)
(* master passes a check only where it holds.                              *)
(***************************************************************************)

(* The inductive invariant.                                                *)

TimerKinds == {"start", "stop"}

Ops == [kind : {"inTurn", "allReduce"}]
         \cup [kind : {"broadcast"}, root : Ranks]
         \cup [kind : TimerKinds, path : Paths]

Stopwatches == [isStoppable : BOOLEAN, isStarted : BOOLEAN, nMeasures : Int,
                lastMomentStarted : Int, lastMomentStopped : Int,
                cumulativeMeasure : Int, nStartedChildren : {0}]

\* The operations on a stopwatch among the first k of a body.
OpsOn(body, path, k) ==
    {j \in 1 .. k : body[j].kind \in TimerKinds /\ body[j].path = path}

\* What they leave it: running, if the last of them is a start.
Runs(body, path, k) ==
    \/ \E j \in OpsOn(body, path, k) :
          body[j].kind = "start" /\ \A i \in OpsOn(body, path, k) : i <= j
    \/ path = Timings /\ OpsOn(body, path, k) = {}

\* The checks of the k-th operation hold.
Allowed(body, k) ==
    /\ body[k].kind = "start" => ~Runs(body, body[k].path, k - 1)
    /\ body[k].kind = "stop" =>
         Runs(body, body[k].path, k - 1) /\ body[k].path # Timings

ScriptTyped == script \in Seq(Ops)

RanksTyped ==
    /\ pc = [r \in Ranks |-> pc[r]]
    /\ return \in [Ranks -> {"none", "spin", "body"}]
    /\ isMaster \in [Ranks -> BOOLEAN]
    /\ nDone \in [Ranks -> Nat]
    /\ \A r \in Ranks : nDone[r] <= Len(script)

TimersTyped ==
    /\ now \in Int
    /\ timers = [r \in Ranks |-> timers[r]]
    /\ ranFor = [r \in Ranks |-> ranFor[r]]
    /\ \A r \in Ranks :
         /\ timers[r] \in [DOMAIN timers[r] -> Stopwatches]
         /\ ranFor[r] \in [DOMAIN timers[r] -> Int]
         /\ Timings \in DOMAIN timers[r]
         /\ \A p \in DOMAIN timers[r] : timers[r][p].isStoppable <=> p # Timings

\* What a rank is doing is the next operation of the body.
DoingNext ==
    \A r \in Ranks :
        /\ pc[r] \in {"loop", "barrier", "turn"} /\ return[r] = "body" =>
             nDone[r] < Len(script) /\ script[nDone[r] + 1].kind = "inTurn"
        /\ pc[r] = "collective" =>
             nDone[r] < Len(script) /\ script[nDone[r] + 1].kind \in {"allReduce", "broadcast"}

MasterPrints == pc[MasterRank] \notin {"initialize", "dead"} => isMaster[MasterRank]

\* A stopwatch runs where the operations done say so.
RunningAsSaid ==
    \A r \in Ranks : \A p \in Paths \cup {Timings} :
        (p \in DOMAIN timers[r] /\ timers[r][p].isStarted) <=> Runs(script, p, nDone[r])

\* The paths the ranks name are those of the body.
PathsNamed == \A r \in Ranks : DOMAIN timers[r] \subseteq Paths \cup {Timings}

MasterPassed == \A k \in 1 .. nDone[MasterRank] : Allowed(script, k)

MeasuredIfAllowed ==
    \A r \in Ranks : (\A k \in 1 .. nDone[r] : Allowed(script, k)) => MeasuredRight(r)

LInv ==
    /\ ScriptTyped
    /\ RanksTyped
    /\ TimersTyped
    /\ DoingNext
    /\ MasterPrints
    /\ PathsNamed
    /\ RunningAsSaid
    /\ MasterPassed
    /\ MeasuredIfAllowed

------------------------------------------------------------------------------
(* The body: what its operations say of the stopwatches.                   *)

LEMMA MasterIsARank == MasterRank \in Ranks
<1>1. NRanks \in Nat
  BY RanksAssumption, FS_CardinalityType DEF NRanks
<1>2. Ranks = 0 .. NRanks - 1 /\ Ranks # {}
  BY RanksAssumption
<1> QED BY <1>1, <1>2 DEF MasterRank

\* The first k + 1 operations are the first k and one more.
LEMMA OpsOnNext ==
  ASSUME NEW body, NEW k \in Nat, NEW p
  PROVE  OpsOn(body, p, k + 1) =
           OpsOn(body, p, k) \cup (IF body[k + 1].kind \in TimerKinds /\ body[k + 1].path = p
                                   THEN {k + 1} ELSE {})
<1>1. 1 .. (k + 1) = (1 .. k) \cup {k + 1}
  OBVIOUS
<1> QED BY <1>1 DEF OpsOn

\* Only an operation on a stopwatch changes whether it runs.
LEMMA RunsNext ==
  ASSUME NEW body, NEW k \in Nat, NEW p
  PROVE  Runs(body, p, k + 1) <=>
           IF body[k + 1].kind \in TimerKinds /\ body[k + 1].path = p
           THEN body[k + 1].kind = "start" ELSE Runs(body, p, k)
<1>1. \A j \in OpsOn(body, p, k) : j \in 1 .. k
  BY DEF OpsOn
<1>2. CASE body[k + 1].kind \in TimerKinds /\ body[k + 1].path = p
  <2>1. OpsOn(body, p, k + 1) = OpsOn(body, p, k) \cup {k + 1}
    BY <1>2, OpsOnNext
  <2>2. \A j \in OpsOn(body, p, k + 1) : j <= k + 1
    BY <1>1, <2>1
  <2>3. ASSUME NEW j \in OpsOn(body, p, k + 1), \A i \in OpsOn(body, p, k + 1) : i <= j
        PROVE  j = k + 1
    BY <1>1, <2>1, <2>3
  <2> QED BY <1>2, <2>1, <2>2, <2>3 DEF Runs
<1>3. CASE ~(body[k + 1].kind \in TimerKinds /\ body[k + 1].path = p)
  <2>1. (IF body[k + 1].kind \in TimerKinds /\ body[k + 1].path = p THEN {k + 1} ELSE {}) = {}
    BY <1>3
  <2>2. OpsOn(body, p, k + 1) = OpsOn(body, p, k) \cup {}
    BY <2>1, OpsOnNext
  <2>3. OpsOn(body, p, k + 1) = OpsOn(body, p, k)
    BY <2>2
  <2> QED BY <1>3, <2>3 DEF Runs
<1> QED BY <1>2, <1>3

\* What has been written is not written again.
LEMMA BodyKept ==
  ASSUME NEW body \in Seq(Ops), NEW op \in Ops, NEW longer, longer = Append(body, op)
  PROVE  /\ longer \in Seq(Ops) /\ Len(longer) = Len(body) + 1
         /\ \A k \in 1 .. Len(body) : longer[k] = body[k]
         /\ \A k \in 0 .. Len(body) : \A p : Runs(longer, p, k) <=> Runs(body, p, k)
         /\ \A k \in 1 .. Len(body) : Allowed(longer, k) <=> Allowed(body, k)
<1>1. /\ longer \in Seq(Ops) /\ Len(longer) = Len(body) + 1 /\ Len(body) \in Nat
      /\ \A k \in 1 .. Len(body) : longer[k] = body[k]
  OBVIOUS
<1>2. ASSUME NEW k \in 0 .. Len(body), NEW p PROVE Runs(longer, p, k) <=> Runs(body, p, k)
  <2>1. \A j \in 1 .. k : longer[j] = body[j]
    BY <1>1
  <2>2. OpsOn(longer, p, k) = OpsOn(body, p, k)
    BY <2>1 DEF OpsOn
  <2>3. \A j \in OpsOn(body, p, k) : longer[j] = body[j]
    BY <2>1 DEF OpsOn
  <2> QED BY <2>2, <2>3 DEF Runs
<1>3. ASSUME NEW k \in 1 .. Len(body) PROVE Allowed(longer, k) <=> Allowed(body, k)
  <2>1. longer[k] = body[k] /\ k - 1 \in 0 .. Len(body)
    BY <1>1
  <2>2. Runs(longer, body[k].path, k - 1) <=> Runs(body, body[k].path, k - 1)
    BY <1>2, <2>1
  <2> QED BY <2>1, <2>2 DEF Allowed
<1> QED BY <1>1, <1>2, <1>3

------------------------------------------------------------------------------
(* The stopwatches.                                                        *)

\* Starting a stopwatch that is still, and stopping one that runs, at an instant, does
\* not change what it has measured.
LEMMA StopwatchSteps ==
  ASSUME now \in Int, NEW t \in Stopwatches
  PROVE  /\ CumulativeMeasure(t) \in Int
         /\ InnerStart(t) \in Stopwatches /\ InnerStart(t).isStarted
         /\ InnerStart(t).isStoppable = t.isStoppable
         /\ ~t.isStarted => CumulativeMeasure(InnerStart(t)) = CumulativeMeasure(t)
         /\ Stopped(t) \in Stopwatches /\ ~Stopped(t).isStarted
         /\ Stopped(t).isStoppable = t.isStoppable
         /\ t.isStarted => CumulativeMeasure(Stopped(t)) = CumulativeMeasure(t)
<1>1. /\ InnerStart(t).isStarted
      /\ InnerStart(t).isStoppable = t.isStoppable
      /\ InnerStart(t).lastMomentStarted = now
      /\ InnerStart(t).cumulativeMeasure = t.cumulativeMeasure
  BY DEF InnerStart, Stopwatches
<1>2. /\ t.cumulativeMeasure \in Int /\ t.lastMomentStarted \in Int
      /\ t.lastMomentStopped \in Int /\ t.nMeasures \in Int
  BY DEF Stopwatches
<1>3. /\ ~Stopped(t).isStarted
      /\ Stopped(t).isStoppable = t.isStoppable
      /\ Stopped(t).cumulativeMeasure = t.cumulativeMeasure + (now - t.lastMomentStarted)
  BY DEF Stopped, CurrentMeasure, Stopwatches
<1>4. InnerStart(t) \in Stopwatches
  <2>1. [t EXCEPT !.isStarted = TRUE] \in Stopwatches
    BY DEF Stopwatches
  <2>2. ASSUME NEW s \in Stopwatches PROVE [s EXCEPT !.nMeasures = @ + 1] \in Stopwatches
    BY <2>2 DEF Stopwatches
  <2>3. ASSUME NEW s \in Stopwatches PROVE [s EXCEPT !.lastMomentStarted = now] \in Stopwatches
    BY <2>3 DEF Stopwatches
  <2> QED BY <2>1, <2>2, <2>3 DEF InnerStart
<1>5. Stopped(t) \in Stopwatches
  <2> DEFINE s == [t EXCEPT !.lastMomentStopped = now, !.isStarted = FALSE]
  <2>1. ASSUME NEW u \in Stopwatches PROVE [u EXCEPT !.isStarted = FALSE] \in Stopwatches
    BY <2>1 DEF Stopwatches
  <2>2. [t EXCEPT !.lastMomentStopped = now] \in Stopwatches
    BY DEF Stopwatches
  <2>3. s \in Stopwatches
    BY <2>1, <2>2
  <2>4. s.cumulativeMeasure + CurrentMeasure(s) \in Int
    BY <2>3 DEF CurrentMeasure, Stopwatches
  <2>5. ASSUME NEW c \in Int, NEW u \in Stopwatches
        PROVE  [u EXCEPT !.cumulativeMeasure = c] \in Stopwatches
    BY <2>5 DEF Stopwatches
  <2> QED BY <2>3, <2>4, <2>5 DEF Stopped
<1> QED BY <1>1, <1>2, <1>3, <1>4, <1>5 DEF CumulativeMeasure, CurrentMeasure

\* A stopwatch just named.
LEMMA NewStopwatch ==
  ASSUME now \in Int
  PROVE  /\ NewTimer(TRUE) \in Stopwatches /\ ~NewTimer(TRUE).isStarted
         /\ NewTimer(TRUE).isStoppable /\ CumulativeMeasure(NewTimer(TRUE)) = 0
BY DEF NewTimer, Stopwatch, Stopwatches, CumulativeMeasure

\* A stopwatch of one rank takes another state; the time it ran is counted from zero
\* if it is new.
LEMMA BecomesEffect ==
  ASSUME TimersTyped, NEW r \in Ranks, NEW path, NEW t \in Stopwatches,
         t.isStoppable <=> path # Timings, Becomes(r, path, t)
  PROVE  /\ TimersTyped'
         /\ now' = now
         /\ DOMAIN timers'[r] = DOMAIN timers[r] \cup {path}
         /\ timers'[r][path] = t
         /\ \A p \in DOMAIN timers[r] : ranFor'[r][p] = ranFor[r][p]
                                       /\ (p # path => timers'[r][p] = timers[r][p])
         /\ path \notin DOMAIN timers[r] => ranFor'[r][path] = 0
         /\ \A s \in Ranks \ {r} : timers'[s] = timers[s] /\ ranFor'[s] = ranFor[s]
<1>1. /\ timers' = [timers EXCEPT ![r] = Put(@, path, t)]
      /\ ranFor' = [ranFor EXCEPT ![r] = IF path \in DOMAIN @ THEN @ ELSE Put(@, path, 0)]
      /\ now' = now
  BY DEF Becomes
<1>2. DOMAIN ranFor[r] = DOMAIN timers[r]
  BY DEF TimersTyped
<1>3. /\ timers'[r] = Put(timers[r], path, t)
      /\ ranFor'[r] = IF path \in DOMAIN timers[r] THEN ranFor[r] ELSE Put(ranFor[r], path, 0)
      /\ \A s \in Ranks \ {r} : timers'[s] = timers[s] /\ ranFor'[s] = ranFor[s]
      /\ timers' = [s \in Ranks |-> timers'[s]] /\ ranFor' = [s \in Ranks |-> ranFor'[s]]
  BY <1>1, <1>2 DEF TimersTyped
<1>4. timers'[r] = [p \in DOMAIN timers[r] \cup {path} |->
                      IF p = path THEN t ELSE timers[r][p]]
  BY <1>3 DEF Put
<1>5. ranFor'[r] = [p \in DOMAIN timers[r] \cup {path} |->
                      IF p \in DOMAIN timers[r] THEN ranFor[r][p] ELSE 0]
  <2>1. CASE path \in DOMAIN timers[r]
    <3>1. ranFor[r] = [p \in DOMAIN timers[r] |-> ranFor[r][p]]
      BY DEF TimersTyped
    <3>2. DOMAIN timers[r] \cup {path} = DOMAIN timers[r]
      BY <2>1
    <3> QED BY <1>3, <2>1, <3>1, <3>2
  <2>2. CASE path \notin DOMAIN timers[r]
    <3>1. ranFor'[r] = [p \in DOMAIN timers[r] \cup {path} |->
                          IF p = path THEN 0 ELSE ranFor[r][p]]
      BY <1>2, <1>3, <2>2 DEF Put
    <3> QED BY <2>2, <3>1
  <2> QED BY <2>1, <2>2
<1>6. \A p \in DOMAIN timers[r] :
         timers[r][p] \in Stopwatches /\ ranFor[r][p] \in Int
  BY DEF TimersTyped
<1>7. /\ timers'[r] \in [DOMAIN timers'[r] -> Stopwatches]
      /\ ranFor'[r] \in [DOMAIN timers'[r] -> Int]
      /\ Timings \in DOMAIN timers'[r]
      /\ \A p \in DOMAIN timers'[r] : timers'[r][p].isStoppable <=> p # Timings
  BY <1>4, <1>5, <1>6 DEF TimersTyped
<1>8. TimersTyped'
  BY <1>1, <1>3, <1>7 DEF TimersTyped
<1> QED BY <1>1, <1>3, <1>4, <1>5, <1>8

------------------------------------------------------------------------------
(* The initial states.                                                     *)

LEMMA InitHolds == Init => LInv
<1> SUFFICES ASSUME Init PROVE LInv
  OBVIOUS
<1> DEFINE root == NewTimer(FALSE)
<1>1. /\ now = 0 /\ script = <<>> /\ nDone = [r \in Ranks |-> 0]
      /\ pc = [r \in Ranks |-> "initialize"] /\ return = [r \in Ranks |-> "none"]
      /\ isMaster = [r \in Ranks |-> FALSE]
      /\ timers = [r \in Ranks |-> Put(EmptyMap, Timings, root)]
      /\ ranFor = [r \in Ranks |-> Put(EmptyMap, Timings, 0)]
  BY DEF Init, TimerInit
<1>2. Put(EmptyMap, Timings, root) = [p \in {Timings} |-> root]
  BY DEF Put, EmptyMap
<1>3. Put(EmptyMap, Timings, 0) = [p \in {Timings} |-> 0]
  BY DEF Put, EmptyMap
<1>4. /\ root \in Stopwatches /\ root.isStarted /\ ~root.isStoppable
      /\ CumulativeMeasure(root) = 0
  <2>1. Stopwatch(FALSE) \in Stopwatches /\ ~Stopwatch(FALSE).isStarted
        /\ ~Stopwatch(FALSE).isStoppable /\ CumulativeMeasure(Stopwatch(FALSE)) = 0
    BY DEF Stopwatch, Stopwatches, CumulativeMeasure
  <2>2. now \in Int
    BY <1>1
  <2>3. root = InnerStart(Stopwatch(FALSE))
    BY DEF NewTimer
  <2> HIDE DEF root
  <2> QED BY <2>1, <2>2, <2>3, StopwatchSteps
<1> HIDE DEF root
<1>5. \A r \in Ranks : timers[r] = [p \in {Timings} |-> root] /\ ranFor[r] = [p \in {Timings} |-> 0]
  BY <1>1, <1>2, <1>3
<1>6. Len(script) = 0
  BY <1>1
<1>7. ScriptTyped
  BY <1>1 DEF ScriptTyped
<1>8. RanksTyped
  <2>1. pc = [r \in Ranks |-> pc[r]] /\ return \in [Ranks -> {"none", "spin", "body"}]
    BY <1>1
  <2>2. isMaster \in [Ranks -> BOOLEAN] /\ nDone \in [Ranks -> Nat]
    BY <1>1
  <2>3. \A r \in Ranks : nDone[r] <= Len(script)
    BY <1>1, <1>6
  <2> QED BY <2>1, <2>2, <2>3 DEF RanksTyped
<1>9. TimersTyped
  BY <1>1, <1>4, <1>5 DEF TimersTyped
<1>10. DoingNext
  BY <1>1 DEF DoingNext
<1>11. MasterPrints
  BY <1>1, MasterIsARank DEF MasterPrints
<1>12. PathsNamed
  BY <1>5 DEF PathsNamed
<1>13. RunningAsSaid
  <2>1. \A p : OpsOn(script, p, 0) = {}
    BY DEF OpsOn
  <2> QED BY <1>1, <1>4, <1>5, <2>1 DEF RunningAsSaid, Runs
<1>14. MasterPassed
  BY <1>1, MasterIsARank DEF MasterPassed
<1>15. MeasuredIfAllowed
  BY <1>4, <1>5 DEF MeasuredIfAllowed, MeasuredRight
<1> QED BY <1>7, <1>8, <1>9, <1>10, <1>11, <1>12, <1>13, <1>14, <1>15 DEF LInv

------------------------------------------------------------------------------
(* The steps.                                                              *)

\* A step that only moves ranks.
LEMMA Moves ==
  ASSUME LInv, UNCHANGED <<now, timers, ranFor, script, nDone>>,
         RanksTyped', DoingNext', MasterPrints'
  PROVE  LInv'
<1>1. ScriptTyped' /\ TimersTyped' /\ PathsNamed'
  BY DEF LInv, ScriptTyped, TimersTyped, PathsNamed
<1>2. RunningAsSaid' /\ MasterPassed'
  BY DEF LInv, RunningAsSaid, MasterPassed
<1>3. MeasuredIfAllowed'
  BY DEF LInv, MeasuredIfAllowed, MeasuredRight, CumulativeMeasure, CurrentMeasure
<1> QED BY <1>1, <1>2, <1>3 DEF LInv

\* One rank moves.
LEMMA OneMoves ==
  ASSUME LInv, UNCHANGED <<now, timers, ranFor, script, nDone>>,
         NEW r \in Ranks, NEW there, NEW back \in {"none", "spin", "body"},
         NEW master \in BOOLEAN,
         pc' = [pc EXCEPT ![r] = there],
         return' = [return EXCEPT ![r] = back],
         isMaster' = [isMaster EXCEPT ![r] = master],
         there \in {"loop", "barrier", "turn"} /\ back = "body" =>
           nDone[r] < Len(script) /\ script[nDone[r] + 1].kind = "inTurn",
         there = "collective" =>
           nDone[r] < Len(script) /\ script[nDone[r] + 1].kind \in {"allReduce", "broadcast"},
         r = MasterRank /\ there \notin {"initialize", "dead"} => master
  PROVE  LInv'
<1>1. RanksTyped
  BY DEF LInv
<1>2. /\ pc'[r] = there /\ return'[r] = back /\ isMaster'[r] = master
      /\ \A s \in Ranks \ {r} :
            pc'[s] = pc[s] /\ return'[s] = return[s] /\ isMaster'[s] = isMaster[s]
  BY <1>1 DEF RanksTyped
<1>3. RanksTyped'
  BY <1>1 DEF RanksTyped
<1>4. DoingNext'
  BY <1>2 DEF LInv, DoingNext
<1>5. MasterPrints'
  BY <1>2, MasterIsARank DEF LInv, MasterPrints
<1> QED BY <1>3, <1>4, <1>5, Moves

\* A rank has done an operation that is not on a stopwatch.
LEMMA Advances ==
  ASSUME LInv, UNCHANGED <<now, timers, ranFor, script, return, isMaster>>,
         NEW r \in Ranks, pc[r] \notin {"initialize", "dead"},
         pc' = [pc EXCEPT ![r] = "body"],
         nDone' = [nDone EXCEPT ![r] = @ + 1],
         nDone[r] < Len(script), script[nDone[r] + 1].kind \notin TimerKinds
  PROVE  LInv'
<1>1. RanksTyped /\ script \in Seq(Ops)
  BY DEF LInv, ScriptTyped
<1>2. /\ pc'[r] = "body" /\ nDone'[r] = nDone[r] + 1 /\ nDone[r] \in Nat
      /\ \A s \in Ranks \ {r} : pc'[s] = pc[s] /\ nDone'[s] = nDone[s]
  BY <1>1 DEF RanksTyped
<1>3. ScriptTyped' /\ TimersTyped' /\ PathsNamed'
  BY DEF LInv, ScriptTyped, TimersTyped, PathsNamed
<1>4. RanksTyped'
  <2>1. pc' = [s \in Ranks |-> pc'[s]] /\ return' \in [Ranks -> {"none", "spin", "body"}]
    BY <1>1 DEF RanksTyped
  <2>2. isMaster' \in [Ranks -> BOOLEAN] /\ nDone' \in [Ranks -> Nat]
    BY <1>1 DEF RanksTyped
  <2>3. nDone[r] + 1 <= Len(script)
    BY <1>1, <1>2
  <2>4. \A s \in Ranks : nDone'[s] <= Len(script')
    BY <1>1, <1>2, <2>3 DEF RanksTyped
  <2> QED BY <2>1, <2>2, <2>4 DEF RanksTyped
<1>5. DoingNext'
  BY <1>2 DEF LInv, DoingNext
<1>6. MasterPrints'
  BY <1>2, MasterIsARank DEF LInv, MasterPrints
<1>7. \A p : Runs(script, p, nDone[r] + 1) <=> Runs(script, p, nDone[r])
  BY <1>2, RunsNext
<1>8. RunningAsSaid'
  BY <1>2, <1>7 DEF LInv, RunningAsSaid
<1>9. Allowed(script, nDone[r] + 1)
  BY DEF Allowed, TimerKinds
<1>10. MasterPassed'
  BY <1>2, <1>9, MasterIsARank DEF LInv, MasterPassed
<1>11. \A s \in Ranks : 1 .. nDone[s] \subseteq 1 .. nDone'[s]
  BY <1>2
<1>12. MeasuredIfAllowed'
  BY <1>11 DEF LInv, MeasuredIfAllowed, MeasuredRight, CumulativeMeasure, CurrentMeasure
<1> QED BY <1>3, <1>4, <1>5, <1>6, <1>8, <1>10, <1>12 DEF LInv

\* The body gets one operation more.
LEMMA Writes ==
  ASSUME LInv, NEW op \in Ops, Write(op)
  PROVE  LInv'
<1>1. /\ script' = Append(script, op)
      /\ UNCHANGED <<now, timers, ranFor, pc, return, isMaster, nDone>>
  BY DEF Write, timerVars
<1>2. /\ script' \in Seq(Ops) /\ Len(script') = Len(script) + 1
      /\ \A k \in 1 .. Len(script) : script'[k] = script[k]
      /\ \A k \in 0 .. Len(script) : \A p : Runs(script', p, k) <=> Runs(script, p, k)
      /\ \A k \in 1 .. Len(script) : Allowed(script', k) <=> Allowed(script, k)
  BY <1>1, BodyKept DEF LInv, ScriptTyped
<1>3. Len(script) \in Nat /\ \A r \in Ranks : nDone[r] \in 0 .. Len(script)
  BY DEF LInv, ScriptTyped, RanksTyped
<1>4. ScriptTyped' /\ TimersTyped' /\ PathsNamed'
  BY <1>1, <1>2 DEF LInv, ScriptTyped, TimersTyped, PathsNamed
<1>5. RanksTyped'
  BY <1>1, <1>2, <1>3 DEF LInv, RanksTyped
<1>6. \A r \in Ranks : nDone[r] < Len(script) => script'[nDone[r] + 1] = script[nDone[r] + 1]
  BY <1>2, <1>3
<1>7. DoingNext'
  BY <1>1, <1>2, <1>3, <1>6 DEF LInv, DoingNext
<1>8. MasterPrints'
  BY <1>1 DEF LInv, MasterPrints
<1>9. RunningAsSaid'
  BY <1>1, <1>2, <1>3 DEF LInv, RunningAsSaid
<1>10. \A r \in Ranks : \A k \in 1 .. nDone[r] : Allowed(script', k) <=> Allowed(script, k)
  BY <1>2, <1>3
<1>11. MasterPassed'
  BY <1>1, <1>10, MasterIsARank DEF LInv, MasterPassed
<1>12. MeasuredIfAllowed'
  BY <1>1, <1>10 DEF LInv, MeasuredIfAllowed, MeasuredRight, CumulativeMeasure, CurrentMeasure
<1> QED BY <1>4, <1>5, <1>7, <1>8, <1>9, <1>11, <1>12 DEF LInv

\* Time passes: what runs is measured longer, by as much as it runs longer.
LEMMA TimePasses ==
  ASSUME LInv, ClockTicks
  PROVE  LInv'
<1>1. /\ now' = now + 1 /\ timers' = timers
      /\ ranFor' = [r \in Ranks |->
                      [p \in DOMAIN ranFor[r] |->
                          ranFor[r][p] + (IF timers[r][p].isStarted THEN 1 ELSE 0)]]
      /\ UNCHANGED <<pc, isMaster, return, script, nDone>>
  BY DEF ClockTicks, Tick, lifeVars
<1>2. TimersTyped
  BY DEF LInv
<1>3. \A r \in Ranks : DOMAIN ranFor[r] = DOMAIN timers[r]
  BY <1>2 DEF TimersTyped
<1>4. \A r \in Ranks : \A p \in DOMAIN timers[r] : ranFor[r][p] \in Int
  BY <1>2 DEF TimersTyped
<1>5. \A r \in Ranks : ranFor'[r] = [p \in DOMAIN timers[r] |->
                          ranFor[r][p] + (IF timers[r][p].isStarted THEN 1 ELSE 0)]
  BY <1>1, <1>3
<1>6. ASSUME NEW r \in Ranks PROVE ranFor'[r] \in [DOMAIN timers[r] -> Int]
  <2>1. \A p \in DOMAIN timers[r] :
           ranFor[r][p] + (IF timers[r][p].isStarted THEN 1 ELSE 0) \in Int
    BY <1>4
  <2> QED BY <1>5, <2>1
<1>7. ranFor' = [r \in Ranks |-> ranFor'[r]]
  BY <1>1
<1>8. TimersTyped'
  BY <1>1, <1>2, <1>6, <1>7 DEF TimersTyped
<1>9. ScriptTyped' /\ RanksTyped' /\ DoingNext' /\ MasterPrints' /\ PathsNamed'
  BY <1>1 DEF LInv, ScriptTyped, RanksTyped, DoingNext, MasterPrints, PathsNamed
<1>10. RunningAsSaid' /\ MasterPassed'
  BY <1>1 DEF LInv, RunningAsSaid, MasterPassed
<1>11. ASSUME NEW r \in Ranks, MeasuredRight(r) PROVE MeasuredRight(r)'
  <2>1. SUFFICES ASSUME NEW p \in DOMAIN timers[r]
                 PROVE  CumulativeMeasure(timers[r][p])' = ranFor'[r][p]
    BY <1>1 DEF MeasuredRight
  <2> DEFINE t == timers[r][p]
  <2>2. t \in Stopwatches /\ CumulativeMeasure(t) = ranFor[r][p] /\ now \in Int
    BY <1>2, <1>11 DEF TimersTyped, MeasuredRight
  <2>3. t.lastMomentStarted \in Int /\ t.cumulativeMeasure \in Int /\ t.lastMomentStopped \in Int
    BY <2>2 DEF Stopwatches
  <2>4. ranFor'[r][p] = ranFor[r][p] + (IF t.isStarted THEN 1 ELSE 0)
    BY <1>5
  <2>5. CASE t.isStarted
    <3>1. CumulativeMeasure(t)' = t.cumulativeMeasure + (now' - t.lastMomentStarted)
      BY <1>1, <2>5 DEF CumulativeMeasure, CurrentMeasure
    <3>2. CumulativeMeasure(t) = t.cumulativeMeasure + (now - t.lastMomentStarted)
      BY <2>5 DEF CumulativeMeasure, CurrentMeasure
    <3> HIDE DEF t
    <3>3. CumulativeMeasure(t)' = ranFor'[r][p]
      BY <1>1, <2>2, <2>3, <2>4, <2>5, <3>1, <3>2
    <3> QED BY <3>3 DEF t
  <2>6. CASE ~t.isStarted
    <3>1. CumulativeMeasure(t)' = t.cumulativeMeasure + 0
      BY <1>1, <2>6 DEF CumulativeMeasure, CurrentMeasure
    <3>2. CumulativeMeasure(t) = t.cumulativeMeasure + 0
      BY <2>6 DEF CumulativeMeasure, CurrentMeasure
    <3> HIDE DEF t
    <3>3. CumulativeMeasure(t)' = ranFor'[r][p]
      BY <2>2, <2>3, <2>4, <2>6, <3>1, <3>2
    <3> QED BY <3>3 DEF t
  <2> QED BY <2>5, <2>6
<1>12. MeasuredIfAllowed'
  BY <1>1, <1>11 DEF LInv, MeasuredIfAllowed
<1> QED BY <1>8, <1>9, <1>10, <1>12 DEF LInv

\* A rank starts or stops a stopwatch. It does not crash: either the check holds, or it
\* is not the master.
LEMMA UsesTimer ==
  ASSUME LInv, NEW r \in Ranks, UseTimer(r)
  PROVE  LInv'
<1> DEFINE op == script[nDone[r] + 1]
           path == op.path
           old == Find(r, path)
           new == IF op.kind = "start" THEN InnerStart(old) ELSE Stopped(old)
<1>1. /\ pc[r] = "body" /\ nDone[r] < Len(script) /\ op.kind \in TimerKinds
      /\ Becomes(r, path, new)
      /\ nDone' = [nDone EXCEPT ![r] = @ + 1]
      /\ UNCHANGED <<pc, isMaster, return, script>>
  BY DEF UseTimer, Does, DoneOne, Now, Start, Stop, TimerKinds
<1>2. /\ RanksTyped /\ TimersTyped /\ script \in Seq(Ops) /\ Len(script) \in Nat
      /\ now \in Int /\ nDone[r] \in Nat
  BY DEF LInv, ScriptTyped, RanksTyped, TimersTyped
<1>3. op \in Ops
  BY <1>1, <1>2
<1>4. path \in Paths
  BY <1>1, <1>3 DEF Ops, TimerKinds
<1>5. /\ old \in Stopwatches /\ (old.isStoppable <=> path # Timings)
      /\ path \notin DOMAIN timers[r] => ~old.isStarted /\ CumulativeMeasure(old) = 0
      /\ path \in DOMAIN timers[r] => old = timers[r][path]
  <2>1. CASE path \in DOMAIN timers[r]
    <3>1. old = timers[r][path]
      BY <2>1 DEF Find
    <3> QED BY <1>2, <2>1, <3>1 DEF TimersTyped
  <2>2. CASE path \notin DOMAIN timers[r]
    <3>1. old = NewTimer(TRUE)
      BY <2>2 DEF Find
    <3>2. path # Timings
      BY <1>2, <2>2 DEF TimersTyped
    <3> QED BY <1>2, <2>2, <3>1, <3>2, NewStopwatch
  <2> QED BY <2>1, <2>2
<1>6. old.isStarted <=> Runs(script, path, nDone[r])
  BY <1>4, <1>5 DEF LInv, RunningAsSaid
<1> HIDE DEF old
<1>7. /\ new \in Stopwatches /\ (new.isStoppable <=> path # Timings)
      /\ new.isStarted <=> op.kind = "start"
      /\ (op.kind = "start" => ~old.isStarted) /\ (op.kind = "stop" => old.isStarted) =>
            CumulativeMeasure(new) = CumulativeMeasure(old)
  BY <1>1, <1>2, <1>5, StopwatchSteps DEF TimerKinds
<1> HIDE DEF new
<1>8. /\ TimersTyped' /\ now' = now
      /\ DOMAIN timers'[r] = DOMAIN timers[r] \cup {path}
      /\ timers'[r][path] = new
      /\ \A p \in DOMAIN timers[r] : ranFor'[r][p] = ranFor[r][p]
                                    /\ (p # path => timers'[r][p] = timers[r][p])
      /\ path \notin DOMAIN timers[r] => ranFor'[r][path] = 0
      /\ \A s \in Ranks \ {r} : timers'[s] = timers[s] /\ ranFor'[s] = ranFor[s]
  BY <1>1, <1>2, <1>7, BecomesEffect
<1>9. \A p : Runs(script, p, nDone[r] + 1) <=>
               IF path = p THEN op.kind = "start" ELSE Runs(script, p, nDone[r])
  BY <1>1, <1>2, RunsNext
<1>10. Allowed(script, nDone[r] + 1) <=>
         /\ op.kind = "start" => ~old.isStarted
         /\ op.kind = "stop" => old.isStarted /\ path # Timings
  BY <1>2, <1>6 DEF Allowed
<1>11. /\ nDone'[r] = nDone[r] + 1
       /\ \A s \in Ranks \ {r} : nDone'[s] = nDone[s]
  BY <1>1, <1>2 DEF RanksTyped
<1>12. ScriptTyped'
  BY <1>1, <1>2 DEF ScriptTyped
<1>13. RanksTyped'
  <2>1. nDone' \in [Ranks -> Nat]
    BY <1>1, <1>2 DEF RanksTyped
  <2>2. \A s \in Ranks : nDone'[s] <= Len(script')
    BY <1>1, <1>2, <1>11 DEF RanksTyped
  <2> QED BY <1>1, <1>2, <2>1, <2>2 DEF RanksTyped
<1>14. DoingNext'
  BY <1>1, <1>11 DEF LInv, DoingNext
<1>15. MasterPrints'
  BY <1>1 DEF LInv, MasterPrints
<1>16. PathsNamed'
  BY <1>4, <1>8 DEF LInv, PathsNamed
<1>17. RunningAsSaid'
  <2>1. ASSUME NEW s \in Ranks, NEW p \in Paths \cup {Timings}
        PROVE  (p \in DOMAIN timers'[s] /\ timers'[s][p].isStarted)
                  <=> Runs(script, p, nDone'[s])
    <3>1. CASE s # r
      BY <1>8, <1>11, <3>1 DEF LInv, RunningAsSaid
    <3>2. CASE s = r /\ p = path
      BY <1>7, <1>8, <1>9, <1>11, <3>2
    <3>3. CASE s = r /\ p # path
      BY <1>8, <1>9, <1>11, <3>3 DEF LInv, RunningAsSaid
    <3> QED BY <3>1, <3>2, <3>3
  <2> QED BY <1>1, <2>1 DEF RunningAsSaid
<1>18. MasterPassed'
  <2>1. CASE r # MasterRank
    BY <1>1, <1>11, <2>1, MasterIsARank DEF LInv, MasterPassed
  <2>2. CASE r = MasterRank
    <3>1. Prints(r)
      BY <1>1, <2>2 DEF LInv, MasterPrints, Prints
    <3>2. ~Refused(r)
      BY <3>1 DEF UseTimer, Crashes
    <3>3. /\ op.kind = "start" => ~old.isStarted
          /\ op.kind = "stop" => old.isStarted /\ old.isStoppable
      BY <1>1, <3>2 DEF Refused, Does, Now, StartRefused, StopRefused, old
    <3>4. Allowed(script, nDone[r] + 1)
      BY <1>5, <1>10, <3>3
    <3> QED BY <1>1, <1>2, <1>11, <2>2, <3>4 DEF LInv, MasterPassed
  <2> QED BY <2>1, <2>2
<1>19. MeasuredIfAllowed'
  <2>1. ASSUME NEW s \in Ranks, \A k \in 1 .. nDone'[s] : Allowed(script, k)
        PROVE  MeasuredRight(s)'
    <3>1. MeasuredRight(s)
      <4>1. 1 .. nDone[s] \subseteq 1 .. nDone'[s]
        BY <1>2, <1>11
      <4> QED BY <2>1, <4>1 DEF LInv, MeasuredIfAllowed
    <3>2. CASE s # r
      BY <1>8, <3>1, <3>2 DEF MeasuredRight, CumulativeMeasure, CurrentMeasure
    <3>3. CASE s = r
      <4>1. Allowed(script, nDone[r] + 1)
        BY <1>2, <1>11, <2>1, <3>3
      <4>2. CumulativeMeasure(new) = CumulativeMeasure(old)
        BY <1>7, <1>10, <4>1
      <4>3. ranFor'[r][path] = CumulativeMeasure(old)
        BY <1>5, <1>8, <3>1, <3>3 DEF MeasuredRight
      <4>4. ASSUME NEW p \in DOMAIN timers'[r]
            PROVE  CumulativeMeasure(timers[r][p])' = ranFor'[r][p]
        <5>1. CASE p = path
          BY <1>8, <4>2, <4>3, <5>1 DEF CumulativeMeasure, CurrentMeasure
        <5>2. CASE p # path
          BY <1>8, <3>1, <3>3, <5>2 DEF MeasuredRight, CumulativeMeasure, CurrentMeasure
        <5> QED BY <5>1, <5>2
      <4> QED BY <3>3, <4>4 DEF MeasuredRight
    <3> QED BY <3>2, <3>3
  <2> QED BY <1>1, <2>1 DEF MeasuredIfAllowed
<1> QED BY <1>8, <1>12, <1>13, <1>14, <1>15, <1>16, <1>17, <1>18, <1>19 DEF LInv

\* The steps of a rank.
LEMMA StepsOfRanks ==
  ASSUME LInv, NEW r \in Ranks, Step(r)
  PROVE  LInv'
<1> USE DEF timerVars
<1>1. /\ RanksTyped /\ DoingNext /\ MasterPrints /\ script \in Seq(Ops)
      /\ pc = [pc EXCEPT ![r] = pc[r]]
      /\ return = [return EXCEPT ![r] = return[r]]
      /\ isMaster = [isMaster EXCEPT ![r] = isMaster[r]]
      /\ return[r] \in {"none", "spin", "body"} /\ isMaster[r] \in BOOLEAN
      /\ nDone[r] \in Nat
  BY DEF LInv, ScriptTyped, RanksTyped
<1>2. r = MasterRank /\ pc[r] \notin {"initialize", "dead"} => isMaster[r]
  BY <1>1 DEF MasterPrints
<1>3. ASSUME Initialize(r) PROVE LInv'
  BY <1>1, <1>3, OneMoves DEF Initialize, Goes
<1>4. ASSUME ReadAll(r) PROVE LInv'
  BY <1>1, <1>2, <1>4, OneMoves DEF ReadAll, Goes
<1>5. ASSUME Attach(r) PROVE LInv'
  <2>1. CASE waitToAttachDebugger[r]
    BY <1>1, <1>2, <1>5, <2>1, OneMoves DEF Attach, Goes
  <2>2. CASE ~waitToAttachDebugger[r]
    BY <1>1, <1>2, <1>5, <2>2, OneMoves DEF Attach, Goes
  <2> QED BY <2>1, <2>2
<1>6. ASSUME EnterLoop(r) PROVE LInv'
  BY <1>1, <1>2, <1>6, OneMoves DEF EnterLoop, Goes, DoingNext
<1>7. ASSUME TakeTurn(r) PROVE LInv'
  <2>1. CASE iRank[r] = r
    BY <1>1, <1>2, <1>7, <2>1, OneMoves DEF TakeTurn, Goes, DoingNext
  <2>2. CASE iRank[r] # r
    BY <1>1, <1>2, <1>7, <2>2, OneMoves DEF TakeTurn, Goes, DoingNext
  <2> QED BY <2>1, <2>2
<1>8. ASSUME EndTurn(r) PROVE LInv'
  BY <1>1, <1>2, <1>8, OneMoves DEF EndTurn, Goes, DoingNext
<1>9. ASSUME LeaveLoop(r) PROVE LInv'
  <2>1. CASE return[r] = "body"
    <3>1. nDone' = [nDone EXCEPT ![r] = @ + 1] /\ pc' = [pc EXCEPT ![r] = "body"]
      BY <1>9, <2>1 DEF LeaveLoop, Goes
    <3>2. nDone[r] < Len(script) /\ script[nDone[r] + 1].kind \notin TimerKinds
      BY <1>1, <1>9, <2>1 DEF LeaveLoop, DoingNext, TimerKinds
    <3> QED BY <1>9, <3>1, <3>2, Advances DEF LeaveLoop
  <2>2. CASE return[r] # "body"
    <3>1. nDone' = nDone /\ pc' = [pc EXCEPT ![r] = return[r]]
      BY <1>1, <1>9, <2>2 DEF LeaveLoop, Goes, RanksTyped
    <3>2. return[r] \in {"none", "spin"}
      BY <1>1, <2>2
    <3> QED BY <1>1, <1>2, <1>9, <3>1, <3>2, OneMoves DEF LeaveLoop
  <2> QED BY <2>1, <2>2
<1>10. ASSUME Spin(r) PROVE LInv'
  BY <1>1, <1>2, <1>10, OneMoves DEF Spin, Goes
<1>11. ASSUME Attached(r) PROVE LInv'
  BY <1>1, <1>2, <1>11, OneMoves DEF Attached, Goes
<1>12. ASSUME Services(r) PROVE LInv'
  BY <1>1, <1>2, <1>12, OneMoves DEF Services, Goes
<1>13. ASSUME InTurn(r) PROVE LInv'
  BY <1>1, <1>2, <1>13, OneMoves DEF InTurn, Does, Goes
<1>14. ASSUME EnterCollective(r) PROVE LInv'
  <2>1. pc[r] = "body" /\ nDone[r] < Len(script)
        /\ script[nDone[r] + 1].kind \in {"allReduce", "broadcast"}
    BY <1>14 DEF EnterCollective, Does
  <2> QED BY <1>1, <1>2, <1>14, <2>1, OneMoves DEF EnterCollective, Goes
<1>15. ASSUME LeaveCollective(r) PROVE LInv'
  <2>1. nDone[r] < Len(script) /\ script[nDone[r] + 1].kind \notin TimerKinds
    BY <1>1, <1>15 DEF LeaveCollective, DoingNext, TimerKinds
  <2> QED BY <1>15, <2>1, Advances DEF LeaveCollective, Goes, DoneOne
<1>16. ASSUME MinimalCrash(r) PROVE LInv'
  BY <1>1, <1>16, OneMoves DEF MinimalCrash, Goes
<1>17. ASSUME UseTimer(r) PROVE LInv'
  BY <1>17, UsesTimer
<1>18. ASSUME Finalize(r) PROVE LInv'
  BY <1>1, <1>2, <1>18, OneMoves DEF Finalize, Goes
<1> QED BY <1>3, <1>4, <1>5, <1>6, <1>7, <1>8, <1>9, <1>10, <1>11, <1>12, <1>13, <1>14,
           <1>15, <1>16, <1>17, <1>18 DEF Step

LEMMA NextKeeps == LInv /\ [Next]_vars => LInv'
<1> SUFFICES ASSUME LInv, [Next]_vars PROVE LInv'
  OBVIOUS
<1> USE DEF timerVars
<1>1. RanksTyped /\ DoingNext /\ MasterPrints /\ MasterRank \in Ranks /\ NRanks - 1 \in Ranks
  <2>1. NRanks \in Nat
    BY RanksAssumption, FS_CardinalityType DEF NRanks
  <2>2. Ranks = 0 .. NRanks - 1
    BY RanksAssumption
  <2> QED BY <2>1, <2>2, MasterIsARank DEF LInv, MasterRank
<1>2. ASSUME NEW r \in Ranks, Step(r) PROVE LInv'
  BY <1>2, StepsOfRanks
<1>3. CASE WriteCollective
  <2>1. /\ [kind |-> "inTurn"] \in Ops /\ [kind |-> "allReduce"] \in Ops
        /\ \A root \in Ranks : [kind |-> "broadcast", root |-> root] \in Ops
    BY DEF Ops
  <2>2. {MasterRank, NRanks - 1} \subseteq Ranks
    BY <1>1
  <2> QED BY <1>3, <2>1, <2>2, Writes DEF WriteCollective
<1>4. CASE WriteTimer
  <2>1. ASSUME NEW kind \in {"start", "stop"}, NEW path \in Paths
        PROVE  [kind |-> kind, path |-> path] \in Ops
    BY <2>1 DEF Ops, TimerKinds
  <2> QED BY <1>4, <2>1, Writes DEF WriteTimer
<1>5. CASE ClockTicks
  BY <1>5, TimePasses
<1>6. CASE Debugger
  BY <1>1, <1>6, Moves DEF Debugger, RanksTyped, DoingNext, MasterPrints
<1>7. CASE Launcher
  <2>1. /\ pc' = [s \in Ranks |-> pc'[s]] /\ \A s \in Ranks : pc'[s] \in {"done", "dead"}
        /\ pc'[MasterRank] = "done" => pc[MasterRank] = "done"
        /\ UNCHANGED <<now, timers, ranFor, script, nDone, return, isMaster>>
    BY <1>1, <1>7 DEF Launcher
  <2>2. RanksTyped'
    BY <1>1, <2>1 DEF RanksTyped
  <2>3. DoingNext'
    BY <2>1 DEF DoingNext
  <2>4. MasterPrints'
    BY <1>1, <2>1 DEF MasterPrints
  <2> QED BY <2>1, <2>2, <2>3, <2>4, Moves
<1>8. ASSUME NEW r \in Ranks, Signal(r) \/ Fault(r) PROVE LInv'
  <2>1. /\ return = [return EXCEPT ![r] = return[r]]
        /\ isMaster = [isMaster EXCEPT ![r] = isMaster[r]]
        /\ return[r] \in {"none", "spin", "body"} /\ isMaster[r] \in BOOLEAN
    BY <1>1 DEF RanksTyped
  <2>2. CASE Signal(r)
    BY <1>1, <2>1, <2>2, OneMoves DEF Signal, Goes
  <2>3. CASE Fault(r)
    <3>1. r = MasterRank => isMaster[r]
      BY <1>1, <2>3 DEF Fault, Gone, MasterPrints
    <3> QED BY <1>1, <2>1, <2>3, <3>1, OneMoves DEF Fault, Goes
  <2> QED BY <1>8, <2>2, <2>3
<1>9. CASE UNCHANGED vars
  BY <1>1, <1>9, Moves DEF vars, lifeVars, RanksTyped, DoingNext, MasterPrints
<1> QED BY <1>2, <1>3, <1>4, <1>5, <1>6, <1>7, <1>8, <1>9 DEF Next

------------------------------------------------------------------------------
(* The theorems.                                                           *)

\* Whether a stopwatch runs is said by the operations the rank has done, on every rank,
\* and the master has only passed checks that hold (`timer.hpp:99`, `:234`,
\* `minimalCrash.cpp:24`): the invariant the next theorem comes from.
THEOREM StopwatchesInductive == Spec => []LInv
BY InitHolds, NextKeeps, PTL DEF Spec

\* For any number of ranks, any stopwatches and any body: where the master has come as
\* far as a rank, the stopwatches of the rank have measured the time they ran.
THEOREM MeasuredThere == Spec => []MeasuredWhereMasterPassed
<1>1. LInv => MeasuredWhereMasterPassed
  <2> SUFFICES ASSUME LInv, NEW r \in Ranks, nDone[r] <= nDone[MasterRank]
               PROVE  MeasuredRight(r)
    BY DEF MeasuredWhereMasterPassed
  <2>1. nDone[r] \in Nat /\ nDone[MasterRank] \in Nat
    BY MasterIsARank DEF LInv, RanksTyped
  <2>2. 1 .. nDone[r] \subseteq 1 .. nDone[MasterRank]
    BY <2>1
  <2> QED BY <2>2 DEF LInv, MasterPassed, MeasuredIfAllowed
<1> QED BY <1>1, StopwatchesInductive, PTL

------------------------------------------------------------------------------
(***************************************************************************)
(* Turns: one after the other, though no barrier follows the last.         *)
(*                                                                         *)
(* The argument: all ranks run the same program, whose step 0 is the wait  *)
(* for the debugger and whose step k is the k-th operation of the body.    *)
(* What comes before a step fixes how many collective calls a rank has     *)
(* made when it gets there, and how many turns have been taken. A barrier  *)
(* that returns says that every rank has called as many times: the owners  *)
(* of all earlier turns have left them, and nobody is past this one.       *)
(***************************************************************************)

(* The program of the ranks.                                               *)

\* What all ranks find in the environment, if it is the same.
Waiting == ReadFlag(env[MasterRank], FALSE)

InTurns(k) ==
    \/ k = 0 /\ Waiting
    \/ k \in 1 .. Len(script) /\ script[k].kind = "inTurn"

\* The collective calls of a step, and its turns.
StepCalls(k) ==
    IF k = 0 THEN IF Waiting THEN NRanks + 1 ELSE 0
    ELSE IF script[k].kind = "inTurn" THEN NRanks
    ELSE IF script[k].kind \in {"allReduce", "broadcast"} THEN 1
    ELSE 0

StepTurns(k) == IF InTurns(k) THEN NRanks ELSE 0

Steps == 0 .. Len(script)

\* C and T count the calls and the turns before each step, and before the end.
Counts(C, T) ==
    /\ C \in [0 .. Len(script) + 1 -> Nat]
    /\ T \in [0 .. Len(script) + 1 -> Nat]
    /\ C[0] = 0 /\ T[0] = 0
    /\ \A k \in Steps : C[k + 1] = C[k] + StepCalls(k) /\ T[k + 1] = T[k] + StepTurns(k)
    /\ \A k \in 0 .. Len(script) + 1 : \A j \in 0 .. k - 1 :
          C[j] + StepCalls(j) <= C[k] /\ T[j] + StepTurns(j) <= T[k]
    /\ \A k \in 0 .. Len(script) + 1 :
          T[k] = 0 \/ \E j \in 0 .. k - 1 : InTurns(j) /\ T[j] + NRanks = T[k]

\* When rank o gets to its turn in step k, what it has called and what is in the log.
CallsAt(C, k, o) == C[k] + o

EntriesAt(T, k, o) == 2 * (T[k] + o)

------------------------------------------------------------------------------
(* The inductive invariant.                                                *)

Turns == [rank : Ranks, is : {"begin", "end"}]

TurnsTyped ==
    /\ iRank \in [Ranks -> 0 .. NRanks]
    /\ calls = [r \in Ranks |-> calls[r]]
    /\ \A r \in Ranks : \E S : calls[r] \in Seq(S)
    /\ waitToAttachDebugger \in [Ranks -> BOOLEAN]
    /\ log \in Seq(Turns)

\* The step of a rank that is in a loop on ranks.
LoopStep(r) == IF return[r] = "spin" THEN 0 ELSE nDone[r] + 1

\* Where a rank is says how many calls it has made.
PlacedLooping(r, C) ==
    /\ pc[r] \in {"loop", "barrier", "turn"}
    /\ return[r] \in {"spin", "body"}
    /\ return[r] = "spin" => nDone[r] = 0
    /\ InTurns(LoopStep(r))
    /\ pc[r] # "loop" => iRank[r] < NRanks
    /\ pc[r] = "barrier" => calls[r][Latest(r)].kind = "barrier"
    /\ Latest(r) = CallsAt(C, LoopStep(r), iRank[r]) + (IF pc[r] = "loop" THEN 0 ELSE 1)

PlacedOutside(r, C) ==
    /\ iRank[r] = 0
    /\ \/ /\ pc[r] \in {"initialize", "readAll", "attach"}
          /\ nDone[r] = 0 /\ Latest(r) = 0
          /\ pc[r] = "attach" => waitToAttachDebugger[r] = Waiting
       \/ /\ pc[r] \in {"spin", "attachBarrier"}
          /\ Waiting /\ nDone[r] = 0
          /\ Latest(r) = NRanks + (IF pc[r] = "spin" THEN 0 ELSE 1)
       \/ /\ pc[r] = "services"
          /\ nDone[r] = 0 /\ Latest(r) = StepCalls(0)
       \/ /\ pc[r] \in {"body", "collective", "done"}
          /\ Latest(r) = C[nDone[r] + 1] + (IF pc[r] = "collective" THEN 1 ELSE 0)

Placed(r, C) == pc[r] \in {"dead", "fault"} \/ PlacedLooping(r, C) \/ PlacedOutside(r, C)

\* A rank that has called after its turn, or has left it, has ended it.
OwnTurnsOver(r, C, T) ==
    \A k \in Steps :
        /\ InTurns(k)
        /\ \/ CallsAt(C, k, r) + 1 < Latest(r)
           \/ CallsAt(C, k, r) + 1 = Latest(r) /\ pc[r] \notin {"barrier", "turn", "dead", "fault"}
        => EntriesAt(T, k, r) + 2 <= Len(log)

\* Before its turn there are no more than those before it; in it, its own.
OwnTurnNow(r, T) ==
    /\ pc[r] = "barrier" /\ iRank[r] = r => Len(log) <= EntriesAt(T, LoopStep(r), r)
    /\ pc[r] = "turn" => iRank[r] = r /\ Len(log) = EntriesAt(T, LoopStep(r), r) + 1

\* A turn that has begun has been waited for by all ranks.
BegunTogether(C, T) ==
    \A k \in Steps : \A o \in Ranks :
        InTurns(k) /\ EntriesAt(T, k, o) + 1 <= Len(log)
            => \A r \in Ranks : CallsAt(C, k, o) + 1 <= Latest(r)

\* The log holds the turns of the program.
Logged(T) ==
    \A k \in Steps : \A o \in Ranks : InTurns(k) =>
        /\ EntriesAt(T, k, o) + 1 <= Len(log) =>
             log[EntriesAt(T, k, o) + 1] = [rank |-> o, is |-> "begin"]
        /\ EntriesAt(T, k, o) + 2 <= Len(log) =>
             log[EntriesAt(T, k, o) + 2] = [rank |-> o, is |-> "end"]

Bounded(C, T) ==
    /\ Len(log) <= 2 * T[Len(script) + 1]
    /\ \A r \in Ranks : Latest(r) <= C[Len(script) + 1]

Chained ==
    \A i \in 1 .. Len(log) :
        log[i] = IF i = 1 THEN [rank |-> 0, is |-> "begin"] ELSE NextInTurn(log[i - 1])

Facts(C, T) ==
    /\ Counts(C, T)
    /\ \A r \in Ranks : Placed(r, C) /\ OwnTurnsOver(r, C, T) /\ OwnTurnNow(r, T)
    /\ BegunTogether(C, T)
    /\ Logged(T)
    /\ Bounded(C, T)
    /\ Chained

TurnsInv == SameEnvironment => TurnsTyped /\ \E C, T : Facts(C, T)

------------------------------------------------------------------------------
(* Numbers.                                                                *)

LEMMA RanksAreNumbers ==
  /\ NRanks \in Nat /\ NRanks >= 1 /\ Ranks = 0 .. NRanks - 1
  /\ 0 \in Ranks /\ NRanks - 1 \in Ranks
<1>1. NRanks \in Nat
  BY RanksAssumption, FS_CardinalityType DEF NRanks
<1>2. Ranks = 0 .. NRanks - 1 /\ Ranks # {}
  BY RanksAssumption
<1> QED BY <1>1, <1>2

LEMMA CountsAreNumbers ==
  ASSUME Len(script) \in Nat, NEW C, NEW T, Counts(C, T), NEW k \in 0 .. Len(script) + 1
  PROVE  C[k] \in Nat /\ T[k] \in Nat
<1>1. C \in [0 .. Len(script) + 1 -> Nat] /\ T \in [0 .. Len(script) + 1 -> Nat]
  BY DEF Counts
<1> QED BY <1>1

LEMMA LoopCounts ==
  ASSUME Len(script) \in Nat, NEW C, NEW T, Counts(C, T), NEW j \in Steps, InTurns(j)
  PROVE  /\ C[j] \in Nat /\ T[j] \in Nat /\ C[j + 1] \in Nat
         /\ C[j + 1] = C[j] + StepCalls(j)
         /\ T[j + 1] = T[j] + NRanks
         /\ StepCalls(j) = IF j = 0 THEN NRanks + 1 ELSE NRanks
         /\ \A k \in 0 .. Len(script) + 1 :
               j < k => C[j] + NRanks <= C[k] /\ T[j] + NRanks <= T[k]
<1>1. NRanks \in Nat /\ j \in 0 .. Len(script) /\ j + 1 \in 0 .. Len(script) + 1
  BY RanksAreNumbers DEF Steps
<1>2. C[j] \in Nat /\ T[j] \in Nat /\ C[j + 1] \in Nat /\ j \in 0 .. Len(script) + 1
  BY <1>1, CountsAreNumbers
<1>3. StepTurns(j) = NRanks /\ StepCalls(j) = IF j = 0 THEN NRanks + 1 ELSE NRanks
  BY <1>1 DEF StepTurns, StepCalls, InTurns
<1>4. C[j + 1] = C[j] + StepCalls(j) /\ T[j + 1] = T[j] + StepTurns(j)
  BY DEF Counts
<1>5. ASSUME NEW k \in 0 .. Len(script) + 1, j < k
      PROVE  C[j] + NRanks <= C[k] /\ T[j] + NRanks <= T[k]
  <2>1. j \in 0 .. k - 1
    BY <1>1, <1>5
  <2>2. C[j] + StepCalls(j) <= C[k] /\ T[j] + StepTurns(j) <= T[k]
    BY <2>1 DEF Counts
  <2>3. C[k] \in Nat /\ T[k] \in Nat
    BY CountsAreNumbers
  <2> QED BY <1>1, <1>2, <1>3, <2>2, <2>3
<1> QED BY <1>2, <1>3, <1>4, <1>5

LEMMA FartherThanATurn ==
  ASSUME NEW n \in Nat, NEW a \in Nat, NEW b \in Nat, a + n <= b,
         NEW o \in 0 .. n - 1, NEW q \in 0 .. n - 1
  PROVE  /\ a + o < b + q /\ 2 * (a + o) + 2 <= 2 * (b + q)
         /\ a + o \in Nat /\ b + q \in Nat /\ 2 * (a + o) \in Nat /\ 2 * (b + q) \in Nat
OBVIOUS

\* A later loop has later turns.
LEMMA LaterLoop ==
  ASSUME Len(script) \in Nat,
         NEW C, NEW T, Counts(C, T),
         NEW j \in Steps, InTurns(j), NEW k \in Steps, j < k,
         NEW o \in Ranks, NEW q \in Ranks
  PROVE  /\ CallsAt(C, j, o) < CallsAt(C, k, q)
         /\ EntriesAt(T, j, o) + 2 <= EntriesAt(T, k, q)
<1>1. /\ NRanks \in Nat /\ o \in 0 .. NRanks - 1 /\ q \in 0 .. NRanks - 1
      /\ j \in 0 .. Len(script) + 1 /\ k \in 0 .. Len(script) + 1
  BY RanksAreNumbers DEF Steps
<1>2. C[j] \in Nat /\ T[j] \in Nat /\ C[k] \in Nat /\ T[k] \in Nat
  BY <1>1, CountsAreNumbers
<1>3. C[j] + NRanks <= C[k] /\ T[j] + NRanks <= T[k]
  BY <1>1, LoopCounts
<1>4. C[j] + o < C[k] + q
  BY <1>1, <1>2, <1>3, FartherThanATurn, SMTT(30)
<1>5. 2 * (T[j] + o) + 2 <= 2 * (T[k] + q)
  BY <1>1, <1>2, <1>3, FartherThanATurn, SMTT(30)
<1> QED BY <1>4, <1>5 DEF CallsAt, EntriesAt

LEMMA TurnNumbers ==
  ASSUME Len(script) \in Nat,
         NEW C, NEW T, Counts(C, T), NEW k \in Steps, InTurns(k), NEW o \in Ranks
  PROVE  /\ CallsAt(C, k, o) \in Nat /\ EntriesAt(T, k, o) \in Nat
         /\ EntriesAt(T, k, o) + 2 <= 2 * T[Len(script) + 1]
         /\ 2 * T[Len(script) + 1] \in Nat
         /\ \A q \in Ranks : o < q => /\ CallsAt(C, k, o) < CallsAt(C, k, q)
                                      /\ EntriesAt(T, k, o) + 2 <= EntriesAt(T, k, q)
<1>1. /\ NRanks \in Nat /\ o \in 0 .. NRanks - 1 /\ Ranks = 0 .. NRanks - 1
      /\ k \in 0 .. Len(script) + 1
      /\ Len(script) + 1 \in 0 .. Len(script) + 1 /\ k < Len(script) + 1
  BY RanksAreNumbers DEF Steps
<1>2. PICK c \in Nat : c = C[k]
  BY <1>1, CountsAreNumbers
<1>3. PICK t \in Nat : t = T[k]
  BY <1>1, CountsAreNumbers
<1>4. PICK e \in Nat : e = T[Len(script) + 1]
  BY <1>1, CountsAreNumbers
<1>5. T[k] + NRanks <= T[Len(script) + 1]
  BY <1>1, LoopCounts
<1>6. t + NRanks <= e
  BY <1>3, <1>4, <1>5
<1>7. 2 * (t + o) + 2 <= 2 * e /\ 2 * (t + o) \in Nat /\ c + o \in Nat /\ 2 * e \in Nat
  BY <1>1, <1>6
<1>8. \A q \in Ranks : o < q => c + o < c + q /\ 2 * (t + o) + 2 <= 2 * (t + q)
  BY <1>1
<1> QED BY <1>2, <1>3, <1>4, <1>7, <1>8 DEF CallsAt, EntriesAt

\* Calls and the log put the turns of the program in the same order.
LEMMA SameOrder ==
  ASSUME Len(script) \in Nat,
         NEW C, NEW T, Counts(C, T),
         NEW j \in Steps, InTurns(j), NEW k \in Steps, InTurns(k),
         NEW o \in Ranks, NEW q \in Ranks
  PROVE  \/ j = k /\ o = q
         \/ /\ CallsAt(C, j, o) < CallsAt(C, k, q)
            /\ EntriesAt(T, j, o) + 2 <= EntriesAt(T, k, q)
         \/ /\ CallsAt(C, k, q) < CallsAt(C, j, o)
            /\ EntriesAt(T, k, q) + 2 <= EntriesAt(T, j, o)
<1>1. /\ o \in Nat /\ q \in Nat /\ j \in Nat /\ k \in Nat
  BY RanksAreNumbers DEF Steps
<1>2. CASE j < k
  BY <1>2, LaterLoop
<1>3. CASE k < j
  BY <1>3, LaterLoop
<1>4. CASE j = k /\ o < q
  BY <1>4, TurnNumbers
<1>5. CASE j = k /\ q < o
  BY <1>5, TurnNumbers
<1> QED BY <1>1, <1>2, <1>3, <1>4, <1>5

\* Each turn but the first comes right after another.
LEMMA TurnBefore ==
  ASSUME Len(script) \in Nat,
         NEW C, NEW T, Counts(C, T), NEW k \in Steps, InTurns(k), NEW o \in Ranks
  PROVE  \/ EntriesAt(T, k, o) = 0 /\ o = 0
         \/ \E j \in Steps, q \in Ranks :
               /\ InTurns(j) /\ NextRank(q) = o
               /\ EntriesAt(T, j, q) + 2 = EntriesAt(T, k, o)
               /\ CallsAt(C, j, q) < CallsAt(C, k, o)
<1>1. /\ NRanks \in Nat /\ NRanks >= 1 /\ o \in 0 .. NRanks - 1 /\ Ranks = 0 .. NRanks - 1
      /\ k \in 0 .. Len(script) + 1 /\ NRanks - 1 \in Ranks
  BY RanksAreNumbers DEF Steps
<1>2. PICK t \in Nat : t = T[k]
  BY <1>1, CountsAreNumbers
<1>3. CASE o > 0
  <2>1. o - 1 \in Ranks /\ NextRank(o - 1) = o /\ o - 1 < o
    BY <1>1, <1>3 DEF NextRank
  <2>2. 2 * (t + (o - 1)) + 2 = 2 * (t + o)
    BY <1>1, <1>3
  <2>3. EntriesAt(T, k, o - 1) + 2 = EntriesAt(T, k, o)
    BY <1>2, <2>2 DEF EntriesAt
  <2>4. CallsAt(C, k, o - 1) < CallsAt(C, k, o)
    BY <2>1, TurnNumbers
  <2> QED BY <2>1, <2>3, <2>4
<1>4. CASE o = 0 /\ T[k] = 0
  BY <1>4 DEF EntriesAt
<1>5. CASE o = 0 /\ T[k] # 0
  <2>1. PICK j \in 0 .. k - 1 : InTurns(j) /\ T[j] + NRanks = T[k]
    BY <1>1, <1>5 DEF Counts
  <2>2. j \in Steps /\ j < k /\ j \in 0 .. Len(script) + 1
    BY <2>1 DEF Steps
  <2>3. PICK u \in Nat : u = T[j]
    BY <1>1, <2>2, CountsAreNumbers
  <2>4. 2 * (u + (NRanks - 1)) + 2 = 2 * (t + 0)
    <3>1. u + NRanks = t
      BY <1>2, <2>1, <2>3
    <3> QED BY <1>1, <3>1
  <2>5. EntriesAt(T, j, NRanks - 1) + 2 = EntriesAt(T, k, o)
    BY <1>2, <1>5, <2>3, <2>4 DEF EntriesAt
  <2>6. CallsAt(C, j, NRanks - 1) < CallsAt(C, k, o)
    BY <1>1, <2>1, <2>2, LaterLoop
  <2>7. NextRank(NRanks - 1) = o
    BY <1>5 DEF NextRank
  <2> QED BY <1>1, <2>1, <2>2, <2>5, <2>6, <2>7
<1> QED BY <1>1, <1>3, <1>4, <1>5

\* A call more.
LEMMA OneMoreCall ==
  ASSUME TurnsTyped, NEW r \in Ranks, NEW call, Call(r, call)
  PROVE  /\ Latest(r) \in Nat /\ Latest(r)' = Latest(r) + 1
         /\ calls'[r][Latest(r)'] = call
         /\ \A s \in Ranks \ {r} : Latest(s)' = Latest(s) /\ calls'[s] = calls[s]
         /\ calls' = [s \in Ranks |-> calls'[s]]
         /\ \A s \in Ranks : \E S : calls'[s] \in Seq(S)
<1>1. /\ calls' = [calls EXCEPT ![r] = Append(@, call)]
      /\ calls = [s \in Ranks |-> calls[s]]
  BY DEF Call, TurnsTyped
<1>2. PICK S : calls[r] \in Seq(S)
  BY DEF TurnsTyped
<1>3. calls'[r] = Append(calls[r], call) /\ \A s \in Ranks \ {r} : calls'[s] = calls[s]
  BY <1>1
<1>4. calls[r] \in Seq(S \cup {call})
  BY <1>2
<1>5. Append(calls[r], call) \in Seq(S \cup {call})
      /\ Len(Append(calls[r], call)) = Len(calls[r]) + 1 /\ Len(calls[r]) \in Nat
      /\ Append(calls[r], call)[Len(calls[r]) + 1] = call
  BY <1>4
<1>6. \A s \in Ranks : \E U : calls'[s] \in Seq(U)
  BY <1>3, <1>5 DEF TurnsTyped
<1> QED BY <1>1, <1>3, <1>5, <1>6 DEF Latest

\* What all ranks know of the numbers in a state.
LEMMA StateNumbers ==
  ASSUME LInv, TurnsTyped
  PROVE  /\ Len(script) \in Nat /\ Len(log) \in Nat
         /\ \A r \in Ranks : /\ Latest(r) \in Nat /\ nDone[r] \in 0 .. Len(script)
                             /\ iRank[r] \in 0 .. NRanks
<1>1. Len(script) \in Nat
  BY DEF LInv, ScriptTyped
<1>2. Len(log) \in Nat
  BY DEF TurnsTyped
<1>3. ASSUME NEW r \in Ranks PROVE Latest(r) \in Nat
  <2>1. PICK S : calls[r] \in Seq(S)
    BY DEF TurnsTyped
  <2> QED BY <2>1 DEF Latest
<1>4. \A r \in Ranks : nDone[r] \in 0 .. Len(script)
  BY <1>1 DEF LInv, RanksTyped
<1> QED BY <1>1, <1>2, <1>3, <1>4 DEF TurnsTyped

\* No count is above the last.
LEMMA UpToTheEnd ==
  ASSUME Len(script) \in Nat, NEW C, NEW T, Counts(C, T), NEW j \in Steps
  PROVE  C[j] + StepCalls(j) <= C[Len(script) + 1] /\ T[j] + StepTurns(j) <= T[Len(script) + 1]
<1>1. j \in 0 .. (Len(script) + 1) - 1 /\ Len(script) + 1 \in 0 .. Len(script) + 1
  BY DEF Steps
<1> QED BY <1>1 DEF Counts

\* What the program is, as long as it is not written further.
LEMMA SameProgram ==
  ASSUME UNCHANGED <<script, env>>
  PROVE  /\ Waiting' = Waiting /\ Steps' = Steps
         /\ \A k : /\ (InTurns(k)' <=> InTurns(k))
                   /\ StepCalls(k)' = StepCalls(k) /\ StepTurns(k)' = StepTurns(k)
         /\ \A C, T : Counts(C, T)' <=> Counts(C, T)
<1>1. Waiting' = Waiting /\ Steps' = Steps
  BY DEF Waiting, Steps
<1>2. \A k : InTurns(k)' <=> InTurns(k)
  BY <1>1 DEF InTurns
<1>3. \A k : StepCalls(k)' = StepCalls(k) /\ StepTurns(k)' = StepTurns(k)
  BY <1>1, <1>2 DEF StepCalls, StepTurns
<1> QED BY <1>1, <1>2, <1>3 DEF Counts

\* A rank that nothing happens to stays where it is.
LEMMA PlacedKept ==
  ASSUME NEW s, NEW C, UNCHANGED <<script, env>>, Placed(s, C),
         pc'[s] = pc[s], return'[s] = return[s], nDone'[s] = nDone[s],
         iRank'[s] = iRank[s], waitToAttachDebugger'[s] = waitToAttachDebugger[s],
         calls'[s] = calls[s]
  PROVE  Placed(s, C)' /\ LoopStep(s)' = LoopStep(s)
<1>1. LoopStep(s)' = LoopStep(s) /\ Latest(s)' = Latest(s)
  BY DEF LoopStep, Latest
<1>2. Waiting' = Waiting /\ StepCalls(0)' = StepCalls(0) /\ \A k : InTurns(k)' <=> InTurns(k)
  BY SameProgram
<1>3. PlacedLooping(s, C)' <=> PlacedLooping(s, C)
  BY <1>1, <1>2 DEF PlacedLooping
<1>4. PlacedOutside(s, C)' <=> PlacedOutside(s, C)
  BY <1>1, <1>2 DEF PlacedOutside
<1> QED BY <1>1, <1>3, <1>4 DEF Placed

------------------------------------------------------------------------------
(* The steps, by what they do to the calls and to the log.                 *)

\* Ranks move, and none calls or takes a turn.
LEMMA QuietSteps ==
  ASSUME NEW C, NEW T, Facts(C, T), UNCHANGED <<calls, log, script, env>>,
         \A s \in Ranks : Placed(s, C)',
         \A s \in Ranks : pc'[s] \in {"barrier", "turn"} =>
             pc'[s] = pc[s] /\ iRank'[s] = iRank[s] /\ LoopStep(s)' = LoopStep(s),
         \A s \in Ranks : pc'[s] \notin {"barrier", "turn", "dead", "fault"} =>
             \/ pc[s] \notin {"barrier", "turn", "dead", "fault"}
             \/ \A k \in Steps : InTurns(k) => CallsAt(C, k, s) + 1 # Latest(s)
  PROVE  Facts(C, T)'
<1>1. /\ Steps' = Steps /\ Counts(C, T)' /\ \A k : InTurns(k)' <=> InTurns(k)
      /\ \A s : Latest(s)' = Latest(s)
  BY SameProgram DEF Facts, Latest
<1>2. \A s \in Ranks : OwnTurnsOver(s, C, T)'
  BY <1>1 DEF Facts, OwnTurnsOver
<1>3. \A s \in Ranks : OwnTurnNow(s, T)'
  BY DEF Facts, OwnTurnNow
<1>4. BegunTogether(C, T)' /\ Logged(T)' /\ Bounded(C, T)'
  BY <1>1 DEF Facts, BegunTogether, Logged, Bounded
<1>5. Chained'
  BY DEF Facts, Chained, NextInTurn
<1> QED BY <1>1, <1>2, <1>3, <1>4, <1>5 DEF Facts

\* A rank calls; if it waits for a turn of its own, it is its next call.
LEMMA CallingStep ==
  ASSUME LInv, TurnsTyped, NEW C, NEW T, Facts(C, T), NEW r \in Ranks, NEW call, NEW there,
         Call(r, call), pc' = [pc EXCEPT ![r] = there],
         UNCHANGED <<log, script, env, iRank, return, nDone, waitToAttachDebugger>>,
         pc[r] \notin {"barrier", "turn", "dead", "fault"}, there # "turn",
         Placed(r, C)',
         Latest(r) + 1 <= C[Len(script) + 1],
         there = "barrier" => LoopStep(r) \in Steps /\ InTurns(LoopStep(r))
                               /\ Latest(r) = CallsAt(C, LoopStep(r), iRank[r]),
         there # "barrier" => \A k \in Steps : InTurns(k) => CallsAt(C, k, r) # Latest(r)
  PROVE  Facts(C, T)'
<1>1. /\ Steps' = Steps /\ Counts(C, T) /\ Counts(C, T)' /\ \A k : InTurns(k)' <=> InTurns(k)
  BY SameProgram DEF Facts
<1>2. /\ Latest(r)' = Latest(r) + 1 /\ Latest(r) \in Nat
      /\ \A s \in Ranks \ {r} : Latest(s)' = Latest(s) /\ calls'[s] = calls[s]
  BY OneMoreCall
<1>3. pc'[r] = there /\ \A s \in Ranks \ {r} : pc'[s] = pc[s]
  BY DEF LInv, RanksTyped
<1>4. /\ Len(script) \in Nat /\ Len(log) \in Nat /\ Ranks = 0 .. NRanks - 1 /\ NRanks \in Nat
      /\ \A s \in Ranks : Latest(s) \in Nat
  BY StateNumbers, RanksAreNumbers
<1>5. \A k \in Steps : \A o \in Ranks :
         InTurns(k) => CallsAt(C, k, o) \in Nat /\ EntriesAt(T, k, o) \in Nat
  BY <1>1, <1>4, TurnNumbers
<1>6. \A s \in Ranks : Placed(s, C)' /\ LoopStep(s)' = LoopStep(s)
  <2>1. ASSUME NEW s \in Ranks \ {r} PROVE Placed(s, C)'
    BY <1>2, <1>3, PlacedKept DEF Facts
  <2> QED BY <2>1 DEF LoopStep
<1>7. ASSUME NEW s \in Ranks PROVE OwnTurnsOver(s, C, T)'
  <2>1. CASE s # r
    BY <1>1, <1>2, <1>3, <2>1 DEF Facts, OwnTurnsOver
  <2>2. CASE s = r
    <3>1. SUFFICES ASSUME NEW k \in Steps, InTurns(k),
                          \/ CallsAt(C, k, r) + 1 < Latest(r) + 1
                          \/ /\ CallsAt(C, k, r) + 1 = Latest(r) + 1
                             /\ there \notin {"barrier", "turn", "dead", "fault"}
                   PROVE  EntriesAt(T, k, r) + 2 <= Len(log)
      BY <1>1, <1>2, <1>3, <2>2 DEF OwnTurnsOver
    <3>2. CallsAt(C, k, r) \in Nat
      BY <1>5, <3>1
    <3>3. CallsAt(C, k, r) # Latest(r) \/ there = "barrier"
      BY <3>1
    <3>4. CallsAt(C, k, r) + 1 < Latest(r) + 1
      BY <1>2, <3>1, <3>2, <3>3
    <3>5. CallsAt(C, k, r) + 1 < Latest(r) \/ CallsAt(C, k, r) + 1 = Latest(r)
      BY <1>2, <3>2, <3>4
    <3> QED BY <3>1, <3>5 DEF Facts, OwnTurnsOver
  <2> QED BY <2>1, <2>2
<1>8. ASSUME NEW s \in Ranks PROVE OwnTurnNow(s, T)'
  <2>1. CASE s # r
    BY <1>3, <1>6, <2>1 DEF Facts, OwnTurnNow
  <2>2. CASE s = r
    <3>1. SUFFICES ASSUME there = "barrier", iRank[r] = r
                   PROVE  Len(log) <= EntriesAt(T, LoopStep(r), r)
      BY <1>3, <1>6, <2>2 DEF OwnTurnNow
    <3> DEFINE k == LoopStep(r)
    <3>2. k \in Steps /\ InTurns(k) /\ Latest(r) = CallsAt(C, k, r)
      BY <3>1
    <3>3. EntriesAt(T, k, r) \in Nat /\ CallsAt(C, k, r) \in Nat
      BY <1>5, <3>2
    <3>4. EntriesAt(T, k, r) + 1 <= Len(log) => CallsAt(C, k, r) + 1 <= Latest(r)
      BY <3>2 DEF Facts, BegunTogether
    <3> HIDE DEF k
    <3>5. ~(EntriesAt(T, k, r) + 1 <= Len(log))
      BY <3>2, <3>3, <3>4
    <3>6. Len(log) <= EntriesAt(T, k, r)
      BY <1>4, <3>3, <3>5
    <3> QED BY <3>6 DEF k
  <2> QED BY <2>1, <2>2
<1>9. \A s \in Ranks : Latest(s) <= Latest(s)' /\ Latest(s)' \in Nat
  BY <1>2, <1>4
<1>10. BegunTogether(C, T)'
  <2>1. SUFFICES ASSUME NEW k \in Steps, NEW o \in Ranks, InTurns(k),
                        EntriesAt(T, k, o) + 1 <= Len(log), NEW s \in Ranks
                 PROVE  CallsAt(C, k, o) + 1 <= Latest(s)'
    BY <1>1 DEF BegunTogether
  <2>2. CallsAt(C, k, o) + 1 <= Latest(s)
    BY <2>1 DEF Facts, BegunTogether
  <2>3. CallsAt(C, k, o) \in Nat /\ Latest(s) \in Nat /\ Latest(s)' \in Nat
    BY <1>4, <1>5, <1>9, <2>1
  <2> QED BY <1>9, <2>2, <2>3
<1>11. Logged(T)' /\ Chained'
  BY <1>1 DEF Facts, Logged, Chained, NextInTurn
<1>12. Bounded(C, T)'
  BY <1>2 DEF Facts, Bounded
<1> QED BY <1>1, <1>6, <1>7, <1>8, <1>10, <1>11, <1>12 DEF Facts

\* The log grows by what comes next.
LEMMA ChainGrows ==
  ASSUME TurnsTyped, Chained, NEW turn \in Turns, log' = Append(log, turn),
         turn = IF Len(log) = 0 THEN [rank |-> 0, is |-> "begin"] ELSE NextInTurn(log[Len(log)])
  PROVE  Chained'
<1>1. /\ Len(log) \in Nat /\ Len(log') = Len(log) + 1 /\ log'[Len(log) + 1] = turn
      /\ \A i \in 1 .. Len(log) : log'[i] = log[i]
  BY DEF TurnsTyped
<1>2. SUFFICES ASSUME NEW i \in 1 .. Len(log) + 1
               PROVE  log'[i] = IF i = 1 THEN [rank |-> 0, is |-> "begin"]
                                ELSE NextInTurn(log'[i - 1])
  BY <1>1 DEF Chained, NextInTurn
<1>3. CASE i \in 1 .. Len(log)
  <2>1. log'[i] = log[i] /\ (i # 1 => log'[i - 1] = log[i - 1])
    BY <1>1, <1>3
  <2> QED BY <1>3, <2>1 DEF Chained
<1>4. CASE i = Len(log) + 1 /\ Len(log) = 0
  BY <1>1, <1>4
<1>5. CASE i = Len(log) + 1 /\ Len(log) # 0
  <2>1. i # 1 /\ i - 1 = Len(log) /\ Len(log) \in 1 .. Len(log)
    BY <1>1, <1>5
  <2> QED BY <1>1, <1>5, <2>1
<1> QED BY <1>1, <1>3, <1>4, <1>5

\* A rank in a loop on ranks.
LEMMA InLoop ==
  ASSUME LInv, TurnsTyped, NEW C, NEW T, Facts(C, T), NEW r \in Ranks,
         pc[r] \in {"loop", "barrier", "turn"}
  PROVE  /\ PlacedLooping(r, C)
         /\ LoopStep(r) \in Steps /\ InTurns(LoopStep(r))
         /\ CallsAt(C, LoopStep(r), r) \in Nat /\ EntriesAt(T, LoopStep(r), r) \in Nat
<1>1. PlacedLooping(r, C)
  BY DEF Facts, Placed, PlacedOutside
<1>2. InTurns(LoopStep(r))
  BY <1>1 DEF PlacedLooping
<1>3. Len(script) \in Nat /\ Counts(C, T)
  BY StateNumbers DEF Facts
<1>4. LoopStep(r) \in Steps
  BY <1>2, <1>3 DEF InTurns, Steps
<1> QED BY <1>1, <1>2, <1>3, <1>4, TurnNumbers

\* When the barrier of a turn returns, all turns before it are over.
LEMMA TurnsBeforeOver ==
  ASSUME LInv, TurnsTyped, NEW C, NEW T, Facts(C, T), NEW r \in Ranks,
         NEW k \in Steps, InTurns(k), \A s \in Ranks : CallsAt(C, k, r) + 1 <= Latest(s)
  PROVE  EntriesAt(T, k, r) <= Len(log)
<1>1. /\ Len(script) \in Nat /\ Len(log) \in Nat /\ Counts(C, T)
      /\ \A s \in Ranks : Latest(s) \in Nat
  BY StateNumbers DEF Facts
<1>2. CallsAt(C, k, r) \in Nat
  BY <1>1, TurnNumbers
<1>3. CASE EntriesAt(T, k, r) = 0
  BY <1>1, <1>3
<1>4. CASE EntriesAt(T, k, r) # 0
  <2>1. PICK j \in Steps, q \in Ranks :
           /\ InTurns(j)
           /\ EntriesAt(T, j, q) + 2 = EntriesAt(T, k, r)
           /\ CallsAt(C, j, q) < CallsAt(C, k, r)
    BY <1>1, <1>4, TurnBefore
  <2>2. CallsAt(C, j, q) \in Nat
    BY <1>1, <2>1, TurnNumbers
  <2>3. CallsAt(C, j, q) + 1 < Latest(q)
    BY <1>1, <1>2, <2>1, <2>2
  <2>4. EntriesAt(T, j, q) + 2 <= Len(log)
    BY <2>1, <2>3 DEF Facts, OwnTurnsOver
  <2> QED BY <2>1, <2>4
<1> QED BY <1>3, <1>4

\* An owner takes its turn.
LEMMA TurnBegins ==
  ASSUME LInv, TurnsTyped, NEW C, NEW T, Facts(C, T), NEW r \in Ranks,
         TakeTurn(r), iRank[r] = r
  PROVE  Facts(C, T)'
<1> DEFINE k == LoopStep(r)
           begin == [rank |-> r, is |-> "begin"]
<1>1. /\ pc[r] = "barrier" /\ pc' = [pc EXCEPT ![r] = "turn"]
      /\ log' = Append(log, begin) /\ begin \in Turns
      /\ UNCHANGED <<calls, script, env, iRank, return, nDone, waitToAttachDebugger>>
      /\ Returns(r)
  BY DEF TakeTurn, Goes, Turns
<1>2. /\ k \in Steps /\ InTurns(k) /\ PlacedLooping(r, C)
      /\ CallsAt(C, k, r) \in Nat /\ EntriesAt(T, k, r) \in Nat
  BY <1>1, InLoop
<1>3. Latest(r) = CallsAt(C, k, r) + 1 /\ calls[r][Latest(r)].kind = "barrier"
  BY <1>1, <1>2 DEF PlacedLooping
<1> HIDE DEF k
<1>4. /\ Len(script) \in Nat /\ Len(log) \in Nat /\ Counts(C, T)
      /\ \A s \in Ranks : Latest(s) \in Nat
  BY StateNumbers DEF Facts
<1>5. \A s \in Ranks : CallsAt(C, k, r) + 1 <= Latest(s)
  <2>1. \A s \in Ranks : Meets(r, s)
    BY <1>1, <1>3 DEF Returns
  <2>2. \A s \in Ranks : Latest(s) >= Latest(r)
    BY <2>1 DEF Meets, Latest
  <2> QED BY <1>2, <1>3, <1>4, <2>2
<1>6. Len(log) = EntriesAt(T, k, r)
  <2>1. Len(log) <= EntriesAt(T, k, r)
    BY <1>1 DEF Facts, OwnTurnNow, k
  <2>2. EntriesAt(T, k, r) <= Len(log)
    BY <1>2, <1>5, TurnsBeforeOver
  <2> QED BY <1>2, <1>4, <2>1, <2>2
<1>7. /\ Len(log') = Len(log) + 1 /\ log'[Len(log) + 1] = begin
      /\ \A i \in 1 .. Len(log) : log'[i] = log[i]
  BY <1>1 DEF TurnsTyped
<1>8. /\ Steps' = Steps /\ Counts(C, T)' /\ \A j : InTurns(j)' <=> InTurns(j)
      /\ \A s : Latest(s)' = Latest(s) /\ LoopStep(s)' = LoopStep(s)
  BY <1>1, <1>4, SameProgram DEF Latest, LoopStep
<1>9. pc'[r] = "turn" /\ \A s \in Ranks \ {r} : pc'[s] = pc[s]
  BY <1>1 DEF LInv, RanksTyped
<1>10. ASSUME NEW s \in Ranks PROVE Placed(s, C)'
  <2>1. CASE s # r
    BY <1>1, <1>9, <2>1, PlacedKept DEF Facts
  <2>2. CASE s = r
    <3>1. PlacedLooping(r, C)'
      BY <1>1, <1>2, <1>8, <1>9 DEF PlacedLooping
    <3> QED BY <2>2, <3>1 DEF Placed
  <2> QED BY <2>1, <2>2
<1>11. ASSUME NEW j \in Steps, InTurns(j), NEW o \in Ranks
       PROVE  /\ CallsAt(C, j, o) \in Nat /\ EntriesAt(T, j, o) \in Nat
              /\ \/ j = k /\ o = r
                 \/ /\ CallsAt(C, j, o) < CallsAt(C, k, r)
                    /\ EntriesAt(T, j, o) + 2 <= Len(log)
                 \/ /\ CallsAt(C, k, r) < CallsAt(C, j, o)
                    /\ Len(log) + 2 <= EntriesAt(T, j, o)
  <2>1. CallsAt(C, j, o) \in Nat /\ EntriesAt(T, j, o) \in Nat
    BY <1>4, <1>11, TurnNumbers
  <2> QED BY <1>2, <1>4, <1>6, <1>11, <2>1, SameOrder
<1>12. ASSUME NEW s \in Ranks PROVE OwnTurnsOver(s, C, T)'
  <2>1. SUFFICES ASSUME NEW j \in Steps, InTurns(j),
                        \/ CallsAt(C, j, s) + 1 < Latest(s)
                        \/ CallsAt(C, j, s) + 1 = Latest(s)
                             /\ pc'[s] \notin {"barrier", "turn", "dead", "fault"}
                 PROVE  EntriesAt(T, j, s) + 2 <= Len(log) + 1
    BY <1>7, <1>8 DEF OwnTurnsOver
  <2>2. pc'[s] \notin {"barrier", "turn", "dead", "fault"} =>
           pc[s] \notin {"barrier", "turn", "dead", "fault"}
    BY <1>9
  <2>3. EntriesAt(T, j, s) + 2 <= Len(log)
    BY <2>1, <2>2 DEF Facts, OwnTurnsOver
  <2>4. EntriesAt(T, j, s) \in Nat
    BY <1>11, <2>1
  <2> QED BY <1>4, <2>3, <2>4
<1>13. ASSUME NEW s \in Ranks PROVE OwnTurnNow(s, T)'
  <2>1. CASE s = r
    BY <1>1, <1>6, <1>7, <1>8, <1>9, <2>1 DEF OwnTurnNow, k
  <2>2. CASE s # r /\ pc[s] \in {"barrier", "turn"}
    <3> DEFINE j == LoopStep(s)
    <3>1. /\ j \in Steps /\ InTurns(j) /\ PlacedLooping(s, C)
          /\ CallsAt(C, j, s) \in Nat /\ EntriesAt(T, j, s) \in Nat
      BY <2>2, InLoop
    <3>2. iRank[s] = s => Latest(s) = CallsAt(C, j, s) + 1
      BY <2>2, <3>1 DEF PlacedLooping
    <3>3. pc[s] = "barrier" /\ iRank[s] = s => Len(log) <= EntriesAt(T, j, s)
      BY DEF Facts, OwnTurnNow
    <3>4. pc[s] = "turn" => iRank[s] = s /\ Len(log) = EntriesAt(T, j, s) + 1
      BY DEF Facts, OwnTurnNow
    <3> HIDE DEF j
    <3>5. iRank[s] = s => Len(log) + 2 <= EntriesAt(T, j, s)
      <4>1. ASSUME iRank[s] = s PROVE ~(CallsAt(C, j, s) < CallsAt(C, k, r))
        BY <1>2, <1>5, <3>1, <3>2, <4>1
      <4> QED BY <1>11, <2>2, <3>1, <4>1
    <3>6. pc[s] # "turn"
      BY <1>4, <3>1, <3>4, <3>5
    <3>7. iRank[s] = s => Len(log) + 1 <= EntriesAt(T, j, s)
      BY <1>4, <3>1, <3>5
    <3> QED BY <1>1, <1>7, <1>8, <1>9, <2>2, <3>6, <3>7 DEF OwnTurnNow, j
  <2>3. CASE s # r /\ pc[s] \notin {"barrier", "turn"}
    BY <1>9, <2>3 DEF OwnTurnNow
  <2> QED BY <2>1, <2>2, <2>3
<1>14. BegunTogether(C, T)'
  <2>1. SUFFICES ASSUME NEW j \in Steps, NEW o \in Ranks, InTurns(j),
                        EntriesAt(T, j, o) + 1 <= Len(log) + 1, NEW s \in Ranks
                 PROVE  CallsAt(C, j, o) + 1 <= Latest(s)
    BY <1>7, <1>8 DEF BegunTogether
  <2>2. CallsAt(C, j, o) \in Nat /\ EntriesAt(T, j, o) \in Nat
    BY <1>11, <2>1
  <2>3. CASE j = k /\ o = r
    BY <1>5, <2>3
  <2>4. CASE EntriesAt(T, j, o) + 2 <= Len(log)
    <3>1. EntriesAt(T, j, o) + 1 <= Len(log)
      BY <1>4, <2>2, <2>4
    <3> QED BY <2>1, <3>1 DEF Facts, BegunTogether
  <2>5. CASE Len(log) + 2 <= EntriesAt(T, j, o)
    BY <1>4, <2>1, <2>2, <2>5
  <2> QED BY <1>11, <2>1, <2>3, <2>4, <2>5
<1>15. Logged(T)'
  <2>1. SUFFICES ASSUME NEW j \in Steps, NEW o \in Ranks, InTurns(j)
                 PROVE  /\ EntriesAt(T, j, o) + 1 <= Len(log) + 1 =>
                             log'[EntriesAt(T, j, o) + 1] = [rank |-> o, is |-> "begin"]
                        /\ EntriesAt(T, j, o) + 2 <= Len(log) + 1 =>
                             log'[EntriesAt(T, j, o) + 2] = [rank |-> o, is |-> "end"]
    BY <1>7, <1>8 DEF Logged
  <2>2. EntriesAt(T, j, o) \in Nat
    BY <1>11, <2>1
  <2>3. CASE j = k /\ o = r
    <3>1. EntriesAt(T, j, o) = Len(log)
      BY <1>6, <2>3
    <3>2. ~(EntriesAt(T, j, o) + 2 <= Len(log) + 1)
      BY <1>4, <3>1
    <3> QED BY <1>7, <2>3, <3>1, <3>2
  <2>4. CASE EntriesAt(T, j, o) + 2 <= Len(log)
    <3>1. /\ EntriesAt(T, j, o) + 1 \in 1 .. Len(log) /\ EntriesAt(T, j, o) + 2 \in 1 .. Len(log)
          /\ EntriesAt(T, j, o) + 1 <= Len(log)
      BY <1>4, <2>2, <2>4
    <3>2. /\ log[EntriesAt(T, j, o) + 1] = [rank |-> o, is |-> "begin"]
          /\ log[EntriesAt(T, j, o) + 2] = [rank |-> o, is |-> "end"]
      BY <2>1, <2>4, <3>1 DEF Facts, Logged
    <3> QED BY <1>7, <3>1, <3>2
  <2>5. CASE Len(log) + 2 <= EntriesAt(T, j, o)
    BY <1>4, <2>2, <2>5
  <2> QED BY <1>11, <2>1, <2>3, <2>4, <2>5
<1>16. Bounded(C, T)'
  <2>1. EntriesAt(T, k, r) + 2 <= 2 * T[Len(script) + 1] /\ 2 * T[Len(script) + 1] \in Nat
    BY <1>2, <1>4, TurnNumbers
  <2>2. Len(log) + 1 <= 2 * T[Len(script) + 1]
    BY <1>4, <1>6, <2>1
  <2> QED BY <1>1, <1>7, <1>8, <2>2 DEF Facts, Bounded
<1>17. begin = IF Len(log) = 0 THEN [rank |-> 0, is |-> "begin"] ELSE NextInTurn(log[Len(log)])
  <2>1. CASE EntriesAt(T, k, r) = 0
    <3>1. r = 0
      <4>1. ASSUME NEW j \in Steps, NEW q \in Ranks, InTurns(j)
            PROVE  EntriesAt(T, j, q) + 2 # 0
        BY <1>4, <4>1, TurnNumbers
      <4> QED BY <1>2, <1>4, <2>1, <4>1, TurnBefore
    <3> QED BY <1>6, <2>1, <3>1
  <2>2. CASE EntriesAt(T, k, r) # 0
    <3>1. PICK j \in Steps, q \in Ranks :
             InTurns(j) /\ NextRank(q) = r /\ EntriesAt(T, j, q) + 2 = EntriesAt(T, k, r)
      BY <1>2, <1>4, <2>2, TurnBefore
    <3>2. EntriesAt(T, j, q) + 2 = Len(log) /\ Len(log) <= Len(log)
      BY <1>4, <1>6, <3>1
    <3>3. log[Len(log)] = [rank |-> q, is |-> "end"]
      BY <3>1, <3>2 DEF Facts, Logged
    <3> QED BY <1>6, <2>2, <3>1, <3>3 DEF NextInTurn
  <2> QED BY <2>1, <2>2
<1>18. Chained'
  BY <1>1, <1>4, <1>17, ChainGrows DEF Facts
<1> QED BY <1>8, <1>10, <1>12, <1>13, <1>14, <1>15, <1>16, <1>18 DEF Facts

\* An owner ends its turn.
LEMMA TurnEnds ==
  ASSUME LInv, TurnsTyped, NEW C, NEW T, Facts(C, T), NEW r \in Ranks, EndTurn(r)
  PROVE  Facts(C, T)' /\ iRank[r] < NRanks
<1> DEFINE k == LoopStep(r)
           end == [rank |-> r, is |-> "end"]
<1>1. /\ pc[r] = "turn" /\ pc' = [pc EXCEPT ![r] = "loop"]
      /\ log' = Append(log, end) /\ end \in Turns
      /\ iRank' = [iRank EXCEPT ![r] = @ + 1]
      /\ UNCHANGED <<calls, script, env, return, nDone, waitToAttachDebugger>>
  BY DEF EndTurn, Goes, Turns
<1>2. /\ k \in Steps /\ InTurns(k) /\ PlacedLooping(r, C)
      /\ CallsAt(C, k, r) \in Nat /\ EntriesAt(T, k, r) \in Nat
  BY <1>1, InLoop
<1>3. iRank[r] = r /\ Len(log) = EntriesAt(T, k, r) + 1
  BY <1>1 DEF Facts, OwnTurnNow
<1>4. Latest(r) = CallsAt(C, k, r) + 1 /\ iRank[r] < NRanks
  BY <1>1, <1>2, <1>3 DEF PlacedLooping
<1> HIDE DEF k
<1>5. /\ Len(script) \in Nat /\ Len(log) \in Nat /\ Counts(C, T) /\ r \in Nat
      /\ \A s \in Ranks : Latest(s) \in Nat
  BY StateNumbers, RanksAreNumbers DEF Facts
<1>6. /\ Len(log') = Len(log) + 1 /\ log'[Len(log) + 1] = end
      /\ \A i \in 1 .. Len(log) : log'[i] = log[i]
  BY <1>1 DEF TurnsTyped
<1>7. /\ Steps' = Steps /\ Counts(C, T)' /\ \A j : InTurns(j)' <=> InTurns(j)
      /\ \A s : Latest(s)' = Latest(s) /\ LoopStep(s)' = LoopStep(s)
  BY <1>1, <1>5, SameProgram DEF Latest, LoopStep
<1>8. /\ pc'[r] = "loop" /\ iRank'[r] = r + 1
      /\ \A s \in Ranks \ {r} : pc'[s] = pc[s] /\ iRank'[s] = iRank[s]
  BY <1>1, <1>3 DEF LInv, RanksTyped, TurnsTyped
<1>9. ASSUME NEW s \in Ranks PROVE Placed(s, C)'
  <2>1. CASE s # r
    BY <1>1, <1>8, <2>1, PlacedKept DEF Facts
  <2>2. CASE s = r
    <3>1. CallsAt(C, k, r + 1) = CallsAt(C, k, r) + 1
      <4>1. PICK c \in Nat : c = C[k]
        BY <1>2, <1>5, CountsAreNumbers DEF Steps
      <4> QED BY <1>5, <4>1 DEF CallsAt
    <3>2. CallsAt(C, k, r + 1) \in Nat
      BY <1>2, <3>1
    <3>3. Latest(r)' = CallsAt(C, LoopStep(r), iRank'[r]) + 0
      BY <1>2, <1>4, <1>7, <1>8, <3>1, <3>2 DEF k
    <3>4. PlacedLooping(r, C)'
      BY <1>1, <1>2, <1>7, <1>8, <3>3 DEF PlacedLooping
    <3> QED BY <2>2, <3>4 DEF Placed
  <2> QED BY <2>1, <2>2
<1>10. ASSUME NEW j \in Steps, InTurns(j), NEW o \in Ranks
       PROVE  /\ CallsAt(C, j, o) \in Nat /\ EntriesAt(T, j, o) \in Nat
              /\ \/ j = k /\ o = r
                 \/ /\ CallsAt(C, j, o) < CallsAt(C, k, r)
                    /\ EntriesAt(T, j, o) + 3 <= Len(log)
                 \/ /\ CallsAt(C, k, r) < CallsAt(C, j, o)
                    /\ Len(log) + 1 <= EntriesAt(T, j, o)
  <2>1. CallsAt(C, j, o) \in Nat /\ EntriesAt(T, j, o) \in Nat
    BY <1>5, <1>10, TurnNumbers
  <2>2. \/ j = k /\ o = r
        \/ /\ CallsAt(C, j, o) < CallsAt(C, k, r)
           /\ EntriesAt(T, j, o) + 2 <= EntriesAt(T, k, r)
        \/ /\ CallsAt(C, k, r) < CallsAt(C, j, o)
           /\ EntriesAt(T, k, r) + 2 <= EntriesAt(T, j, o)
    BY <1>2, <1>5, <1>10, SameOrder
  <2>3. EntriesAt(T, j, o) + 2 <= EntriesAt(T, k, r) => EntriesAt(T, j, o) + 3 <= Len(log)
    BY <1>2, <1>3, <2>1
  <2>4. EntriesAt(T, k, r) + 2 <= EntriesAt(T, j, o) => Len(log) + 1 <= EntriesAt(T, j, o)
    BY <1>2, <1>3, <2>1
  <2> QED BY <2>1, <2>2, <2>3, <2>4
<1>11. ASSUME NEW s \in Ranks PROVE OwnTurnsOver(s, C, T)'
  <2>1. SUFFICES ASSUME NEW j \in Steps, InTurns(j),
                        \/ CallsAt(C, j, s) + 1 < Latest(s)
                        \/ CallsAt(C, j, s) + 1 = Latest(s)
                             /\ pc'[s] \notin {"barrier", "turn", "dead", "fault"}
                 PROVE  EntriesAt(T, j, s) + 2 <= Len(log) + 1
    BY <1>6, <1>7 DEF OwnTurnsOver
  <2>2. EntriesAt(T, j, s) \in Nat /\ CallsAt(C, j, s) \in Nat
    BY <1>10, <2>1
  <2>3. CASE EntriesAt(T, j, s) + 2 <= Len(log)
    BY <1>5, <2>2, <2>3
  <2>4. CASE s = r /\ j = k
    BY <1>2, <1>3, <2>4
  <2>5. CASE s = r /\ j # k
    <3>1. CallsAt(C, j, r) # CallsAt(C, k, r)
      BY <1>2, <1>10, <2>1, <2>2, <2>5
    <3>2. CallsAt(C, j, r) + 1 < Latest(r)
      BY <1>2, <1>4, <2>1, <2>2, <2>5, <3>1
    <3>3. EntriesAt(T, j, s) + 2 <= Len(log)
      BY <2>1, <2>5, <3>2 DEF Facts, OwnTurnsOver
    <3> QED BY <2>3, <3>3
  <2>6. CASE s # r
    <3>1. EntriesAt(T, j, s) + 2 <= Len(log)
      BY <1>8, <2>1, <2>6 DEF Facts, OwnTurnsOver
    <3> QED BY <2>3, <3>1
  <2> QED BY <2>4, <2>5, <2>6
<1>12. ASSUME NEW s \in Ranks PROVE OwnTurnNow(s, T)'
  <2>1. CASE s = r \/ pc[s] \notin {"barrier", "turn"}
    BY <1>8, <2>1 DEF OwnTurnNow
  <2>2. CASE s # r /\ pc[s] \in {"barrier", "turn"}
    <3> DEFINE j == LoopStep(s)
    <3>1. j \in Steps /\ InTurns(j) /\ EntriesAt(T, j, s) \in Nat
      BY <2>2, InLoop
    <3>2. pc[s] = "barrier" /\ iRank[s] = s => Len(log) <= EntriesAt(T, j, s)
      BY DEF Facts, OwnTurnNow
    <3>3. pc[s] = "turn" => Len(log) = EntriesAt(T, j, s) + 1
      BY DEF Facts, OwnTurnNow
    <3> HIDE DEF j
    <3>4. EntriesAt(T, j, s) + 3 <= Len(log) \/ Len(log) + 1 <= EntriesAt(T, j, s)
      BY <1>10, <2>2, <3>1
    <3>5. pc[s] # "turn"
      BY <1>5, <3>1, <3>3, <3>4
    <3>6. pc[s] = "barrier" /\ iRank[s] = s => Len(log) + 1 <= EntriesAt(T, j, s)
      BY <1>5, <3>1, <3>2, <3>4
    <3> QED BY <1>6, <1>7, <1>8, <2>2, <3>5, <3>6 DEF OwnTurnNow, j
  <2> QED BY <2>1, <2>2
<1>13. BegunTogether(C, T)'
  <2>1. SUFFICES ASSUME NEW j \in Steps, NEW o \in Ranks, InTurns(j),
                        EntriesAt(T, j, o) + 1 <= Len(log) + 1, NEW s \in Ranks
                 PROVE  CallsAt(C, j, o) + 1 <= Latest(s)
    BY <1>6, <1>7 DEF BegunTogether
  <2>2. EntriesAt(T, j, o) \in Nat
    BY <1>10, <2>1
  <2>3. EntriesAt(T, j, o) + 1 <= Len(log)
    <3>1. CASE j = k /\ o = r
      BY <1>2, <1>3, <3>1
    <3>2. CASE EntriesAt(T, j, o) + 3 <= Len(log)
      BY <1>5, <2>2, <3>2
    <3>3. CASE Len(log) + 1 <= EntriesAt(T, j, o)
      BY <1>5, <2>1, <2>2, <3>3
    <3> QED BY <1>10, <2>1, <3>1, <3>2, <3>3
  <2> QED BY <2>1, <2>3 DEF Facts, BegunTogether
<1>14. Logged(T)'
  <2>1. SUFFICES ASSUME NEW j \in Steps, NEW o \in Ranks, InTurns(j)
                 PROVE  /\ EntriesAt(T, j, o) + 1 <= Len(log) + 1 =>
                             log'[EntriesAt(T, j, o) + 1] = [rank |-> o, is |-> "begin"]
                        /\ EntriesAt(T, j, o) + 2 <= Len(log) + 1 =>
                             log'[EntriesAt(T, j, o) + 2] = [rank |-> o, is |-> "end"]
    BY <1>6, <1>7 DEF Logged
  <2>2. EntriesAt(T, j, o) \in Nat
    BY <1>10, <2>1
  <2>3. /\ EntriesAt(T, j, o) + 1 <= Len(log) =>
             log[EntriesAt(T, j, o) + 1] = [rank |-> o, is |-> "begin"]
        /\ EntriesAt(T, j, o) + 2 <= Len(log) =>
             log[EntriesAt(T, j, o) + 2] = [rank |-> o, is |-> "end"]
    BY <2>1 DEF Facts, Logged
  <2>4. CASE j = k /\ o = r
    <3>1. /\ EntriesAt(T, j, o) + 1 = Len(log) /\ EntriesAt(T, j, o) + 2 = Len(log) + 1
          /\ EntriesAt(T, j, o) + 1 \in 1 .. Len(log)
      BY <1>2, <1>3, <2>4
    <3> QED BY <1>5, <1>6, <2>3, <2>4, <3>1
  <2>5. CASE EntriesAt(T, j, o) + 3 <= Len(log)
    <3>1. /\ EntriesAt(T, j, o) + 1 \in 1 .. Len(log) /\ EntriesAt(T, j, o) + 2 \in 1 .. Len(log)
          /\ EntriesAt(T, j, o) + 1 <= Len(log) /\ EntriesAt(T, j, o) + 2 <= Len(log)
      BY <1>5, <2>2, <2>5
    <3> QED BY <1>6, <2>3, <3>1
  <2>6. CASE Len(log) + 1 <= EntriesAt(T, j, o)
    BY <1>5, <2>2, <2>6
  <2> QED BY <1>10, <2>1, <2>4, <2>5, <2>6
<1>15. Bounded(C, T)'
  <2>1. EntriesAt(T, k, r) + 2 <= 2 * T[Len(script) + 1] /\ 2 * T[Len(script) + 1] \in Nat
    BY <1>2, <1>5, TurnNumbers
  <2>2. Len(log) + 1 <= 2 * T[Len(script) + 1]
    BY <1>2, <1>3, <2>1
  <2> QED BY <1>1, <1>6, <1>7, <2>2 DEF Facts, Bounded
<1>16. Chained'
  <2>1. Len(log) # 0 /\ Len(log) <= Len(log) /\ EntriesAt(T, k, r) + 1 <= Len(log)
    BY <1>2, <1>3
  <2>2. log[Len(log)] = [rank |-> r, is |-> "begin"]
    BY <1>2, <1>3, <2>1 DEF Facts, Logged
  <2>3. NextInTurn(log[Len(log)]) = end
    BY <2>2 DEF NextInTurn
  <2> QED BY <1>1, <2>1, <2>3, ChainGrows DEF Facts
<1> QED BY <1>4, <1>7, <1>9, <1>11, <1>12, <1>13, <1>14, <1>15, <1>16 DEF Facts

\* The body gets one operation more.
LEMMA TurnsOfOneMore ==
  ASSUME LInv, TurnsTyped, NEW C, NEW T, Facts(C, T), NEW op \in Ops, Write(op)
  PROVE  \E C2, T2 : /\ Facts(C2, T2)'
                     /\ \A k \in 0 .. Len(script) + 1 : C2[k] = C[k]
<1>1. /\ script' = Append(script, op)
      /\ UNCHANGED <<env, pc, iRank, return, nDone, waitToAttachDebugger, calls, log>>
  BY DEF Write
<1>2. PICK n \in Nat : n = Len(script)
  BY StateNumbers
<1>3. /\ Len(log) \in Nat /\ Counts(C, T) /\ NRanks \in Nat
      /\ \A r \in Ranks : Latest(r) \in Nat /\ nDone[r] \in 0 .. n
  BY <1>2, StateNumbers, RanksAreNumbers DEF Facts
<1>4. Len(script') = n + 1 /\ \A k \in 1 .. n : script'[k] = script[k]
  BY <1>1, <1>2 DEF LInv, ScriptTyped
<1>5. /\ Steps = 0 .. n /\ Steps' = 0 .. n + 1 /\ Waiting' = Waiting
      /\ \A s : Latest(s)' = Latest(s) /\ LoopStep(s)' = LoopStep(s)
  BY <1>1, <1>2, <1>4 DEF Steps, Waiting, Latest, LoopStep
<1>6. \A k \in 0 .. n : /\ InTurns(k)' <=> InTurns(k)
                        /\ StepCalls(k)' = StepCalls(k) /\ StepTurns(k)' = StepTurns(k)
  <2>1. \A k \in 0 .. n : InTurns(k)' <=> InTurns(k)
    BY <1>2, <1>4, <1>5 DEF InTurns
  <2> QED BY <1>2, <1>4, <1>5, <2>1 DEF StepCalls, StepTurns
<1>7. PICK a \in Nat, b \in Nat : a = StepCalls(n + 1)' /\ b = StepTurns(n + 1)'
  BY <1>3 DEF StepCalls, StepTurns
<1>8. PICK c \in Nat, t \in Nat : c = C[n + 1] /\ t = T[n + 1]
  BY <1>2, <1>3, CountsAreNumbers
<1>9. \A k \in 0 .. n + 1 : C[k] \in Nat /\ T[k] \in Nat
  BY <1>2, <1>3, CountsAreNumbers
<1>10. PICK C2, T2 : /\ C2 = [k \in 0 .. n + 2 |-> IF k = n + 2 THEN c + a ELSE C[k]]
                     /\ T2 = [k \in 0 .. n + 2 |-> IF k = n + 2 THEN t + b ELSE T[k]]
  OBVIOUS
<1>11. /\ \A k \in 0 .. n + 1 : C2[k] = C[k] /\ T2[k] = T[k]
       /\ C2[n + 2] = c + a /\ T2[n + 2] = t + b /\ C2[n + 1] = c /\ T2[n + 1] = t
  BY <1>8, <1>10
<1>12. C2 \in [0 .. n + 2 -> Nat] /\ T2 \in [0 .. n + 2 -> Nat]
  BY <1>9, <1>10
<1>13. Counts(C2, T2)'
  <2>1. C2[0] = 0 /\ T2[0] = 0
    BY <1>3, <1>11 DEF Counts
  <2>2. ASSUME NEW k \in 0 .. n + 1
        PROVE  C2[k + 1] = C2[k] + StepCalls(k)' /\ T2[k + 1] = T2[k] + StepTurns(k)'
    <3>1. CASE k = n + 1
      <4>1. k + 1 = n + 2
        BY <3>1
      <4> QED BY <1>7, <1>11, <3>1, <4>1
    <3>2. CASE k # n + 1
      <4>1. k \in 0 .. n /\ k + 1 \in 0 .. n + 1
        BY <3>2
      <4>2. C[k + 1] = C[k] + StepCalls(k) /\ T[k + 1] = T[k] + StepTurns(k)
        BY <1>3, <1>5, <4>1 DEF Counts
      <4> QED BY <1>6, <1>11, <4>1, <4>2
    <3> QED BY <3>1, <3>2
  <2>3. ASSUME NEW k \in 0 .. n + 1, NEW j \in 0 .. k - 1
        PROVE  C[j] + StepCalls(j)' <= C[k] /\ T[j] + StepTurns(j)' <= T[k]
    <3>1. j \in 0 .. n
      OBVIOUS
    <3>2. C[j] + StepCalls(j) <= C[k] /\ T[j] + StepTurns(j) <= T[k]
      BY <1>2, <1>3 DEF Counts
    <3> QED BY <1>6, <3>1, <3>2
  <2>4. ASSUME NEW k \in 0 .. n + 2, NEW j \in 0 .. k - 1
        PROVE  C2[j] + StepCalls(j)' <= C2[k] /\ T2[j] + StepTurns(j)' <= T2[k]
    <3>1. CASE k \in 0 .. n + 1
      <4>1. j \in 0 .. n + 1
        BY <3>1
      <4> QED BY <1>11, <2>3, <3>1, <4>1
    <3>2. CASE k = n + 2 /\ j = n + 1
      BY <1>7, <1>11, <3>2
    <3>3. CASE k = n + 2 /\ j # n + 1
      <4>1. j \in 0 .. n /\ j \in 0 .. n + 1 /\ n + 1 \in 0 .. n + 1 /\ j \in 0 .. (n + 1) - 1
        BY <3>3
      <4>2. PICK x \in Nat, y \in Nat : x = C[j] + StepCalls(j)' /\ y = T[j] + StepTurns(j)'
        <5>1. StepCalls(j) \in Nat /\ StepTurns(j) \in Nat
          BY <1>3 DEF StepCalls, StepTurns
        <5> QED BY <1>6, <1>9, <4>1, <5>1
      <4>3. x <= c /\ y <= t
        BY <1>8, <2>3, <4>1, <4>2
      <4>4. x <= c + a /\ y <= t + b
        BY <4>3
      <4> QED BY <1>11, <3>3, <4>1, <4>2, <4>4
    <3> QED BY <3>1, <3>2, <3>3
  <2>5. ASSUME NEW k \in 0 .. n + 1
        PROVE  T[k] = 0 \/ \E j \in 0 .. k - 1 : InTurns(j)' /\ T2[j] + NRanks = T[k]
    <3>1. T[k] = 0 \/ \E j \in 0 .. k - 1 : InTurns(j) /\ T[j] + NRanks = T[k]
      BY <1>2, <1>3 DEF Counts
    <3>2. \A j \in 0 .. k - 1 : j \in 0 .. n /\ j \in 0 .. n + 1
      OBVIOUS
    <3> QED BY <1>6, <1>11, <3>1, <3>2
  <2>6. ASSUME NEW k \in 0 .. n + 2
        PROVE  T2[k] = 0 \/ \E j \in 0 .. k - 1 : InTurns(j)' /\ T2[j] + NRanks = T2[k]
    <3>1. CASE k \in 0 .. n + 1
      BY <1>11, <2>5, <3>1
    <3>2. CASE k = n + 2 /\ InTurns(n + 1)'
      <4>1. b = NRanks /\ n + 1 \in 0 .. k - 1
        BY <1>7, <3>2 DEF StepTurns
      <4> QED BY <1>11, <3>2, <4>1
    <3>3. CASE k = n + 2 /\ ~InTurns(n + 1)'
      <4>1. b = 0
        BY <1>7, <3>3 DEF StepTurns
      <4>2. T2[k] = T[n + 1]
        BY <1>8, <1>11, <3>3, <4>1
      <4>3. T[n + 1] = 0 \/ \E j \in 0 .. (n + 1) - 1 : InTurns(j)' /\ T2[j] + NRanks = T[n + 1]
        BY <2>5
      <4>4. \A j \in 0 .. (n + 1) - 1 : j \in 0 .. k - 1
        BY <3>3
      <4> QED BY <4>2, <4>3, <4>4
    <3> QED BY <3>1, <3>2, <3>3
  <2>7. Len(script)' + 1 = n + 2
    BY <1>4
  <2>8. /\ C2 \in [0 .. Len(script)' + 1 -> Nat] /\ T2 \in [0 .. Len(script)' + 1 -> Nat]
        /\ \A k \in Steps' : /\ C2[k + 1] = C2[k] + StepCalls(k)'
                             /\ T2[k + 1] = T2[k] + StepTurns(k)'
        /\ \A k \in 0 .. Len(script)' + 1 : \A j \in 0 .. k - 1 :
              C2[j] + StepCalls(j)' <= C2[k] /\ T2[j] + StepTurns(j)' <= T2[k]
        /\ \A k \in 0 .. Len(script)' + 1 :
              T2[k] = 0 \/ \E j \in 0 .. k - 1 : InTurns(j)' /\ T2[j] + NRanks = T2[k]
    BY <1>5, <1>12, <2>2, <2>4, <2>6, <2>7
  <2> QED BY <2>1, <2>8 DEF Counts
<1>14. \A k \in 0 .. n : \A o : CallsAt(C2, k, o) = CallsAt(C, k, o)
                                /\ EntriesAt(T2, k, o) = EntriesAt(T, k, o)
  BY <1>11 DEF CallsAt, EntriesAt
<1>15. Len(log) <= 2 * t /\ \A r \in Ranks : Latest(r) <= c
  BY <1>2, <1>8 DEF Facts, Bounded
<1>16. ASSUME NEW o \in Ranks
       PROVE  /\ CallsAt(C2, n + 1, o) \in Nat /\ EntriesAt(T2, n + 1, o) \in Nat
              /\ c <= CallsAt(C2, n + 1, o) /\ Len(log) <= EntriesAt(T2, n + 1, o)
  <2>1. o \in Nat
    BY RanksAreNumbers
  <2>2. /\ c + o \in Nat /\ 2 * (t + o) \in Nat /\ c <= c + o /\ 2 * t <= 2 * (t + o)
        /\ 2 * t \in Nat
    BY <2>1
  <2>3. Len(log) <= 2 * (t + o)
    BY <1>3, <1>15, <2>2
  <2> QED BY <1>11, <2>2, <2>3 DEF CallsAt, EntriesAt
<1>17. \A k \in Steps' : k \in 0 .. n \/ k = n + 1
  BY <1>5
<1>18. ASSUME NEW r \in Ranks PROVE Placed(r, C2)'
  <2>1. CASE PlacedLooping(r, C)
    <3>1. InTurns(LoopStep(r))
      BY <2>1 DEF PlacedLooping
    <3>2. LoopStep(r) \in 0 .. n
      BY <1>2, <3>1 DEF InTurns
    <3>3. /\ InTurns(LoopStep(r))'
          /\ CallsAt(C2, LoopStep(r), iRank[r]) = CallsAt(C, LoopStep(r), iRank[r])
      BY <1>5, <1>6, <1>14, <3>1, <3>2
    <3>4. PlacedLooping(r, C2)'
      BY <1>1, <1>5, <2>1, <3>3 DEF PlacedLooping, CallsAt
    <3> QED BY <3>4 DEF Placed
  <2>2. CASE PlacedOutside(r, C)
    <3>1. C2[nDone[r] + 1] = C[nDone[r] + 1] /\ StepCalls(0)' = StepCalls(0)
      BY <1>3, <1>6, <1>11
    <3>2. PlacedOutside(r, C2)'
      BY <1>1, <1>5, <2>2, <3>1 DEF PlacedOutside
    <3> QED BY <3>2 DEF Placed
  <2>3. CASE pc[r] \in {"dead", "fault"}
    BY <1>1, <2>3 DEF Placed
  <2> QED BY <2>1, <2>2, <2>3 DEF Facts, Placed
<1>19. ASSUME NEW r \in Ranks PROVE OwnTurnsOver(r, C2, T2)'
  <2>1. ASSUME NEW k \in 0 .. n + 1, InTurns(k)',
               \/ CallsAt(C2, k, r) + 1 < Latest(r)
               \/ /\ CallsAt(C2, k, r) + 1 = Latest(r)
                  /\ pc[r] \notin {"barrier", "turn", "dead", "fault"}
        PROVE  EntriesAt(T2, k, r) + 2 <= Len(log)
    <3>1. CASE k \in 0 .. n
      <4>1. EntriesAt(T, k, r) + 2 <= Len(log)
        BY <1>5, <1>6, <1>14, <2>1, <3>1 DEF Facts, OwnTurnsOver
      <4> QED BY <1>14, <3>1, <4>1
    <3>2. CASE k = n + 1
      <4>1. /\ CallsAt(C2, k, r) \in Nat /\ c <= CallsAt(C2, k, r)
            /\ Latest(r) <= c /\ Latest(r) \in Nat
        BY <1>3, <1>15, <1>16, <3>2
      <4> QED BY <2>1, <4>1
    <3> QED BY <3>1, <3>2
  <2> QED BY <1>1, <1>5, <2>1 DEF OwnTurnsOver, CallsAt, EntriesAt
<1>20. ASSUME NEW r \in Ranks PROVE OwnTurnNow(r, T2)'
  <2>1. CASE pc[r] \in {"barrier", "turn"}
    <3>1. LoopStep(r) \in 0 .. n
      BY <1>5, <2>1, InLoop
    <3>2. EntriesAt(T2, LoopStep(r), r) = EntriesAt(T, LoopStep(r), r)
      BY <1>14, <3>1
    <3>3. /\ pc[r] = "barrier" /\ iRank[r] = r => Len(log) <= EntriesAt(T2, LoopStep(r), r)
          /\ pc[r] = "turn" => iRank[r] = r /\ Len(log) = EntriesAt(T2, LoopStep(r), r) + 1
      BY <3>2 DEF Facts, OwnTurnNow
    <3> QED BY <1>1, <1>5, <3>3 DEF OwnTurnNow, EntriesAt
  <2>2. CASE pc[r] \notin {"barrier", "turn"}
    BY <1>1, <2>2 DEF OwnTurnNow
  <2> QED BY <2>1, <2>2
<1>21. BegunTogether(C2, T2)'
  <2>1. ASSUME NEW k \in 0 .. n + 1, NEW o \in Ranks, InTurns(k)',
               EntriesAt(T2, k, o) + 1 <= Len(log), NEW r \in Ranks
        PROVE  CallsAt(C2, k, o) + 1 <= Latest(r)
    <3>1. k # n + 1
      BY <1>3, <1>16, <2>1
    <3>2. k \in 0 .. n
      BY <3>1
    <3>3. CallsAt(C, k, o) + 1 <= Latest(r)
      BY <1>5, <1>6, <1>14, <2>1, <3>2 DEF Facts, BegunTogether
    <3> QED BY <1>14, <3>2, <3>3
  <2> QED BY <1>1, <1>5, <2>1 DEF BegunTogether, CallsAt, EntriesAt
<1>22. Logged(T2)'
  <2>1. ASSUME NEW k \in 0 .. n + 1, NEW o \in Ranks, InTurns(k)'
        PROVE  /\ EntriesAt(T2, k, o) + 1 <= Len(log) =>
                    log[EntriesAt(T2, k, o) + 1] = [rank |-> o, is |-> "begin"]
               /\ EntriesAt(T2, k, o) + 2 <= Len(log) =>
                    log[EntriesAt(T2, k, o) + 2] = [rank |-> o, is |-> "end"]
    <3>1. CASE k \in 0 .. n
      <4>1. /\ EntriesAt(T, k, o) + 1 <= Len(log) =>
                 log[EntriesAt(T, k, o) + 1] = [rank |-> o, is |-> "begin"]
            /\ EntriesAt(T, k, o) + 2 <= Len(log) =>
                 log[EntriesAt(T, k, o) + 2] = [rank |-> o, is |-> "end"]
        BY <1>5, <1>6, <2>1, <3>1 DEF Facts, Logged
      <4> QED BY <1>14, <3>1, <4>1
    <3>2. CASE k = n + 1
      BY <1>3, <1>16, <3>2
    <3> QED BY <3>1, <3>2
  <2> QED BY <1>1, <1>5, <2>1 DEF Logged, EntriesAt
<1>23. Bounded(C2, T2)'
  <2>1. 2 * t <= 2 * (t + b) /\ 2 * t \in Nat /\ 2 * (t + b) \in Nat /\ c <= c + a
    OBVIOUS
  <2>2. Len(log) <= 2 * (t + b)
    BY <1>3, <1>15, <2>1
  <2>3. \A r \in Ranks : Latest(r) <= c + a
    BY <1>3, <1>15, <2>1
  <2>4. Len(script)' + 1 = n + 2
    BY <1>4
  <2>5. Len(log) <= 2 * T2[n + 2] /\ \A r \in Ranks : Latest(r) <= C2[n + 2]
    BY <1>11, <2>2, <2>3
  <2> QED BY <1>1, <1>5, <2>4, <2>5 DEF Bounded
<1>24. Chained'
  BY <1>1 DEF Facts, Chained, NextInTurn
<1>25. Facts(C2, T2)'
  BY <1>13, <1>18, <1>19, <1>20, <1>21, <1>22, <1>23, <1>24 DEF Facts
<1> QED BY <1>2, <1>11, <1>25

------------------------------------------------------------------------------
(* The initial states.                                                     *)

LEMMA InitTurns == Init => TurnsInv
<1> SUFFICES ASSUME Init, SameEnvironment PROVE TurnsTyped /\ \E C, T : Facts(C, T)
  BY DEF TurnsInv
<1>1. /\ pc = [r \in Ranks |-> "initialize"] /\ iRank = [r \in Ranks |-> 0]
      /\ nDone = [r \in Ranks |-> 0] /\ calls = [r \in Ranks |-> <<>>]
      /\ waitToAttachDebugger = [r \in Ranks |-> TRUE] /\ script = <<>> /\ log = <<>>
  BY DEF Init
<1>2. NRanks \in Nat /\ Ranks = 0 .. NRanks - 1
  BY RanksAreNumbers
<1>3. Len(script) = 0 /\ Len(log) = 0 /\ \A r \in Ranks : Latest(r) = 0
  BY <1>1 DEF Latest
<1>4. TurnsTyped
  <2>1. iRank \in [Ranks -> 0 .. NRanks] /\ waitToAttachDebugger \in [Ranks -> BOOLEAN]
    BY <1>1, <1>2
  <2>2. calls = [r \in Ranks |-> calls[r]] /\ log \in Seq(Turns)
    BY <1>1
  <2>3. \A r \in Ranks : calls[r] \in Seq({})
    BY <1>1
  <2> QED BY <2>1, <2>2, <2>3 DEF TurnsTyped
<1>5. PICK a \in Nat, b \in Nat : a = StepCalls(0) /\ b = StepTurns(0) /\ (InTurns(0) => b = NRanks)
                                  /\ (~InTurns(0) => b = 0)
  BY <1>2 DEF StepCalls, StepTurns
<1>6. PICK C, T : C = [k \in 0 .. 1 |-> IF k = 0 THEN 0 ELSE a]
                  /\ T = [k \in 0 .. 1 |-> IF k = 0 THEN 0 ELSE b]
  OBVIOUS
<1>7. /\ C[0] = 0 /\ C[1] = a /\ T[0] = 0 /\ T[1] = b
      /\ C \in [0 .. 1 -> Nat] /\ T \in [0 .. 1 -> Nat]
  BY <1>6
<1>8. Counts(C, T)
  <2>1. /\ \A k \in 0 .. 0 : C[k + 1] = C[k] + StepCalls(k) /\ T[k + 1] = T[k] + StepTurns(k)
        /\ \A k \in 0 .. 1 : \A j \in 0 .. k - 1 :
              C[j] + StepCalls(j) <= C[k] /\ T[j] + StepTurns(j) <= T[k]
    BY <1>5, <1>7
  <2>2. \A k \in 0 .. 1 : T[k] = 0 \/ \E j \in 0 .. k - 1 : InTurns(j) /\ T[j] + NRanks = T[k]
    <3>1. CASE InTurns(0)
      BY <1>2, <1>5, <1>7, <3>1
    <3>2. CASE ~InTurns(0)
      BY <1>5, <1>7, <3>2
    <3> QED BY <3>1, <3>2
  <2> QED BY <1>3, <1>7, <2>1, <2>2 DEF Counts, Steps
<1>9. ASSUME NEW r \in Ranks PROVE Placed(r, C)
  BY <1>1, <1>3 DEF Placed, PlacedOutside
<1>10. ASSUME NEW k \in Steps, InTurns(k), NEW o \in Ranks
       PROVE  CallsAt(C, k, o) \in Nat /\ EntriesAt(T, k, o) \in Nat
  BY <1>3, <1>8, <1>10, TurnNumbers
<1>11. ASSUME NEW r \in Ranks PROVE OwnTurnsOver(r, C, T) /\ OwnTurnNow(r, T)
  <2>1. \A k \in Steps : InTurns(k) =>
           ~(CallsAt(C, k, r) + 1 < Latest(r)) /\ CallsAt(C, k, r) + 1 # Latest(r)
    BY <1>3, <1>10
  <2>2. OwnTurnsOver(r, C, T)
    BY <2>1 DEF OwnTurnsOver
  <2>3. pc[r] = "initialize"
    BY <1>1
  <2> QED BY <2>2, <2>3 DEF OwnTurnNow
<1>12. \A k \in Steps : \A o \in Ranks : InTurns(k) =>
          ~(EntriesAt(T, k, o) + 1 <= Len(log)) /\ ~(EntriesAt(T, k, o) + 2 <= Len(log))
  BY <1>3, <1>10
<1>13. BegunTogether(C, T) /\ Logged(T)
  BY <1>12 DEF BegunTogether, Logged
<1>14. Bounded(C, T) /\ Chained
  BY <1>3, <1>5, <1>7 DEF Bounded, Chained
<1>15. Facts(C, T)
  BY <1>8, <1>9, <1>11, <1>13, <1>14 DEF Facts
<1> QED BY <1>4, <1>15

------------------------------------------------------------------------------
(* The steps of a rank.                                                    *)

\* A rank moves, and neither calls nor takes a turn.
LEMMA RankMoves ==
  ASSUME LInv, TurnsTyped, NEW C, NEW T, Facts(C, T), NEW r \in Ranks,
         NEW there, NEW round \in 0 .. NRanks, NEW wait \in BOOLEAN,
         there \notin {"barrier", "turn"},
         pc' = [pc EXCEPT ![r] = there],
         iRank' = [iRank EXCEPT ![r] = round],
         waitToAttachDebugger' = [waitToAttachDebugger EXCEPT ![r] = wait],
         \A s \in Ranks \ {r} : return'[s] = return[s] /\ nDone'[s] = nDone[s],
         UNCHANGED <<calls, log, script, env>>,
         \/ there \in {"dead", "fault"}
         \/ pc[r] \notin {"barrier", "turn", "dead", "fault"}
         \/ \A k \in Steps : InTurns(k) => CallsAt(C, k, r) + 1 # Latest(r),
         Placed(r, C)'
  PROVE  TurnsTyped' /\ Facts(C, T)'
<1>1. /\ pc'[r] = there
      /\ \A s \in Ranks \ {r} : /\ pc'[s] = pc[s] /\ iRank'[s] = iRank[s]
                                /\ waitToAttachDebugger'[s] = waitToAttachDebugger[s]
  BY DEF LInv, RanksTyped, TurnsTyped
<1>2. \A s \in Ranks \ {r} : Placed(s, C)' /\ LoopStep(s)' = LoopStep(s)
  BY <1>1, PlacedKept DEF Facts
<1>3. \A s \in Ranks : Placed(s, C)'
  BY <1>2
<1>4. \A s \in Ranks : pc'[s] \in {"barrier", "turn"} =>
         pc'[s] = pc[s] /\ iRank'[s] = iRank[s] /\ LoopStep(s)' = LoopStep(s)
  BY <1>1, <1>2
<1>5. \A s \in Ranks : pc'[s] \notin {"barrier", "turn", "dead", "fault"} =>
         \/ pc[s] \notin {"barrier", "turn", "dead", "fault"}
         \/ \A k \in Steps : InTurns(k) => CallsAt(C, k, s) + 1 # Latest(s)
  BY <1>1
<1>6. Facts(C, T)'
  BY <1>3, <1>4, <1>5, QuietSteps
<1>7. TurnsTyped'
  BY DEF TurnsTyped
<1> QED BY <1>6, <1>7

\* A rank calls.
LEMMA RankCalls ==
  ASSUME LInv, TurnsTyped, NEW r \in Ranks, NEW call, Call(r, call),
         UNCHANGED <<log, iRank, waitToAttachDebugger>>
  PROVE  TurnsTyped'
BY OneMoreCall DEF TurnsTyped

\* The same environment says the same to all.
LEMMA AllWait ==
  ASSUME SameEnvironment, NEW r \in Ranks
  PROVE  ReadFlag(env[r], FALSE) = Waiting /\ Waiting \in BOOLEAN
<1>1. ReadFlag(env[r], FALSE) = Waiting
  BY MasterIsARank DEF SameEnvironment, Waiting
<1>2. ASSUME NEW found, NEW default \in BOOLEAN PROVE ReadFlag(found, default) \in BOOLEAN
  <2>1. CASE found = "unset"
    BY <2>1 DEF ReadFlag
  <2>2. CASE found # "unset"
    <3>1. ReadFlag(found, default) = (found \in {"1", "2", ""})
      BY ONLY <2>2 DEF ReadFlag
    <3>2. (found \in {"1", "2", ""}) \in BOOLEAN
      BY ONLY TRUE
    <3> QED BY ONLY <3>1, <3>2
  <2> QED BY <2>1, <2>2
<1>3. Waiting \in BOOLEAN
  BY <1>2 DEF Waiting
<1> QED BY <1>1, <1>3

LEMMA TurnsOfStep ==
  ASSUME LInv, TurnsTyped, SameEnvironment, NEW C, NEW T, Facts(C, T), NEW r \in Ranks, Step(r)
  PROVE  TurnsTyped' /\ Facts(C, T)'
<1>1. /\ iRank = [iRank EXCEPT ![r] = iRank[r]] /\ iRank[r] \in 0 .. NRanks
      /\ pc = [pc EXCEPT ![r] = pc[r]]
      /\ waitToAttachDebugger = [waitToAttachDebugger EXCEPT ![r] = waitToAttachDebugger[r]]
      /\ waitToAttachDebugger[r] \in BOOLEAN
      /\ NRanks \in Nat /\ NRanks >= 1 /\ 0 \in 0 .. NRanks /\ r \in 0 .. NRanks - 1
  <2>1. NRanks \in Nat /\ NRanks >= 1 /\ 0 \in 0 .. NRanks /\ r \in 0 .. NRanks - 1
    BY RanksAreNumbers
  <2>2. iRank \in [Ranks -> 0 .. NRanks] /\ waitToAttachDebugger \in [Ranks -> BOOLEAN]
    BY DEF TurnsTyped
  <2>3. pc = [pc EXCEPT ![r] = pc[r]]
    BY DEF LInv, RanksTyped
  <2> QED BY <2>1, <2>2, <2>3
<1>2. /\ Len(script) \in Nat /\ Counts(C, T) /\ Latest(r) \in Nat /\ nDone[r] \in 0 .. Len(script)
      /\ C[0] = 0 /\ 0 \in Steps
  <2>1. Len(script) \in Nat /\ Latest(r) \in Nat /\ nDone[r] \in 0 .. Len(script)
    BY StateNumbers
  <2>2. Counts(C, T)
    BY DEF Facts
  <2>3. C[0] = 0
    BY <2>2 DEF Counts
  <2> QED BY <2>1, <2>2, <2>3 DEF Steps
<1>3. \A k \in 0 .. Len(script) + 1 : C[k] \in Nat
  BY <1>2, CountsAreNumbers
<1>4. \A k \in 0 .. Len(script) : C[k + 1] = C[k] + StepCalls(k)
  BY <1>2 DEF Counts, Steps
<1>5. Placed(r, C) /\ Waiting \in BOOLEAN
  BY AllWait DEF Facts
<1>6. return \in [Ranks -> {"none", "spin", "body"}] /\ nDone \in [Ranks -> Nat]
      /\ DoingNext
  BY DEF LInv, RanksTyped
<1>7. ASSUME UNCHANGED <<script, env>>
      PROVE  /\ Waiting' = Waiting /\ StepCalls(0)' = StepCalls(0)
             /\ \A k : InTurns(k)' <=> InTurns(k)
  BY <1>7, SameProgram
<1>8. ASSUME UNCHANGED calls PROVE Latest(r)' = Latest(r)
  BY <1>8 DEF Latest
<1>9. pc[r] \in {"loop", "barrier", "turn"} => PlacedLooping(r, C)
  BY <1>5 DEF Placed, PlacedOutside
<1>10. pc[r] \notin {"loop", "barrier", "turn", "dead", "fault"} => PlacedOutside(r, C)
  BY <1>5 DEF Placed, PlacedLooping
<1>11. CASE Initialize(r)
  <2>1. /\ pc[r] = "initialize" /\ pc' = [pc EXCEPT ![r] = "readAll"] /\ pc'[r] = "readAll"
        /\ UNCHANGED <<env, waitToAttachDebugger, iRank, return, script, nDone, calls, log>>
    BY <1>11 DEF Initialize, Goes, LInv, RanksTyped
  <2>2. Placed(r, C)'
    BY <1>8, <1>10, <2>1 DEF Placed, PlacedOutside
  <2> QED BY <1>1, <2>1, <2>2, RankMoves
<1>12. CASE ReadAll(r)
  <2>1. /\ pc[r] = "readAll" /\ pc' = [pc EXCEPT ![r] = "attach"] /\ pc'[r] = "attach"
        /\ waitToAttachDebugger' = [waitToAttachDebugger EXCEPT ![r] = Waiting]
        /\ waitToAttachDebugger'[r] = Waiting
        /\ UNCHANGED <<env, iRank, return, script, nDone, calls, log>>
    BY <1>12, AllWait DEF ReadAll, Goes, LInv, RanksTyped, TurnsTyped
  <2>2. Placed(r, C)'
    BY <1>7, <1>8, <1>10, <2>1 DEF Placed, PlacedOutside
  <2> QED BY <1>1, <1>5, <2>1, <2>2, RankMoves
<1>13. CASE Attach(r)
  <2>1. /\ pc[r] = "attach"
        /\ UNCHANGED <<env, waitToAttachDebugger, iRank, script, nDone, calls, log>>
        /\ iRank[r] = 0 /\ nDone[r] = 0 /\ Latest(r) = 0 /\ waitToAttachDebugger[r] = Waiting
    BY <1>10, <1>13 DEF Attach, PlacedOutside
  <2>2. CASE Waiting
    <3>1. /\ pc' = [pc EXCEPT ![r] = "loop"] /\ pc'[r] = "loop"
          /\ return' = [return EXCEPT ![r] = "spin"] /\ return'[r] = "spin"
      BY <1>6, <1>13, <2>1, <2>2 DEF Attach, Goes, LInv, RanksTyped
    <3>2. InTurns(0)' /\ LoopStep(r)' = 0 /\ CallsAt(C, 0, 0) = 0
      BY <1>2, <1>7, <2>1, <2>2, <3>1 DEF InTurns, LoopStep, CallsAt
    <3>3. PlacedLooping(r, C)'
      BY <1>8, <2>1, <3>1, <3>2 DEF PlacedLooping, CallsAt
    <3>4. Placed(r, C)'
      BY <3>3 DEF Placed
    <3>5. \A s \in Ranks \ {r} : return'[s] = return[s] /\ nDone'[s] = nDone[s]
      BY <1>6, <2>1, <3>1
    <3>6. /\ iRank' = [iRank EXCEPT ![r] = iRank[r]] /\ iRank[r] \in 0 .. NRanks
          /\ waitToAttachDebugger' = [waitToAttachDebugger EXCEPT ![r] = waitToAttachDebugger[r]]
          /\ waitToAttachDebugger[r] \in BOOLEAN
          /\ pc[r] \notin {"barrier", "turn", "dead", "fault"}
      BY <1>1, <2>1
    <3> QED BY <2>1, <3>1, <3>4, <3>5, <3>6, RankMoves
  <2>3. CASE ~Waiting
    <3>1. /\ pc' = [pc EXCEPT ![r] = "services"] /\ pc'[r] = "services" /\ return' = return
      BY <1>13, <2>1, <2>3 DEF Attach, Goes, LInv, RanksTyped
    <3>2. StepCalls(0)' = 0
      BY <1>7, <2>1, <2>3 DEF StepCalls
    <3>3. Placed(r, C)'
      BY <1>8, <2>1, <3>1, <3>2 DEF Placed, PlacedOutside
    <3> QED BY <1>1, <2>1, <3>1, <3>3, RankMoves
  <2> QED BY <1>5, <2>2, <2>3
<1>14. CASE EnterLoop(r)
  <2>1. /\ pc[r] = "loop" /\ pc' = [pc EXCEPT ![r] = "barrier"] /\ pc'[r] = "barrier"
        /\ iRank[r] < NRanks /\ Call(r, BarrierCall)
        /\ UNCHANGED <<env, waitToAttachDebugger, iRank, return, script, nDone, log>>
    BY <1>14 DEF EnterLoop, Goes, LInv, RanksTyped
  <2>2. LoopStep(r) \in Steps /\ InTurns(LoopStep(r)) /\ PlacedLooping(r, C)
    BY <2>1, InLoop
  <2>3. Latest(r) = CallsAt(C, LoopStep(r), iRank[r])
    <3>1. CallsAt(C, LoopStep(r), iRank[r]) \in Nat
      BY <1>1, <1>3, <2>2 DEF CallsAt, Steps
    <3> QED BY <2>1, <2>2, <3>1 DEF PlacedLooping
  <2>4. Latest(r)' = Latest(r) + 1 /\ calls'[r][Latest(r)'].kind = "barrier"
    BY <2>1, OneMoreCall DEF BarrierCall
  <2>5. Placed(r, C)'
    <3>1. LoopStep(r)' = LoopStep(r) /\ InTurns(LoopStep(r))'
      BY <1>7, <2>1, <2>2 DEF LoopStep
    <3>2. PlacedLooping(r, C)'
      BY <2>1, <2>2, <2>3, <2>4, <3>1 DEF PlacedLooping, CallsAt
    <3> QED BY <3>2 DEF Placed
  <2>6. Latest(r) + 1 <= C[Len(script) + 1]
    <3>1. PICK k \in Steps : k = LoopStep(r)
      BY <2>2
    <3>2. C[k] + NRanks <= C[Len(script) + 1]
      BY <1>2, <2>2, <3>1, LoopCounts DEF Steps
    <3>3. PICK c \in Nat, d \in Nat : c = C[k] /\ d = C[Len(script) + 1]
      BY <1>2, <1>3, <3>1 DEF Steps
    <3>4. c + iRank[r] + 1 <= d
      BY <1>1, <2>1, <3>2, <3>3
    <3> QED BY <2>3, <3>1, <3>3, <3>4 DEF CallsAt
  <2>7. Facts(C, T)'
    BY <2>1, <2>2, <2>3, <2>5, <2>6, CallingStep
  <2> QED BY <2>1, <2>7, RankCalls
<1>15. CASE TakeTurn(r)
  <2>1. /\ pc[r] = "barrier"
        /\ UNCHANGED <<env, waitToAttachDebugger, return, script, nDone, calls>>
    BY <1>15 DEF TakeTurn
  <2>2. CASE iRank[r] = r
    <3>1. log' = Append(log, [rank |-> r, is |-> "begin"]) /\ iRank' = iRank
      BY <1>15, <2>2 DEF TakeTurn
    <3>2. [rank |-> r, is |-> "begin"] \in Turns
      BY DEF Turns
    <3>3. TurnsTyped'
      BY <2>1, <3>1, <3>2 DEF TurnsTyped
    <3> QED BY <1>15, <2>2, <3>3, TurnBegins
  <2>3. CASE iRank[r] # r
    <3>1. /\ pc' = [pc EXCEPT ![r] = "loop"] /\ pc'[r] = "loop" /\ log' = log
          /\ iRank' = [iRank EXCEPT ![r] = iRank[r] + 1] /\ iRank'[r] = iRank[r] + 1
      BY <1>15, <2>3 DEF TakeTurn, Goes, LInv, RanksTyped, TurnsTyped
    <3>2. LoopStep(r) \in Steps /\ InTurns(LoopStep(r)) /\ PlacedLooping(r, C)
      BY <2>1, InLoop
    <3>3. /\ iRank[r] < NRanks /\ iRank[r] \in Ranks /\ iRank[r] + 1 \in 0 .. NRanks
          /\ Latest(r) = CallsAt(C, LoopStep(r), iRank[r]) + 1
      <4>1. iRank[r] < NRanks /\ Latest(r) = CallsAt(C, LoopStep(r), iRank[r]) + 1
        BY <2>1, <3>2 DEF PlacedLooping
      <4> QED BY <1>1, <4>1, RanksAreNumbers
    <3>4. \A k \in Steps : InTurns(k) => CallsAt(C, k, r) + 1 # Latest(r)
      <4>1. SUFFICES ASSUME NEW k \in Steps, InTurns(k) PROVE CallsAt(C, k, r) + 1 # Latest(r)
        OBVIOUS
      <4>2. PICK j \in Steps, i \in Ranks : j = LoopStep(r) /\ i = iRank[r] /\ InTurns(j)
        BY <3>2, <3>3
      <4>3. CallsAt(C, k, r) \in Nat /\ CallsAt(C, j, i) \in Nat
        BY <1>2, <4>1, <4>2, TurnNumbers
      <4>4. CallsAt(C, k, r) # CallsAt(C, j, i)
        <5>1. i # r
          BY <2>3, <4>2
        <5>2. CallsAt(C, k, r) < CallsAt(C, j, i) \/ CallsAt(C, j, i) < CallsAt(C, k, r)
          BY <1>2, <4>1, <4>2, <5>1, SameOrder
        <5> QED BY <4>3, <5>2
      <4> QED BY <3>3, <4>2, <4>3, <4>4
    <3>5. Placed(r, C)'
      <4>1. LoopStep(r)' = LoopStep(r) /\ InTurns(LoopStep(r))'
        BY <1>7, <2>1, <3>2 DEF LoopStep
      <4>2. CallsAt(C, LoopStep(r), iRank[r] + 1) = CallsAt(C, LoopStep(r), iRank[r]) + 1
            /\ CallsAt(C, LoopStep(r), iRank[r] + 1) \in Nat
        <5>1. PICK c \in Nat : c = C[LoopStep(r)]
          BY <1>3, <3>2 DEF Steps
        <5>2. iRank[r] \in Nat
          BY <1>1
        <5>3. c + (iRank[r] + 1) = (c + iRank[r]) + 1 /\ c + (iRank[r] + 1) \in Nat
          BY <5>2
        <5> QED BY <5>1, <5>3 DEF CallsAt
      <4>3. Latest(r)' = CallsAt(C, LoopStep(r)', iRank'[r]) + 0
        BY <1>8, <2>1, <3>1, <3>3, <4>1, <4>2
      <4>4. PlacedLooping(r, C)'
        BY <2>1, <3>1, <3>2, <4>1, <4>3 DEF PlacedLooping, CallsAt
      <4> QED BY <4>4 DEF Placed
    <3> QED BY <1>1, <2>1, <3>1, <3>3, <3>4, <3>5, RankMoves
  <2> QED BY <2>2, <2>3
<1>16. CASE EndTurn(r)
  <2>1. /\ log' = Append(log, [rank |-> r, is |-> "end"])
        /\ iRank' = [iRank EXCEPT ![r] = iRank[r] + 1]
        /\ UNCHANGED <<calls, waitToAttachDebugger>>
    BY <1>16 DEF EndTurn
  <2>2. Facts(C, T)' /\ iRank[r] < NRanks
    BY <1>16, TurnEnds
  <2>3. iRank[r] + 1 \in 0 .. NRanks /\ [rank |-> r, is |-> "end"] \in Turns
    BY <1>1, <2>2 DEF Turns
  <2>4. TurnsTyped'
    BY <2>1, <2>3 DEF TurnsTyped
  <2> QED BY <2>2, <2>4
<1>17. CASE LeaveLoop(r)
  <2>1. /\ pc[r] = "loop" /\ iRank[r] = NRanks
        /\ iRank' = [iRank EXCEPT ![r] = 0] /\ iRank'[r] = 0
        /\ pc' = [pc EXCEPT ![r] = return[r]] /\ pc'[r] = return[r]
        /\ nDone' = [nDone EXCEPT ![r] = @ + (IF return[r] = "body" THEN 1 ELSE 0)]
        /\ UNCHANGED <<env, waitToAttachDebugger, return, script, calls, log>>
    BY <1>17 DEF LeaveLoop, Goes, LInv, RanksTyped, TurnsTyped
  <2>2. /\ LoopStep(r) \in Steps /\ InTurns(LoopStep(r)) /\ PlacedLooping(r, C)
        /\ return[r] \in {"spin", "body"}
    BY <2>1, InLoop DEF PlacedLooping
  <2>3. PICK c \in Nat : c = C[LoopStep(r)]
    BY <1>3, <2>2 DEF Steps
  <2>4. Latest(r) = c + NRanks
    <3>1. c + NRanks \in Nat /\ CallsAt(C, LoopStep(r), iRank[r]) = c + NRanks
      BY <1>1, <2>1, <2>3 DEF CallsAt
    <3> QED BY <2>1, <2>2, <3>1 DEF PlacedLooping
  <2>5. \A s \in Ranks \ {r} : return'[s] = return[s] /\ nDone'[s] = nDone[s]
    BY <1>6, <2>1
  <2>6. Placed(r, C)'
    <3>1. CASE return[r] = "spin"
      <4>1. nDone[r] = 0 /\ nDone'[r] = 0 /\ LoopStep(r) = 0 /\ c = 0 /\ Waiting
        BY <1>2, <1>6, <2>1, <2>2, <2>3, <3>1 DEF PlacedLooping, LoopStep, InTurns
      <4>2. Latest(r)' = NRanks + 0 /\ Waiting'
        BY <1>1, <1>7, <1>8, <2>1, <2>4, <4>1
      <4> QED BY <2>1, <3>1, <4>1, <4>2 DEF Placed, PlacedOutside
    <3>2. CASE return[r] = "body"
      <4>1. nDone'[r] = nDone[r] + 1 /\ LoopStep(r) = nDone[r] + 1
        BY <1>6, <2>1, <3>2 DEF LoopStep
      <4>2. StepCalls(LoopStep(r)) = NRanks
        BY <1>2, <2>2, <4>1, LoopCounts
      <4>3. C[nDone'[r] + 1] = c + NRanks
        <5>1. LoopStep(r) \in 0 .. Len(script)
          BY <2>2 DEF Steps
        <5> QED BY <1>4, <2>3, <4>1, <4>2, <5>1
      <4>4. Latest(r)' = C[nDone'[r] + 1] + 0
        BY <1>1, <1>8, <2>1, <2>4, <4>3
      <4> QED BY <2>1, <3>2, <4>4 DEF Placed, PlacedOutside
    <3> QED BY <2>2, <3>1, <3>2
  <2>7. return[r] \notin {"barrier", "turn"}
    BY <2>2
  <2> QED BY <1>1, <2>1, <2>5, <2>6, <2>7, RankMoves
<1>18. CASE Spin(r)
  <2>1. /\ pc[r] = "spin" /\ pc' = [pc EXCEPT ![r] = "attachBarrier"] /\ pc'[r] = "attachBarrier"
        /\ Call(r, BarrierCall)
        /\ UNCHANGED <<env, waitToAttachDebugger, iRank, return, script, nDone, log>>
    BY <1>18 DEF Spin, Goes, LInv, RanksTyped
  <2>2. Waiting /\ nDone[r] = 0 /\ Latest(r) = NRanks /\ iRank[r] = 0
    BY <1>1, <1>10, <2>1 DEF PlacedOutside
  <2>3. Latest(r)' = Latest(r) + 1
    BY <2>1, OneMoreCall
  <2>4. Placed(r, C)'
    BY <1>7, <2>1, <2>2, <2>3 DEF Placed, PlacedOutside
  <2>5. InTurns(0) /\ StepCalls(0) = NRanks + 1
    BY <2>2 DEF InTurns, StepCalls
  <2>6. Latest(r) + 1 <= C[Len(script) + 1]
    <3>1. C[0] + StepCalls(0) <= C[Len(script) + 1]
      BY <1>2, UpToTheEnd
    <3>2. C[Len(script) + 1] \in Nat
      BY <1>2, <1>3
    <3> QED BY <1>1, <1>2, <2>2, <2>5, <3>1, <3>2
  <2>7. \A k \in Steps : InTurns(k) => CallsAt(C, k, r) # Latest(r)
    <3>1. SUFFICES ASSUME NEW k \in Steps, InTurns(k) PROVE CallsAt(C, k, r) # NRanks
      BY <2>2
    <3>2. PICK c \in Nat : c = C[k]
      BY <1>3 DEF Steps
    <3>3. CASE k = 0
      BY <1>1, <1>2, <3>3 DEF CallsAt
    <3>4. CASE k # 0
      <4>1. k \in 0 .. Len(script) + 1 /\ 0 \in 0 .. k - 1
        BY <1>2, <3>4 DEF Steps
      <4>2. C[0] + StepCalls(0) <= C[k]
        BY <1>2, <4>1 DEF Counts
      <4>3. NRanks + 1 <= c
        BY <1>1, <1>2, <2>5, <3>2, <4>2
      <4>4. c + r # NRanks
        BY <1>1, <4>3
      <4> QED BY <3>2, <4>4 DEF CallsAt
    <3> QED BY <3>3, <3>4
  <2>8. Facts(C, T)'
    BY <2>1, <2>4, <2>6, <2>7, CallingStep
  <2> QED BY <2>1, <2>8, RankCalls
<1>19. CASE Attached(r)
  <2>1. /\ pc[r] = "attachBarrier" /\ pc' = [pc EXCEPT ![r] = "services"] /\ pc'[r] = "services"
        /\ UNCHANGED <<env, waitToAttachDebugger, iRank, return, script, nDone, calls, log>>
    BY <1>19 DEF Attached, Goes, LInv, RanksTyped
  <2>2. iRank[r] = 0 /\ Waiting /\ nDone[r] = 0 /\ Latest(r) = NRanks + 1
    BY <1>10, <2>1 DEF PlacedOutside
  <2>3. Latest(r)' = StepCalls(0)'
    BY <1>7, <1>8, <2>1, <2>2 DEF StepCalls
  <2>4. PlacedOutside(r, C)'
    BY <2>1, <2>2, <2>3 DEF PlacedOutside
  <2>5. Placed(r, C)'
    BY <2>4 DEF Placed
  <2> QED BY <1>1, <2>1, <2>5, RankMoves
<1>20. CASE Services(r)
  <2>1. /\ pc[r] = "services" /\ pc' = [pc EXCEPT ![r] = "body"] /\ pc'[r] = "body"
        /\ UNCHANGED <<env, waitToAttachDebugger, iRank, return, script, nDone, calls, log>>
    BY <1>20 DEF Services, Goes, LInv, RanksTyped
  <2>2. iRank[r] = 0 /\ nDone[r] = 0 /\ Latest(r) = StepCalls(0)
    BY <1>10, <2>1 DEF PlacedOutside
  <2>3. C[0 + 1] = 0 + StepCalls(0)
    BY <1>2, <1>4
  <2>4. Latest(r)' = C[nDone[r] + 1] + 0
    BY <1>2, <1>8, <2>1, <2>2, <2>3
  <2>5. Placed(r, C)'
    BY <2>1, <2>2, <2>4 DEF Placed, PlacedOutside
  <2> QED BY <1>1, <2>1, <2>5, RankMoves
<1>21. CASE InTurn(r)
  <2>1. /\ pc[r] = "body" /\ pc' = [pc EXCEPT ![r] = "loop"] /\ pc'[r] = "loop"
        /\ nDone[r] < Len(script) /\ script[nDone[r] + 1].kind = "inTurn"
        /\ return' = [return EXCEPT ![r] = "body"] /\ return'[r] = "body"
        /\ UNCHANGED <<env, waitToAttachDebugger, iRank, script, nDone, calls, log>>
    BY <1>21 DEF InTurn, Does, Goes, LInv, RanksTyped
  <2>2. iRank[r] = 0 /\ Latest(r) = C[nDone[r] + 1] + 0
    BY <1>10, <2>1 DEF PlacedOutside
  <2>3. LoopStep(r)' = nDone[r] + 1 /\ InTurns(nDone[r] + 1)'
    <3>1. nDone[r] + 1 \in 1 .. Len(script)
      BY <1>2, <2>1
    <3> QED BY <2>1, <3>1 DEF LoopStep, InTurns
  <2>4. CallsAt(C, nDone[r] + 1, 0) = Latest(r)
    BY <2>2 DEF CallsAt
  <2>5. Latest(r)' = CallsAt(C, LoopStep(r)', iRank'[r]) + 0
    BY <1>2, <1>8, <2>1, <2>2, <2>3, <2>4
  <2>6. PlacedLooping(r, C)'
    BY <2>1, <2>3, <2>5 DEF PlacedLooping, CallsAt
  <2>7. Placed(r, C)'
    BY <2>6 DEF Placed
  <2>8. \A s \in Ranks \ {r} : return'[s] = return[s] /\ nDone'[s] = nDone[s]
    BY <1>6, <2>1
  <2>9. /\ iRank' = [iRank EXCEPT ![r] = iRank[r]] /\ iRank[r] \in 0 .. NRanks
        /\ waitToAttachDebugger' = [waitToAttachDebugger EXCEPT ![r] = waitToAttachDebugger[r]]
        /\ waitToAttachDebugger[r] \in BOOLEAN
        /\ pc[r] \notin {"barrier", "turn", "dead", "fault"}
    BY <1>1, <2>1
  <2> QED BY <2>1, <2>7, <2>8, <2>9, RankMoves
<1>22. CASE EnterCollective(r)
  <2>1. PICK call : Call(r, call)
    BY <1>22 DEF EnterCollective
  <2>2. /\ pc[r] = "body" /\ pc' = [pc EXCEPT ![r] = "collective"] /\ pc'[r] = "collective"
        /\ nDone[r] < Len(script) /\ script[nDone[r] + 1].kind \in {"allReduce", "broadcast"}
        /\ UNCHANGED <<env, waitToAttachDebugger, iRank, return, script, nDone, log>>
    BY <1>22 DEF EnterCollective, Does, Goes, LInv, RanksTyped
  <2>3. PICK m \in 1 .. Len(script) : m = nDone[r] + 1
    BY <1>2, <2>2
  <2>4. m \in Steps /\ StepCalls(m) = 1 /\ ~InTurns(m)
    BY <2>2, <2>3 DEF StepCalls, InTurns, Steps
  <2>5. PICK c \in Nat : c = C[m]
    BY <1>3
  <2>6. iRank[r] = 0 /\ Latest(r) = c
    BY <1>10, <2>2, <2>3, <2>5 DEF PlacedOutside
  <2>7. Latest(r)' = Latest(r) + 1
    BY <2>1, OneMoreCall
  <2>8. Placed(r, C)'
    BY <2>2, <2>3, <2>5, <2>6, <2>7 DEF Placed, PlacedOutside
  <2>9. Latest(r) + 1 <= C[Len(script) + 1]
    <3>1. C[m] + StepCalls(m) <= C[Len(script) + 1]
      BY <1>2, <2>4, UpToTheEnd
    <3> QED BY <2>4, <2>5, <2>6, <3>1
  <2>10. \A k \in Steps : InTurns(k) => CallsAt(C, k, r) # Latest(r)
    <3>1. SUFFICES ASSUME NEW k \in Steps, InTurns(k) PROVE CallsAt(C, k, r) # c
      BY <2>6
    <3>2. PICK d \in Nat : d = C[k]
      BY <1>3 DEF Steps
    <3>3. k \in Nat /\ k # m /\ k \in 0 .. Len(script) + 1 /\ m \in 0 .. Len(script) + 1
      BY <1>2, <2>4, <3>1 DEF Steps
    <3>4. CASE k < m
      <4>1. C[k] + NRanks <= C[m]
        BY <1>2, <3>1, <3>3, <3>4, LoopCounts
      <4>2. d + NRanks <= c
        BY <2>5, <3>2, <4>1
      <4>3. d + r # c
        BY <1>1, <4>2
      <4> QED BY <3>2, <4>3 DEF CallsAt
    <3>5. CASE m < k
      <4>1. m \in 0 .. k - 1
        BY <3>3, <3>5
      <4>2. C[m] + StepCalls(m) <= C[k]
        BY <1>2, <3>3, <4>1 DEF Counts
      <4>3. c + 1 <= d
        BY <2>4, <2>5, <3>2, <4>2
      <4>4. d + r # c
        BY <1>1, <4>3
      <4> QED BY <3>2, <4>4 DEF CallsAt
    <3> QED BY <3>3, <3>4, <3>5
  <2>11. Facts(C, T)'
    BY <2>1, <2>2, <2>8, <2>9, <2>10, CallingStep
  <2> QED BY <2>1, <2>2, <2>11, RankCalls
<1>23. ASSUME NEW done, done = StepCalls(nDone[r] + 1),
              nDone[r] < Len(script), pc' = [pc EXCEPT ![r] = "body"],
              nDone' = [nDone EXCEPT ![r] = @ + 1], iRank[r] = 0,
              Latest(r) = C[nDone[r] + 1] + done,
              pc[r] \notin {"barrier", "turn", "dead", "fault"},
              UNCHANGED <<env, waitToAttachDebugger, iRank, return, script, calls, log>>
       PROVE  TurnsTyped' /\ Facts(C, T)'
  <2>1. pc'[r] = "body" /\ nDone'[r] = nDone[r] + 1 /\ nDone[r] + 1 \in 0 .. Len(script)
        /\ (nDone[r] + 1) + 1 \in 0 .. Len(script) + 1
    BY <1>2, <1>6, <1>23 DEF LInv, RanksTyped
  <2>2. C[nDone'[r] + 1] = Latest(r)
    BY <1>4, <1>23, <2>1
  <2>3. Latest(r)' = C[nDone'[r] + 1] + 0
    BY <1>2, <1>8, <1>23, <2>2
  <2>4. Placed(r, C)'
    BY <1>23, <2>1, <2>3 DEF Placed, PlacedOutside
  <2>5. \A s \in Ranks \ {r} : return'[s] = return[s] /\ nDone'[s] = nDone[s]
    BY <1>6, <1>23
  <2> QED BY <1>1, <1>23, <2>4, <2>5, RankMoves
<1>24. CASE LeaveCollective(r)
  <2>1. /\ pc[r] = "collective" /\ pc' = [pc EXCEPT ![r] = "body"]
        /\ nDone' = [nDone EXCEPT ![r] = @ + 1]
        /\ UNCHANGED <<env, waitToAttachDebugger, iRank, return, script, calls, log>>
    BY <1>24 DEF LeaveCollective, Goes, DoneOne
  <2>2. nDone[r] < Len(script) /\ script[nDone[r] + 1].kind \in {"allReduce", "broadcast"}
    BY <1>6, <2>1 DEF DoingNext
  <2>3. StepCalls(nDone[r] + 1) = 1
    BY <1>2, <2>2 DEF StepCalls
  <2>4. iRank[r] = 0 /\ Latest(r) = C[nDone[r] + 1] + 1
    BY <1>10, <2>1 DEF PlacedOutside
  <2> QED BY <1>23, <2>1, <2>2, <2>3, <2>4
<1>25. CASE UseTimer(r)
  <2>1. /\ pc[r] = "body" /\ pc' = [pc EXCEPT ![r] = "body"]
        /\ nDone' = [nDone EXCEPT ![r] = @ + 1]
        /\ nDone[r] < Len(script) /\ script[nDone[r] + 1].kind \in {"start", "stop"}
        /\ UNCHANGED <<env, waitToAttachDebugger, iRank, return, script, calls, log>>
    BY <1>1, <1>25 DEF UseTimer, Does, DoneOne
  <2>2. StepCalls(nDone[r] + 1) = 0
    BY <1>2, <2>1 DEF StepCalls
  <2>3. iRank[r] = 0 /\ Latest(r) = C[nDone[r] + 1] + 0
    BY <1>10, <2>1 DEF PlacedOutside
  <2> QED BY <1>23, <2>1, <2>2, <2>3
<1>26. CASE MinimalCrash(r)
  <2>1. /\ pc' = [pc EXCEPT ![r] = "dead"] /\ pc'[r] = "dead"
        /\ UNCHANGED <<env, waitToAttachDebugger, iRank, return, script, nDone, calls, log>>
    BY <1>26 DEF MinimalCrash, Goes, LInv, RanksTyped
  <2>2. Placed(r, C)'
    BY <2>1 DEF Placed
  <2> QED BY <1>1, <2>1, <2>2, RankMoves
<1>27. CASE Finalize(r)
  <2>1. /\ pc[r] = "body" /\ pc' = [pc EXCEPT ![r] = "done"] /\ pc'[r] = "done"
        /\ UNCHANGED <<env, waitToAttachDebugger, iRank, return, script, nDone, calls, log>>
    BY <1>27 DEF Finalize, Goes, LInv, RanksTyped
  <2>2. Placed(r, C)'
    BY <1>8, <1>10, <2>1 DEF Placed, PlacedOutside
  <2> QED BY <1>1, <2>1, <2>2, RankMoves
<1> QED BY <1>11, <1>12, <1>13, <1>14, <1>15, <1>16, <1>17, <1>18, <1>19, <1>20, <1>21,
           <1>22, <1>24, <1>25, <1>26, <1>27 DEF Step

------------------------------------------------------------------------------
(* The steps of the program.                                               *)

\* Nothing a rank knows changes, or ranks end.
LEMMA RanksKept ==
  ASSUME TurnsTyped, NEW C, NEW T, Facts(C, T),
         UNCHANGED <<env, waitToAttachDebugger, iRank, return, script, nDone, calls, log>>,
         \A s \in Ranks : pc'[s] = pc[s] \/ pc'[s] \in {"dead", "fault"}
  PROVE  TurnsTyped' /\ Facts(C, T)'
<1>1. TurnsTyped'
  BY DEF TurnsTyped
<1>2. ASSUME NEW s \in Ranks PROVE Placed(s, C)' /\ LoopStep(s)' = LoopStep(s)
  <2>1. CASE pc'[s] = pc[s]
    BY <2>1, PlacedKept DEF Facts
  <2>2. CASE pc'[s] \in {"dead", "fault"}
    BY <2>2 DEF Placed, LoopStep
  <2> QED BY <2>1, <2>2
<1>3. \A s \in Ranks : pc'[s] \in {"barrier", "turn"} =>
         pc'[s] = pc[s] /\ iRank'[s] = iRank[s] /\ LoopStep(s)' = LoopStep(s)
  BY <1>2
<1>4. \A s \in Ranks : pc'[s] \notin {"barrier", "turn", "dead", "fault"} =>
         \/ pc[s] \notin {"barrier", "turn", "dead", "fault"}
         \/ \A k \in Steps : InTurns(k) => CallsAt(C, k, s) + 1 # Latest(s)
  OBVIOUS
<1> QED BY <1>1, <1>2, <1>3, <1>4, QuietSteps

LEMMA TurnsOfNext == LInv /\ TurnsInv /\ [Next]_vars => TurnsInv'
<1> SUFFICES ASSUME LInv, TurnsInv, [Next]_vars, SameEnvironment'
             PROVE  TurnsTyped' /\ \E C, T : Facts(C, T)'
  BY DEF TurnsInv
<1>1. env' = env
  <2>1. ASSUME NEW r \in Ranks, Step(r) PROVE env' = env
    BY <2>1 DEF Step, Initialize, ReadAll, Attach, EnterLoop, TakeTurn, EndTurn, LeaveLoop,
                Spin, Attached, Services, InTurn, EnterCollective, LeaveCollective,
                MinimalCrash, UseTimer, Finalize
  <2>2. ASSUME WriteCollective \/ WriteTimer PROVE env' = env
    BY <2>2 DEF WriteCollective, WriteTimer, Write
  <2> QED BY <2>1, <2>2 DEF Next, vars, lifeVars, ClockTicks, Debugger, Launcher, Signal, Fault
<1>2. SameEnvironment
  BY <1>1 DEF SameEnvironment
<1>3. TurnsTyped /\ \E C, T : Facts(C, T)
  BY <1>2 DEF TurnsInv
<1>4. PICK C, T : Facts(C, T)
  BY <1>3
<1>5. ASSUME NEW r \in Ranks, Step(r) PROVE TurnsTyped' /\ \E C2, T2 : Facts(C2, T2)'
  BY <1>2, <1>3, <1>4, <1>5, TurnsOfStep
<1>6. ASSUME NEW op \in Ops, Write(op) PROVE TurnsTyped' /\ \E C2, T2 : Facts(C2, T2)'
  <2>1. TurnsTyped'
    BY <1>3, <1>6 DEF Write, TurnsTyped
  <2> QED BY <1>3, <1>4, <1>6, <2>1, TurnsOfOneMore
<1>7. CASE WriteCollective
  <2>1. /\ [kind |-> "inTurn"] \in Ops /\ [kind |-> "allReduce"] \in Ops
        /\ \A root \in Ranks : [kind |-> "broadcast", root |-> root] \in Ops
    BY DEF Ops
  <2>2. {MasterRank, NRanks - 1} \subseteq Ranks
    BY MasterIsARank, RanksAreNumbers
  <2> QED BY <1>6, <1>7, <2>1, <2>2 DEF WriteCollective
<1>8. CASE WriteTimer
  <2>1. ASSUME NEW kind \in {"start", "stop"}, NEW path \in Paths
        PROVE  [kind |-> kind, path |-> path] \in Ops
    BY <2>1 DEF Ops, TimerKinds
  <2> QED BY <1>6, <1>8, <2>1 DEF WriteTimer
<1>9. ASSUME UNCHANGED <<env, waitToAttachDebugger, iRank, return, script, nDone, calls, log>>,
             \A s \in Ranks : pc'[s] = pc[s] \/ pc'[s] \in {"dead", "fault"}
      PROVE  TurnsTyped' /\ \E C2, T2 : Facts(C2, T2)'
  BY <1>3, <1>4, <1>9, RanksKept
<1>10. CASE ClockTicks
  BY <1>9, <1>10 DEF ClockTicks, lifeVars
<1>11. CASE Debugger
  BY <1>9, <1>11 DEF Debugger
<1>12. CASE Launcher
  BY <1>9, <1>12 DEF Launcher
<1>13. ASSUME NEW r \in Ranks, Signal(r) \/ Fault(r)
       PROVE  TurnsTyped' /\ \E C2, T2 : Facts(C2, T2)'
  <2>1. pc' \in {[pc EXCEPT ![r] = there] : there \in {"dead", "fault"}}
    BY <1>13 DEF Signal, Fault, Goes
  <2>2. \A s \in Ranks : pc'[s] = pc[s] \/ pc'[s] \in {"dead", "fault"}
    BY <2>1 DEF LInv, RanksTyped
  <2> QED BY <1>9, <1>13, <2>2 DEF Signal, Fault
<1>14. CASE UNCHANGED vars
  BY <1>9, <1>14 DEF vars, lifeVars
<1> QED BY <1>5, <1>7, <1>8, <1>10, <1>11, <1>12, <1>13, <1>14 DEF Next

------------------------------------------------------------------------------
(* The theorems.                                                           *)

\* With the same environment on all ranks, the calls a rank has made say where it is in
\* the program, and a turn begins only when the owners of all earlier turns have left
\* them (`Mpi.hpp:178-188`, `attachDebugger.cpp`): the invariant of the next theorem.
THEOREM TurnsInductive == Spec => []TurnsInv
<1>1. Init => TurnsInv
  BY InitTurns
<1>2. LInv /\ TurnsInv /\ [Next]_vars => TurnsInv'
  BY TurnsOfNext
<1> QED BY <1>1, <1>2, StopwatchesInductive, PTL DEF Spec

\* For any number of ranks, any body and ranks that end at any moment: what the ranks do
\* in turns they do in their order, one finishing before the next begins, and one loop
\* after the other (onAllRanksSequentiallyDo, `Mpi.hpp:178-188`).
THEOREM TurnsThere == Spec => []TurnsInOrder
<1>1. TurnsInv => TurnsInOrder
  BY DEF TurnsInv, TurnsInOrder, Facts, Chained
<1> QED BY <1>1, TurnsInductive, PTL

------------------------------------------------------------------------------
(***************************************************************************)
(* Collective calls: a broadcast gives the object of the root, and a       *)
(* reduction the sum, of that point of the program.                        *)
(*                                                                         *)
(* The argument: what is known of turns says how many calls a rank has     *)
(* made before each step of the program. So the call a collective leaves   *)
(* with is, on every rank, the one made for the same operation, and what   *)
(* it carries is what the program meant the object to be there.            *)
(***************************************************************************)

(* The inductive invariant.                                                *)

\* M is what the program written so far means.
Means(M) ==
    M = [k \in 0 .. Len(script) |->
            IF k = 0 THEN FirstValues ELSE AfterOperation(script[k], M[k - 1])]

OneMeaning == \A M, N : Means(M) /\ Means(N) => M = N

IsObject(v) == v = [x |-> v.x, y |-> v.y]

ObjectsOfRanks(v) == v = [r \in Ranks |-> v[r]] /\ \A r \in Ranks : IsObject(v[r])

Shaped(M) == \A k \in 0 .. Len(script) : ObjectsOfRanks(M[k])

ValuesMeant(M) ==
    /\ value = [r \in Ranks |-> value[r]]
    /\ \A r \in Ranks : value[r] = M[nDone[r]][r]

Collective(k) == k \in 1 .. Len(script) /\ script[k].kind \in {"broadcast", "allReduce"}

\* The call of operation k by a rank whose object is v.
CallFor(k, v) ==
    IF script[k].kind = "broadcast"
    THEN [kind |-> "broadcast", root |-> script[k].root, in |-> Binarize(v)]
    ELSE [kind |-> "allReduce", in |-> v]

CallsMeant(C, M) ==
    \A r \in Ranks : \A k \in 1 .. Len(script) :
        Collective(k) /\ C[k] < Latest(r) => calls[r][C[k] + 1] = CallFor(k, M[k - 1][r])

Said(C, M) == Means(M) /\ Shaped(M) /\ ValuesMeant(M) /\ CallsMeant(C, M)

CollectivesInv ==
    SameEnvironment =>
        TurnsTyped /\ OneMeaning /\ \E C, T, M : Facts(C, T) /\ Said(C, M)

------------------------------------------------------------------------------
(* What the program means.                                                 *)

\* The objects of all ranks stay objects.
LEMMA ObjectsStay ==
  ASSUME NEW op \in Ops, NEW v, ObjectsOfRanks(v)
  PROVE  ObjectsOfRanks(AfterOperation(op, v))
<1>1. CASE op.kind = "broadcast"
  <2>1. op.root \in Ranks
    BY <1>1 DEF Ops, TimerKinds
  <2>2. AfterOperation(op, v) = [r \in Ranks |-> v[op.root]]
    BY <1>1 DEF AfterOperation
  <2>3. IsObject(v[op.root])
    BY <2>1 DEF ObjectsOfRanks
  <2> QED BY <2>2, <2>3 DEF ObjectsOfRanks
<1>2. CASE op.kind = "allReduce"
  <2>1. AfterOperation(op, v) = [r \in Ranks |-> Total(v)]
    BY <1>2 DEF AfterOperation
  <2>2. IsObject(Total(v))
    BY DEF Total, IsObject
  <2> QED BY <2>1, <2>2 DEF ObjectsOfRanks
<1>3. CASE op.kind \notin {"broadcast", "allReduce"}
  BY <1>3 DEF AfterOperation
<1> QED BY <1>1, <1>2, <1>3

LEMMA MeaningAt ==
  ASSUME Len(script) \in Nat, NEW M, Means(M)
  PROVE  /\ M[0] = FirstValues
         /\ \A k \in 1 .. Len(script) : M[k] = AfterOperation(script[k], M[k - 1])
         /\ M = [k \in 0 .. Len(script) |-> M[k]]
<1>1. ASSUME NEW k \in 0 .. Len(script)
      PROVE  M[k] = IF k = 0 THEN FirstValues ELSE AfterOperation(script[k], M[k - 1])
  BY DEF Means
<1> QED BY <1>1 DEF Means

\* The recursive definition is the meaning, when there is one.
LEMMA MeantIsMeaning ==
  ASSUME NEW M, Means(M)
  PROVE  Means(Meant)
BY DEF Means, Meant

\* A body with one more operation has one meaning, that of the shorter one as far as it goes.
LEMMA OneMoreMeaning ==
  ASSUME script \in Seq(Ops), NEW n \in Nat, n = Len(script),
         NEW op \in Ops, script' = Append(script, op),
         OneMeaning, NEW M, Means(M), Shaped(M)
  PROVE  /\ OneMeaning'
         /\ \E N : Means(N)' /\ Shaped(N)' /\ \A k \in 0 .. n : N[k] = M[k]
<1>1. /\ Len(script') = n + 1 /\ script'[n + 1] = op
      /\ \A k \in 1 .. n : script'[k] = script[k]
  OBVIOUS
<1>2. ASSUME NEW N, Means(N)'
      PROVE  /\ \A k \in 0 .. n : N[k] = M[k]
             /\ N[n + 1] = AfterOperation(op, M[n])
             /\ N = [k \in 0 .. n + 1 |-> N[k]]
  <2>1. /\ N = [k \in 0 .. n + 1 |-> IF k = 0 THEN FirstValues
                                     ELSE AfterOperation(script'[k], N[k - 1])]
    BY <1>1, <1>2 DEF Means, AfterOperation, Total, FirstValues
  <2>2. PICK R : R = [k \in 0 .. n |-> N[k]]
    OBVIOUS
  <2>3. ASSUME NEW k \in 0 .. n
        PROVE  R[k] = IF k = 0 THEN FirstValues ELSE AfterOperation(script[k], R[k - 1])
    <3>1. CASE k = 0
      BY <2>1, <2>2, <3>1
    <3>2. CASE k # 0
      <4>1. k \in 1 .. n /\ k - 1 \in 0 .. n /\ k \in 0 .. n + 1
        BY <3>2
      <4>2. R[k] = N[k] /\ R[k - 1] = N[k - 1]
        BY <2>2, <4>1
      <4>3. N[k] = AfterOperation(script'[k], N[k - 1])
        BY <2>1, <3>2, <4>1
      <4> QED BY <1>1, <3>2, <4>1, <4>2, <4>3
    <3> QED BY <3>1, <3>2
  <2>4. Means(R)
    BY <2>2, <2>3 DEF Means
  <2>5. R = M
    BY <2>4 DEF OneMeaning
  <2>6. \A k \in 0 .. n : N[k] = M[k]
    BY <2>2, <2>5
  <2>7. N[n + 1] = AfterOperation(op, N[n])
    <3>1. n + 1 \in 0 .. n + 1 /\ n + 1 # 0 /\ (n + 1) - 1 = n
      OBVIOUS
    <3> QED BY <1>1, <2>1, <3>1
  <2>8. N = [k \in 0 .. n + 1 |-> N[k]]
    BY <2>1
  <2>9. N[n] = M[n]
    BY <2>6
  <2>10. N[n + 1] = AfterOperation(op, M[n])
    BY <2>7, <2>9
  <2> QED BY <2>6, <2>8, <2>10
<1>3. OneMeaning'
  <2>1. SUFFICES ASSUME NEW N1, NEW N2, Means(N1)', Means(N2)' PROVE N1 = N2
    BY DEF OneMeaning
  <2>2. \A k \in 0 .. n + 1 : N1[k] = N2[k]
    BY <1>2, <2>1
  <2>3. N1 = [k \in 0 .. n + 1 |-> N1[k]] /\ N2 = [k \in 0 .. n + 1 |-> N2[k]]
    BY <1>2, <2>1
  <2> QED BY <2>2, <2>3
<1>4. PICK N : N = [k \in 0 .. n + 1 |-> IF k = n + 1 THEN AfterOperation(op, M[n]) ELSE M[k]]
  OBVIOUS
<1>5. /\ \A k \in 0 .. n : N[k] = M[k]
      /\ N[n + 1] = AfterOperation(op, M[n])
  BY <1>4
<1>6. Means(N)'
  <2>1. ASSUME NEW k \in 0 .. n + 1
        PROVE  N[k] = IF k = 0 THEN FirstValues ELSE AfterOperation(script'[k], N[k - 1])
    <3>1. CASE k = 0
      BY <1>5, <3>1, MeaningAt
    <3>2. CASE k \in 1 .. n
      <4>1. k - 1 \in 0 .. n /\ k \in 0 .. n /\ k # 0
        BY <3>2
      <4>2. M[k] = AfterOperation(script[k], M[k - 1])
        BY <3>2, MeaningAt
      <4> QED BY <1>1, <1>5, <3>2, <4>1, <4>2
    <3>3. CASE k = n + 1
      <4>1. k - 1 = n /\ n \in 0 .. n /\ k # 0
        BY <3>3
      <4> QED BY <1>1, <1>5, <3>3, <4>1
    <3> QED BY <3>1, <3>2, <3>3
  <2>2. N = [k \in 0 .. n + 1 |-> N[k]]
    BY <1>4
  <2>3. N = [k \in 0 .. n + 1 |-> IF k = 0 THEN FirstValues
                                 ELSE AfterOperation(script'[k], N[k - 1])]
    BY <2>1, <2>2
  <2> QED BY <1>1, <2>3 DEF Means, AfterOperation, Total, FirstValues
<1>7. Shaped(N)'
  <2>1. ASSUME NEW k \in 0 .. n + 1 PROVE ObjectsOfRanks(N[k])
    <3>1. CASE k \in 0 .. n
      BY <1>5, <3>1 DEF Shaped
    <3>2. CASE k = n + 1
      <4>1. ObjectsOfRanks(M[n])
        BY DEF Shaped
      <4>2. ObjectsOfRanks(AfterOperation(op, M[n]))
        BY <4>1, ObjectsStay
      <4> QED BY <1>5, <3>2, <4>2
    <3> QED BY <3>1, <3>2
  <2> QED BY <1>1, <2>1 DEF Shaped, ObjectsOfRanks, IsObject
<1> QED BY <1>3, <1>5, <1>6, <1>7

------------------------------------------------------------------------------
(* Calls.                                                                  *)

\* What a rank reads of the object of another is that object, whatever its own.
LEMMA Unpacked ==
  ASSUME NEW v, IsObject(v), NEW w
  PROVE  DeBinarize([Binarize(w) EXCEPT !.buf = Binarize(v).buf]) = v
<1>1. PICK a, b : a = v.x /\ b = v.y
  OBVIOUS
<1>2. PICK c, d : c = w.x /\ d = w.y
  OBVIOUS
<1>3. PICK buf : buf = Append(Append(<<>>, a), b)
  OBVIOUS
<1>4. buf[0 + 1] = a /\ buf[1 + 1] = b
  <2>1. <<>> \in Seq({a, b}) /\ a \in {a, b} /\ b \in {a, b}
    OBVIOUS
  <2>2. Append(<<>>, a) \in Seq({a, b}) /\ Len(Append(<<>>, a)) = 1 /\ Append(<<>>, a)[1] = a
    BY <2>1
  <2>3. buf[1] = a /\ buf[2] = b
    BY <1>3, <2>1, <2>2
  <2> QED BY <2>3
<1>5. Binarize(v).buf = buf
  BY <1>1, <1>3 DEF Binarize, PushBack, NewBinarizer
<1>6. [Binarize(w) EXCEPT !.buf = Binarize(v).buf] = [buf |-> buf, readPos |-> 0]
  <2>1. PICK e : e = Append(Append(<<>>, c), d)
    OBVIOUS
  <2>2. Binarize(w) = [buf |-> e, readPos |-> 0]
    <3>1. PushBack(NewBinarizer, c) = [buf |-> Append(<<>>, c), readPos |-> 0]
      BY DEF PushBack, NewBinarizer
    <3>2. PICK g : g = Append(<<>>, c)
      OBVIOUS
    <3>3. PushBack([buf |-> g, readPos |-> 0], d) = [buf |-> Append(g, d), readPos |-> 0]
      BY DEF PushBack
    <3> QED BY <1>2, <2>1, <3>1, <3>2, <3>3 DEF Binarize
  <2>3. [[buf |-> e, readPos |-> 0] EXCEPT !.buf = buf] = [buf |-> buf, readPos |-> 0]
    OBVIOUS
  <2> QED BY <1>5, <2>2, <2>3
<1>7. DeBinarize([buf |-> buf, readPos |-> 0]) = [x |-> a, y |-> b]
  <2>1. ReadAdvancing([buf |-> buf, readPos |-> 0])
          = [out |-> buf[0 + 1], bin |-> [buf |-> buf, readPos |-> 1]]
    BY DEF ReadAdvancing
  <2>2. ReadAdvancing([buf |-> buf, readPos |-> 1]).out = buf[1 + 1]
    BY DEF ReadAdvancing
  <2> QED BY <1>4, <2>1, <2>2 DEF DeBinarize
<1> QED BY <1>1, <1>6, <1>7 DEF IsObject

\* No collective of the body is called while a rank waits for the debugger or in turns.
LEMMA NotInTheLoop ==
  ASSUME Len(script) \in Nat, NEW C, NEW T, Counts(C, T), NEW j \in Steps, InTurns(j),
         NEW i \in 0 .. NRanks - 1, NEW k \in 1 .. Len(script), Collective(k)
  PROVE  C[k] # C[j] + i
<1>1. NRanks \in Nat /\ j \in Nat /\ j \in 0 .. Len(script) + 1 /\ k \in 0 .. Len(script) + 1
  BY RanksAreNumbers DEF Steps
<1>2. PICK c \in Nat, d \in Nat : c = C[j] /\ d = C[k]
  BY <1>1, CountsAreNumbers
<1>3. j # k
  BY DEF InTurns, Collective
<1>4. CASE j < k
  <2>1. c + NRanks <= d
    BY <1>1, <1>2, <1>4, LoopCounts
  <2>2. c + i < d
    BY <1>1, <2>1
  <2> QED BY <1>2, <2>2
<1>5. CASE k < j
  <2>1. k \in 0 .. j - 1
    BY <1>1, <1>5
  <2>2. C[k] + StepCalls(k) <= C[j] /\ StepCalls(k) = 1
    BY <1>1, <2>1 DEF Counts, StepCalls, Collective
  <2>3. d < c + i
    BY <1>2, <2>2
  <2> QED BY <1>2, <2>3
<1> QED BY <1>1, <1>3, <1>4, <1>5

\* Each collective of the body has its own number.
LEMMA OwnNumber ==
  ASSUME Len(script) \in Nat, NEW C, NEW T, Counts(C, T),
         NEW j \in 1 .. Len(script), Collective(j), NEW k \in 1 .. Len(script), Collective(k),
         C[j] = C[k]
  PROVE  j = k
<1>1. ASSUME NEW m \in 1 .. Len(script), Collective(m), NEW l \in 1 .. Len(script), m < l
      PROVE  C[m] # C[l]
  <2>1. m \in 0 .. l - 1 /\ l \in 0 .. Len(script) + 1 /\ m \in 0 .. Len(script) + 1
    BY <1>1
  <2>2. PICK c \in Nat, d \in Nat : c = C[m] /\ d = C[l]
    BY <2>1, CountsAreNumbers
  <2>3. C[m] + StepCalls(m) <= C[l] /\ StepCalls(m) = 1
    BY <1>1, <2>1 DEF Counts, StepCalls, Collective
  <2> QED BY <2>2, <2>3
<1> QED BY <1>1

\* A call more, which is that of its number if a collective has it.
LEMMA CallsStayMeant ==
  ASSUME TurnsTyped, NEW C, NEW M, CallsMeant(C, M), UNCHANGED script,
         \A k \in 1 .. Len(script) : C[k] \in Nat,
         NEW r \in Ranks, NEW call, Call(r, call),
         \A k \in 1 .. Len(script) :
             Collective(k) /\ C[k] = Latest(r) => call = CallFor(k, M[k - 1][r])
  PROVE  CallsMeant(C, M)'
<1>1. /\ Latest(r) \in Nat /\ Latest(r)' = Latest(r) + 1
      /\ calls'[r][Latest(r) + 1] = call
      /\ \A s \in Ranks \ {r} : Latest(s)' = Latest(s) /\ calls'[s] = calls[s]
  BY OneMoreCall
<1>2. \A i \in 1 .. Latest(r) : calls'[r][i] = calls[r][i]
  <2>1. PICK S : calls[r] \in Seq(S)
    BY DEF TurnsTyped
  <2>2. calls'[r] = Append(calls[r], call)
    BY DEF Call, TurnsTyped
  <2>3. calls[r] \in Seq(S \cup {call}) /\ call \in S \cup {call}
    BY <2>1
  <2> QED BY <2>2, <2>3 DEF Latest
<1>3. ASSUME NEW s \in Ranks, NEW k \in 1 .. Len(script), Collective(k), C[k] < Latest(s)'
      PROVE  calls'[s][C[k] + 1] = CallFor(k, M[k - 1][s])
  <2>1. CASE s # r
    BY <1>1, <1>3, <2>1 DEF CallsMeant
  <2>2. CASE s = r /\ C[k] = Latest(r)
    BY <1>1, <1>3, <2>2
  <2>3. CASE s = r /\ C[k] # Latest(r)
    <3>1. C[k] < Latest(r) /\ C[k] + 1 \in 1 .. Latest(r)
      BY <1>1, <1>3, <2>3
    <3> QED BY <1>2, <1>3, <2>3, <3>1 DEF CallsMeant
  <2> QED BY <2>1, <2>2, <2>3
<1>4. \A k : (Collective(k)' <=> Collective(k)) /\ \A v : CallFor(k, v)' = CallFor(k, v)
  BY DEF Collective, CallFor, Binarize, PushBack, NewBinarizer
<1> QED BY <1>3, <1>4 DEF CallsMeant

------------------------------------------------------------------------------
(* The steps of a rank.                                                    *)

\* The program is as it was, and so is what it means.
LEMMA MeaningKept ==
  ASSUME UNCHANGED script, NEW M
  PROVE  (Means(M)' <=> Means(M)) /\ (Shaped(M)' <=> Shaped(M)) /\ (OneMeaning' <=> OneMeaning)
<1>1. \A N : Means(N)' <=> Means(N)
  BY DEF Means, AfterOperation, Total, FirstValues
<1>2. Shaped(M)' <=> Shaped(M)
  BY DEF Shaped, ObjectsOfRanks, IsObject
<1> QED BY <1>1, <1>2 DEF OneMeaning

\* A rank that has the objects and the calls it had.
LEMMA SaidKept ==
  ASSUME NEW C, NEW M, Said(C, M), UNCHANGED <<script, value, nDone, calls>>
  PROVE  Said(C, M)'
<1>1. Means(M)' /\ Shaped(M)'
  BY MeaningKept DEF Said
<1>2. ValuesMeant(M)'
  BY DEF Said, ValuesMeant
<1>3. /\ \A k : (Collective(k)' <=> Collective(k)) /\ \A v : CallFor(k, v)' = CallFor(k, v)
      /\ \A s : Latest(s)' = Latest(s)
  BY DEF Collective, CallFor, Binarize, PushBack, NewBinarizer, Latest
<1>4. CallsMeant(C, M)'
  BY <1>3 DEF Said, CallsMeant
<1> QED BY <1>1, <1>2, <1>4 DEF Said

\* A rank calls, with the object it has.
LEMMA SaidWhenCalling ==
  ASSUME TurnsTyped, NEW C, NEW M, Said(C, M), UNCHANGED <<script, value, nDone>>,
         \A k \in 1 .. Len(script) : C[k] \in Nat,
         NEW r \in Ranks, NEW call, Call(r, call),
         \A k \in 1 .. Len(script) :
             Collective(k) /\ C[k] = Latest(r) => call = CallFor(k, M[k - 1][r])
  PROVE  Said(C, M)'
<1>1. Means(M)' /\ Shaped(M)'
  BY MeaningKept DEF Said
<1>2. ValuesMeant(M)'
  BY DEF Said, ValuesMeant
<1>3. CallsMeant(C, M)'
  BY CallsStayMeant DEF Said
<1> QED BY <1>1, <1>2, <1>3 DEF Said

\* A rank has done an operation, and has the object the program meant.
LEMMA SaidWhenDone ==
  ASSUME LInv, NEW C, NEW M, Said(C, M), UNCHANGED <<script, calls>>,
         NEW r \in Ranks, nDone[r] < Len(script), nDone' = [nDone EXCEPT ![r] = @ + 1],
         NEW v, value' = [value EXCEPT ![r] = v], v = M[nDone[r] + 1][r]
  PROVE  Said(C, M)'
<1>1. Means(M)' /\ Shaped(M)'
  BY MeaningKept DEF Said
<1>2. /\ nDone'[r] = nDone[r] + 1 /\ value'[r] = v
      /\ \A s \in Ranks \ {r} : nDone'[s] = nDone[s] /\ value'[s] = value[s]
      /\ value' = [s \in Ranks |-> value'[s]]
  BY DEF LInv, RanksTyped, Said, ValuesMeant
<1>3. ValuesMeant(M)'
  BY <1>2 DEF Said, ValuesMeant
<1>4. /\ \A k : (Collective(k)' <=> Collective(k)) /\ \A w : CallFor(k, w)' = CallFor(k, w)
      /\ \A s : Latest(s)' = Latest(s)
  BY DEF Collective, CallFor, Binarize, PushBack, NewBinarizer, Latest
<1>5. CallsMeant(C, M)'
  BY <1>4 DEF Said, CallsMeant
<1> QED BY <1>1, <1>3, <1>5 DEF Said

\* What a collective leaves is what the program meant: the calls met are those of the
\* same operation, with the objects the ranks had before it.
LEMMA CollectiveLeaves ==
  ASSUME LInv, TurnsTyped, NEW C, NEW T, Facts(C, T), NEW M, Said(C, M),
         NEW r \in Ranks, pc[r] = "collective", Returns(r)
  PROVE  (IF Now(r).kind = "broadcast" THEN Broadcast(r) ELSE AllReduce(r)) = M[nDone[r] + 1][r]
<1>1. PICK n \in Nat : n = nDone[r]
  BY DEF LInv, RanksTyped
<1>2. PICK k : k = n + 1
  OBVIOUS
<1>3. /\ Len(script) \in Nat /\ n < Len(script)
      /\ script[k].kind \in {"broadcast", "allReduce"} /\ Now(r) = script[k]
  <2>1. Len(script) \in Nat
    BY StateNumbers
  <2> QED BY <1>1, <1>2, <2>1 DEF LInv, DoingNext, Now
<1>4. k \in 1 .. Len(script) /\ k - 1 = n /\ n \in 0 .. Len(script) /\ Collective(k)
  BY <1>1, <1>2, <1>3 DEF Collective
<1>5. script[k] \in Ops
  BY <1>4 DEF LInv, ScriptTyped
<1>6. PICK c \in Nat : c = C[k]
  <2>1. k \in 0 .. Len(script) + 1
    BY <1>3, <1>4
  <2> QED BY <1>3, <2>1, CountsAreNumbers DEF Facts
<1>7. Latest(r) = c + 1
  BY <1>1, <1>2, <1>6 DEF Facts, Placed, PlacedLooping, PlacedOutside
<1>8. ASSUME NEW s \in Ranks, Meets(r, s) PROVE Buffer(s, r) = CallFor(k, M[n][s]).in
  <2>1. C[k] < Latest(s)
    <3>1. Latest(s) >= c + 1 /\ Latest(s) \in Nat
      BY <1>7, <1>8, StateNumbers DEF Meets, Latest
    <3> QED BY <1>6, <3>1
  <2>2. calls[s][c + 1] = CallFor(k, M[n][s])
    BY <1>4, <1>6, <2>1 DEF Said, CallsMeant
  <2> QED BY <1>7, <2>2 DEF Buffer
<1>9. calls[r][Latest(r)] = CallFor(k, M[n][r])
  <2>1. C[k] < Latest(r)
    BY <1>6, <1>7
  <2> QED BY <1>4, <1>6, <1>7, <2>1 DEF Said, CallsMeant
<1>10. M[k] = AfterOperation(script[k], M[n]) /\ ObjectsOfRanks(M[n])
  <2>1. M[k] = AfterOperation(script[k], M[k - 1])
    BY <1>3, <1>4, MeaningAt DEF Said
  <2> QED BY <1>4, <2>1 DEF Said, Shaped
<1>11. CASE script[k].kind = "broadcast"
  <2>1. PICK root \in Ranks : root = script[k].root
    BY <1>5, <1>11 DEF Ops, TimerKinds
  <2>2. calls[r][Latest(r)].kind = "broadcast" /\ calls[r][Latest(r)].root = root
    BY <1>9, <1>11, <2>1 DEF CallFor
  <2>3. Buffer(root, r) = Binarize(M[n][root])
    <3>1. Meets(r, root)
      BY <2>2 DEF Returns
    <3>2. Buffer(root, r) = CallFor(k, M[n][root]).in
      BY <1>8, <3>1
    <3> QED BY <1>11, <3>2 DEF CallFor
  <2>4. IsObject(M[n][root])
    BY <1>10 DEF ObjectsOfRanks
  <2>5. Broadcast(r) = M[n][root]
    <3>1. Broadcast(r) = DeBinarize([Binarize(value[r]) EXCEPT !.buf = Binarize(M[n][root]).buf])
      BY <2>2, <2>3 DEF Broadcast
    <3> QED BY <2>4, <3>1, Unpacked
  <2>6. M[k][r] = M[n][root]
    BY <1>10, <1>11, <2>1 DEF AfterOperation
  <2> QED BY <1>1, <1>2, <1>3, <1>11, <2>5, <2>6
<1>12. CASE script[k].kind = "allReduce"
  <2>1. calls[r][Latest(r)].kind = "allReduce"
    BY <1>9, <1>12 DEF CallFor
  <2>2. ASSUME NEW s \in Ranks PROVE Buffer(s, r) = M[n][s]
    <3>1. Meets(r, s)
      BY <2>1 DEF Returns
    <3>2. Buffer(s, r) = CallFor(k, M[n][s]).in
      BY <1>8, <3>1
    <3> QED BY <1>12, <3>2 DEF CallFor
  <2>3. [s \in Ranks |-> Buffer(s, r)] = M[n]
    BY <1>10, <2>2 DEF ObjectsOfRanks
  <2>4. AllReduce(r) = Total(M[n])
    BY <2>3 DEF AllReduce
  <2>5. M[k][r] = Total(M[n])
    BY <1>10, <1>12 DEF AfterOperation
  <2> QED BY <1>1, <1>2, <1>3, <1>12, <2>4, <2>5
<1> QED BY <1>3, <1>11, <1>12

LEMMA SaidOfStep ==
  ASSUME LInv, TurnsTyped, SameEnvironment, NEW C, NEW T, Facts(C, T), NEW M, Said(C, M),
         NEW r \in Ranks, Step(r)
  PROVE  Said(C, M)' /\ UNCHANGED script
<1>1. /\ Len(script) \in Nat /\ Counts(C, T) /\ C[0] = 0 /\ 0 \in Steps /\ Placed(r, C)
      /\ NRanks \in Nat /\ nDone[r] \in Nat /\ nDone[r] \in 0 .. Len(script)
  <2>1. Counts(C, T) /\ Placed(r, C)
    BY DEF Facts
  <2> QED BY <2>1, StateNumbers, RanksAreNumbers DEF Counts, Steps
<1>2. \A k \in 1 .. Len(script) : C[k] \in Nat
  BY <1>1, CountsAreNumbers
<1>3. CASE \/ Initialize(r) \/ ReadAll(r) \/ Attach(r) \/ TakeTurn(r) \/ EndTurn(r)
           \/ Attached(r) \/ Services(r) \/ InTurn(r) \/ MinimalCrash(r) \/ Finalize(r)
  <2>1. UNCHANGED <<script, value, nDone, calls>>
    BY <1>3 DEF Initialize, ReadAll, Attach, TakeTurn, EndTurn, Attached, Services, InTurn,
                MinimalCrash, Finalize
  <2> QED BY <2>1, SaidKept
<1>4. CASE EnterLoop(r)
  <2>1. /\ pc[r] = "loop" /\ iRank[r] < NRanks /\ Call(r, BarrierCall)
        /\ UNCHANGED <<script, value, nDone>>
    BY <1>4 DEF EnterLoop
  <2>2. /\ InTurns(LoopStep(r)) /\ LoopStep(r) \in Steps
        /\ Latest(r) = C[LoopStep(r)] + iRank[r] + 0
    <3>1. PlacedLooping(r, C)
      BY <1>1, <2>1 DEF Placed, PlacedOutside
    <3> QED BY <1>1, <2>1, <3>1 DEF PlacedLooping, CallsAt, InTurns, Steps
  <2>3. iRank[r] \in 0 .. NRanks - 1
    BY <1>1, <2>1 DEF TurnsTyped
  <2>4. C[LoopStep(r)] \in Nat
    BY <1>1, <2>2, LoopCounts
  <2>5. \A k \in 1 .. Len(script) : Collective(k) => C[k] # Latest(r)
    BY <1>1, <2>2, <2>3, <2>4, NotInTheLoop
  <2> QED BY <1>2, <2>1, <2>5, SaidWhenCalling
<1>5. CASE Spin(r)
  <2>1. /\ pc[r] = "spin" /\ Call(r, BarrierCall) /\ UNCHANGED <<script, value, nDone>>
    BY <1>5 DEF Spin
  <2>2. Waiting /\ Latest(r) = NRanks + 0
    BY <1>1, <2>1 DEF Placed, PlacedLooping, PlacedOutside
  <2>3. StepCalls(0) = NRanks + 1
    BY <2>2 DEF StepCalls
  <2>4. ASSUME NEW k \in 1 .. Len(script) PROVE C[k] # Latest(r)
    <3>1. 0 \in 0 .. k - 1 /\ k \in 0 .. Len(script) + 1
      BY <1>1
    <3>2. C[0] + StepCalls(0) <= C[k]
      BY <1>1, <3>1 DEF Counts
    <3>3. 0 + (NRanks + 1) <= C[k]
      BY <1>1, <2>3, <3>2
    <3> QED BY <1>1, <1>2, <2>2, <3>3
  <2> QED BY <1>2, <2>1, <2>4, SaidWhenCalling
<1>6. CASE LeaveLoop(r)
  <2>1. CASE return[r] = "body"
    <3>1. /\ pc[r] = "loop" /\ nDone' = [nDone EXCEPT ![r] = @ + 1]
          /\ UNCHANGED <<script, value, calls>>
      BY <1>6, <2>1 DEF LeaveLoop
    <3>2. nDone[r] < Len(script) /\ script[nDone[r] + 1].kind = "inTurn"
      BY <2>1, <3>1 DEF LInv, DoingNext
    <3>3. M[nDone[r] + 1] = M[nDone[r]]
      <4>1. nDone[r] + 1 \in 1 .. Len(script) /\ (nDone[r] + 1) - 1 = nDone[r]
        BY <1>1, <3>2
      <4>2. M[nDone[r] + 1] = AfterOperation(script[nDone[r] + 1], M[nDone[r]])
        BY <1>1, <4>1, MeaningAt DEF Said
      <4> QED BY <3>2, <4>2 DEF AfterOperation
    <3>4. value' = [value EXCEPT ![r] = M[nDone[r]][r]]
      BY <3>1 DEF Said, ValuesMeant
    <3> QED BY <3>1, <3>2, <3>3, <3>4, SaidWhenDone
  <2>2. CASE return[r] # "body"
    <3>1. UNCHANGED <<script, value, nDone, calls>>
      BY <1>6, <2>2 DEF LeaveLoop, LInv, RanksTyped
    <3> QED BY <3>1, SaidKept
  <2> QED BY <2>1, <2>2
<1>7. CASE EnterCollective(r)
  <2>1. /\ pc[r] = "body" /\ nDone[r] < Len(script) /\ UNCHANGED <<script, value, nDone>>
        /\ Now(r) = script[nDone[r] + 1]
    BY <1>7 DEF EnterCollective, Does, Now
  <2>2. PICK k \in 1 .. Len(script) : k = nDone[r] + 1
    BY <1>1, <2>1
  <2>3. Latest(r) = C[k] + 0
    BY <1>1, <2>1, <2>2 DEF Placed, PlacedLooping, PlacedOutside
  <2>4. Collective(k) /\ Call(r, CallFor(k, value[r]))
    BY <1>7, <2>1, <2>2 DEF EnterCollective, Does, Collective, CallFor
  <2>5. value[r] = M[k - 1][r]
    <3>1. k - 1 = nDone[r]
      BY <1>1, <2>2
    <3> QED BY <3>1 DEF Said, ValuesMeant
  <2>6. ASSUME NEW j \in 1 .. Len(script), Collective(j), C[j] = Latest(r) PROVE j = k
    BY <1>1, <1>2, <2>3, <2>4, <2>6, OwnNumber
  <2>7. PICK call : call = CallFor(k, value[r])
    OBVIOUS
  <2>8. \A j \in 1 .. Len(script) :
           Collective(j) /\ C[j] = Latest(r) => call = CallFor(j, M[j - 1][r])
    BY <2>5, <2>6, <2>7
  <2>9. Call(r, call)
    BY <2>4, <2>7
  <2>10. Said(C, M)'
    BY <1>2, <2>1, <2>8, <2>9, SaidWhenCalling
  <2> QED BY <2>1, <2>10
<1>8. CASE LeaveCollective(r)
  <2>1. /\ pc[r] = "collective" /\ Returns(r) /\ nDone' = [nDone EXCEPT ![r] = @ + 1]
        /\ UNCHANGED <<script, calls>>
    BY <1>8 DEF LeaveCollective, DoneOne
  <2>2. PICK v : v = IF Now(r).kind = "broadcast" THEN Broadcast(r) ELSE AllReduce(r)
    OBVIOUS
  <2>3. value' = [value EXCEPT ![r] = v]
    BY <1>8, <2>2 DEF LeaveCollective
  <2>4. v = M[nDone[r] + 1][r]
    BY <2>1, <2>2, CollectiveLeaves
  <2>5. nDone[r] < Len(script)
    BY <2>1 DEF LInv, DoingNext
  <2> QED BY <2>1, <2>3, <2>4, <2>5, SaidWhenDone
<1>9. CASE UseTimer(r)
  <2>1. /\ nDone' = [nDone EXCEPT ![r] = @ + 1] /\ nDone[r] < Len(script)
        /\ script[nDone[r] + 1].kind \in {"start", "stop"}
        /\ UNCHANGED <<script, value, calls>>
    BY <1>9 DEF UseTimer, Does, DoneOne
  <2>2. M[nDone[r] + 1] = M[nDone[r]]
    <3>1. nDone[r] + 1 \in 1 .. Len(script) /\ (nDone[r] + 1) - 1 = nDone[r]
      BY <1>1, <2>1
    <3>2. M[nDone[r] + 1] = AfterOperation(script[nDone[r] + 1], M[nDone[r]])
      BY <1>1, <3>1, MeaningAt DEF Said
    <3> QED BY <2>1, <3>2 DEF AfterOperation
  <2>3. value' = [value EXCEPT ![r] = M[nDone[r]][r]]
    BY <2>1 DEF Said, ValuesMeant
  <2> QED BY <2>1, <2>2, <2>3, SaidWhenDone
<1> QED BY <1>3, <1>4, <1>5, <1>6, <1>7, <1>8, <1>9 DEF Step

------------------------------------------------------------------------------
(* The steps of the program, and the initial states.                       *)

\* A new operation has not been called by any rank.
LEMMA SaidOfOneMore ==
  ASSUME LInv, TurnsTyped, OneMeaning, NEW C, NEW T, Facts(C, T), NEW M, Said(C, M),
         NEW op \in Ops, Write(op)
  PROVE  OneMeaning' /\ \E C2, T2, M2 : Facts(C2, T2)' /\ Said(C2, M2)'
<1>1. script' = Append(script, op) /\ UNCHANGED <<value, nDone, calls>>
  BY DEF Write
<1>2. PICK n \in Nat : n = Len(script)
  BY StateNumbers
<1>3. script \in Seq(Ops) /\ \A r \in Ranks : nDone[r] \in 0 .. n /\ Latest(r) \in Nat
  BY <1>2, StateNumbers DEF LInv, ScriptTyped
<1>4. Len(script') = n + 1 /\ \A k \in 1 .. n : script'[k] = script[k]
  BY <1>1, <1>2, <1>3
<1>5. PICK C2, T2 : Facts(C2, T2)' /\ \A k \in 0 .. n + 1 : C2[k] = C[k]
  BY <1>2, TurnsOfOneMore
<1>6. OneMeaning' /\ \E N : Means(N)' /\ Shaped(N)' /\ \A k \in 0 .. n : N[k] = M[k]
  BY <1>1, <1>2, <1>3, OneMoreMeaning DEF Said
<1>7. PICK M2 : Means(M2)' /\ Shaped(M2)' /\ \A k \in 0 .. n : M2[k] = M[k]
  BY <1>6
<1>8. ValuesMeant(M2)'
  <2>1. \A r \in Ranks : value[r] = M2[nDone[r]][r]
    BY <1>3, <1>7 DEF Said, ValuesMeant
  <2> QED BY <1>1, <2>1 DEF Said, ValuesMeant
<1>9. CallsMeant(C2, M2)'
  <2>1. ASSUME NEW r \in Ranks, NEW k \in 1 .. n + 1, Collective(k)', C2[k] < Latest(r)
        PROVE  calls[r][C2[k] + 1] = CallFor(k, M2[k - 1][r])'
    <3>1. k \in 0 .. n + 1 /\ C2[k] = C[k]
      BY <1>5
    <3>2. k # n + 1
      <4>1. Latest(r) <= C[n + 1]
        BY <1>2 DEF Facts, Bounded
      <4>2. n + 1 \in 0 .. n + 1 /\ C[n + 1] \in Nat
        BY <1>2, CountsAreNumbers DEF Facts
      <4>3. ~(C[n + 1] < Latest(r))
        BY <1>3, <4>1, <4>2
      <4> QED BY <2>1, <3>1, <4>3
    <3>3. k \in 1 .. n /\ k - 1 \in 0 .. n
      BY <3>2
    <3>4. script'[k] = script[k] /\ M2[k - 1] = M[k - 1]
      BY <1>4, <1>7, <3>3
    <3>5. Collective(k)
      BY <1>2, <2>1, <3>3, <3>4 DEF Collective
    <3>6. calls[r][C[k] + 1] = CallFor(k, M[k - 1][r])
      BY <1>2, <2>1, <3>1, <3>3, <3>5 DEF Said, CallsMeant
    <3>7. CallFor(k, M2[k - 1][r])' = CallFor(k, M[k - 1][r])
      BY <3>4 DEF CallFor, Binarize, PushBack, NewBinarizer
    <3> QED BY <3>1, <3>6, <3>7
  <2>2. \A r : Latest(r)' = Latest(r)
    BY <1>1 DEF Latest
  <2> QED BY <1>1, <1>4, <2>1, <2>2 DEF CallsMeant
<1>10. Said(C2, M2)'
  BY <1>7, <1>8, <1>9 DEF Said
<1> QED BY <1>5, <1>6, <1>10

LEMMA InitCollectives == Init => CollectivesInv
<1> SUFFICES ASSUME Init, SameEnvironment
             PROVE  TurnsTyped /\ OneMeaning /\ \E C, T, M : Facts(C, T) /\ Said(C, M)
  BY DEF CollectivesInv
<1>1. TurnsTyped /\ \E C, T : Facts(C, T)
  BY InitTurns DEF TurnsInv
<1>2. PICK C, T : Facts(C, T)
  BY <1>1
<1>3. /\ script = <<>> /\ value = FirstValues /\ nDone = [r \in Ranks |-> 0]
      /\ calls = [r \in Ranks |-> <<>>]
  BY DEF Init
<1>4. Len(script) = 0
  BY <1>3
<1>5. PICK M : M = [k \in 0 .. 0 |-> FirstValues]
  OBVIOUS
<1>6. Means(M)
  BY <1>4, <1>5 DEF Means
<1>7. OneMeaning
  <2>1. ASSUME NEW N, Means(N) PROVE N = [k \in 0 .. 0 |-> FirstValues]
    BY <1>4, <2>1 DEF Means
  <2> QED BY <2>1 DEF OneMeaning
<1>8. M[0] = FirstValues /\ 0 \in 0 .. 0
  BY <1>5
<1>9. Shaped(M)
  <2>1. ObjectsOfRanks(FirstValues)
    BY DEF FirstValues, ObjectsOfRanks, IsObject
  <2> QED BY <1>4, <1>8, <2>1 DEF Shaped
<1>10. ValuesMeant(M)
  <2>1. value = [r \in Ranks |-> value[r]]
    BY <1>3 DEF FirstValues
  <2> QED BY <1>3, <1>8, <2>1 DEF ValuesMeant
<1>11. CallsMeant(C, M)
  BY <1>4 DEF CallsMeant
<1> QED BY <1>1, <1>2, <1>6, <1>7, <1>9, <1>10, <1>11 DEF Said

LEMMA CollectivesOfNext == LInv /\ CollectivesInv /\ [Next]_vars => CollectivesInv'
<1> SUFFICES ASSUME LInv, CollectivesInv, [Next]_vars, SameEnvironment'
             PROVE  /\ TurnsTyped' /\ OneMeaning'
                    /\ \E C, T, M : Facts(C, T)' /\ Said(C, M)'
  BY DEF CollectivesInv
<1>1. SameEnvironment
  <2>1. ASSUME NEW r \in Ranks, Step(r) PROVE env' = env
    BY <2>1 DEF Step, Initialize, ReadAll, Attach, EnterLoop, TakeTurn, EndTurn, LeaveLoop,
                Spin, Attached, Services, InTurn, EnterCollective, LeaveCollective,
                MinimalCrash, UseTimer, Finalize
  <2>2. ASSUME WriteCollective \/ WriteTimer PROVE env' = env
    BY <2>2 DEF WriteCollective, WriteTimer, Write
  <2>3. env' = env
    BY <2>1, <2>2 DEF Next, vars, lifeVars, ClockTicks, Debugger, Launcher, Signal, Fault
  <2> QED BY <2>3 DEF SameEnvironment
<1>2. TurnsTyped /\ OneMeaning /\ \E C, T, M : Facts(C, T) /\ Said(C, M)
  BY <1>1 DEF CollectivesInv
<1>3. PICK C, T, M : Facts(C, T) /\ Said(C, M)
  BY <1>2
<1>4. CASE \E r \in Ranks : Step(r)
  <2>1. PICK r \in Ranks : Step(r)
    BY <1>4
  <2>2. TurnsTyped' /\ Facts(C, T)'
    BY <1>1, <1>2, <1>3, <2>1, TurnsOfStep
  <2>3. Said(C, M)' /\ UNCHANGED script
    BY <1>1, <1>2, <1>3, <2>1, SaidOfStep
  <2>4. OneMeaning'
    BY <1>2, <2>3, MeaningKept
  <2> QED BY <2>2, <2>3, <2>4
<1>5. ASSUME NEW op \in Ops, Write(op)
      PROVE  /\ TurnsTyped' /\ OneMeaning'
             /\ \E C2, T2, M2 : Facts(C2, T2)' /\ Said(C2, M2)'
  <2>1. TurnsTyped'
    BY <1>2, <1>5 DEF Write, TurnsTyped
  <2> QED BY <1>2, <1>3, <1>5, <2>1, SaidOfOneMore
<1>6. CASE WriteCollective \/ WriteTimer
  <2>1. /\ [kind |-> "inTurn"] \in Ops /\ [kind |-> "allReduce"] \in Ops
        /\ \A root \in Ranks : [kind |-> "broadcast", root |-> root] \in Ops
        /\ \A kind \in {"start", "stop"}, path \in Paths : [kind |-> kind, path |-> path] \in Ops
    BY DEF Ops, TimerKinds
  <2>2. {MasterRank, NRanks - 1} \subseteq Ranks
    BY MasterIsARank, RanksAreNumbers
  <2> QED BY <1>5, <1>6, <2>1, <2>2 DEF WriteCollective, WriteTimer
<1>7. ASSUME UNCHANGED <<env, waitToAttachDebugger, iRank, return, script, nDone, value>>,
             UNCHANGED <<calls, log>>,
             \A s \in Ranks : pc'[s] = pc[s] \/ pc'[s] \in {"dead", "fault"}
      PROVE  /\ TurnsTyped' /\ OneMeaning'
             /\ \E C2, T2, M2 : Facts(C2, T2)' /\ Said(C2, M2)'
  <2>1. TurnsTyped' /\ Facts(C, T)'
    BY <1>2, <1>3, <1>7, RanksKept
  <2>2. Said(C, M)'
    BY <1>3, <1>7, SaidKept
  <2>3. OneMeaning'
    BY <1>2, <1>7, MeaningKept
  <2> QED BY <2>1, <2>2, <2>3
<1>8. CASE ClockTicks \/ Debugger \/ Launcher \/ UNCHANGED vars
  BY <1>7, <1>8 DEF ClockTicks, Debugger, Launcher, lifeVars, vars
<1>9. CASE \E r \in Ranks : Signal(r) \/ Fault(r)
  <2>1. PICK r \in Ranks : Signal(r) \/ Fault(r)
    BY <1>9
  <2>2. pc' \in {[pc EXCEPT ![r] = there] : there \in {"dead", "fault"}}
    BY <2>1 DEF Signal, Fault, Goes
  <2>3. \A s \in Ranks : pc'[s] = pc[s] \/ pc'[s] \in {"dead", "fault"}
    BY <2>2 DEF LInv, RanksTyped
  <2> QED BY <1>7, <2>1, <2>3 DEF Signal, Fault
<1> QED BY <1>4, <1>6, <1>8, <1>9 DEF Next

------------------------------------------------------------------------------
(* The theorems.                                                           *)

\* With the same environment on all ranks, the object of each rank is what the program
\* meant it to be after the operations the rank has done, and the calls it has made carry
\* what the program meant at their numbers (`Mpi.hpp:81-175`): the invariant of the next
\* theorem.
THEOREM CollectivesInductive == Spec => []CollectivesInv
<1>1. Init => CollectivesInv
  BY InitCollectives
<1>2. LInv /\ CollectivesInv /\ [Next]_vars => CollectivesInv'
  BY CollectivesOfNext
<1> QED BY <1>1, <1>2, StopwatchesInductive, PTL DEF Spec

\* For any number of ranks and any body: a broadcast of a binarizable object gives each
\* rank the object of the root, member by member (`binarize.hpp`), and a reduction the sum
\* of the objects, though ranks run ahead of each other (`Mpi.hpp:81-175`).
THEOREM CollectivesThere == Spec => []CollectivesAgree
<1>1. CollectivesInv => CollectivesAgree
  <2> SUFFICES ASSUME CollectivesInv, SameEnvironment
               PROVE  \A r \in Ranks : value[r] = Meant[nDone[r]][r]
    BY DEF CollectivesAgree
  <2>1. PICK C, M : Said(C, M) /\ OneMeaning
    BY DEF CollectivesInv
  <2>2. Means(Meant)
    BY <2>1, MeantIsMeaning DEF Said
  <2>3. M = Meant
    BY <2>1, <2>2 DEF Said, OneMeaning
  <2> QED BY <2>1, <2>3 DEF Said, ValuesMeant
<1> QED BY <1>1, CollectivesInductive, PTL

==============================================================================
