-------------------------- MODULE AuditRoundProofs --------------------------
(***************************************************************************)
(* Proofs about AuditRound, for any rules, runs, workers, API threads,     *)
(* requests, rounds and faults: the types and that a succeeded job has     *)
(* tried every rule, on either isolation; with serializable transactions   *)
(* that a round has one audit at a time, that an answered run is closed    *)
(* and that attempts are numbered; what keeps an exception out of a run    *)
(* called succeeded and out of a report that goes out; and that without    *)
(* faults an audit that is not over is not forgotten.                      *)
(***************************************************************************)
EXTENDS AuditRound, FiniteSetTheorems, WellFoundedInduction, TLAPS

-----------------------------------------------------------------------------
(* The largest of some bounded numbers.                                    *)

LEMMA MaxIn ==
  ASSUME NEW N \in Nat, NEW S \in SUBSET (0..N), S # {}
  PROVE  Max(S) \in S
<1>. DEFINE R == OpToRel(<, Nat)
            T == {N - x : x \in S}
<1>1. IsWellFoundedOn(R, Nat)
  BY NatLessThanWellFounded
<1>2. T \subseteq Nat /\ T # {}
  <2>1. \A x \in S : N - x \in Nat
    OBVIOUS
  <2>. QED
    BY <2>1
<1>3. ASSUME NEW z \in Nat, NEW y \in Nat, ~ (<<z, y>> \in R)
      PROVE  z >= y
  BY <1>3 DEF OpToRel
<1>4. PICK y \in T : \A z \in T : ~ (<<z, y>> \in R)
  <2>. HIDE DEF R, T
  <2>. QED
    BY <1>1, <1>2, WFMin
<1>5. \A z \in T : z >= y
  <2>. HIDE DEF R, T
  <2>. QED
    BY <1>2, <1>3, <1>4
<1>6. PICK x \in S : y = N - x
  OBVIOUS
<1>7. ASSUME NEW z \in S PROVE x >= z
  <2>1. N - z >= N - x
    BY <1>5, <1>6
  <2>. QED
    BY <2>1
<1>. QED
  BY <1>7, Zenon DEF Max

-----------------------------------------------------------------------------
(* Types, on either isolation.                                             *)

WorkerPC == {"idle", "claimed", "next", "recording", "finish", "failjob", "requeue",
             "refused"}

HandlerPC == {"idle", "recording", "reporting", "starting", "rerunning", "publishing"}

Recording == {"recording", "reporting"}

Naming == {"starting", "rerunning", "publishing"}

\* Who is neither idle nor about to write to a round works on a run.
OnRun(a) == pc[a] \notin {"idle"} \cup Naming

Made(r) == run[r].kind # "none"

Created == {r \in Runs : Made(r)}

Roles ==
  /\ \A c \in Workers : pc[c] \in WorkerPC
  /\ \A h \in Handlers : pc[h] \in HandlerPC /\ todo[h] = {}
  /\ \A c \in Workers : pc[c] \in {"idle", "claimed"} => todo[c] = {} /\ ~bad[c]
  /\ \A a \in Actors : pc[a] \in Naming => where[a] \in Rounds

\* A run that is worked on has been created; what is recorded, or listed to be
\* recorded, is an execution of it.
Working ==
  \A a \in Actors :
    /\ OnRun(a) =>
         /\ at[a] \in Runs /\ Made(at[a])
         /\ \A k \in todo[a] : exec[at[a]][k].status # "none"
    /\ pc[a] \in Recording => rule[a] \in Rules /\ exec[at[a]][rule[a]].status # "none"

RunsFilled ==
  \A r \in Runs :
    /\ ~Made(r) => /\ run[r] = NoRunRow /\ job[r] = "absent"
                   /\ \A k \in Rules : exec[r][k].status = "none"
    /\ Made(r) => run[r].round \in Rounds /\ job[r] # "absent"

\* There are at least as many runs as the largest number of one.
Numbered ==
  /\ \A r \in Runs : run[r].no <= Cardinality(Created)
  /\ \A a \in Actors : snap[a].no <= Cardinality(Created)

ActorsTyped ==
  /\ pc \in [Actors -> PC]
  /\ at \in [Actors -> Runs \cup {NoRun}]
  /\ rule \in [Actors -> Rules \cup {NoRule}]
  /\ where \in [Actors -> 0..MaxRounds]
  /\ todo \in [Actors -> SUBSET Rules]
  /\ bad \in [Actors -> BOOLEAN]
  /\ snap \in [Actors -> [execs : [Rules -> Execution], no : 0..Cardinality(Runs)]]

JobStatus == {"absent", "queued", "running", "succeeded", "failed", "canceled"}

RunsTyped ==
  /\ run \in [Runs -> RunRow]
  /\ exec \in [Runs -> [Rules -> Execution]]
  /\ job \in [Runs -> JobStatus]
  /\ issue \in [Rounds -> [Rules -> {"none", "open", "decided"}]]

TaskStatus == (RoundStatus \ {"absent"}) \cup {"in_new_round"}

RoundsTyped ==
  /\ task \in [status : TaskStatus, round : Rounds]
  /\ round \in [Rounds -> RoundStatus]
  /\ report \in [Rounds -> {"none", "draft", "published"}]

LimitsTyped == requests \in 0..MaxRequests /\ faults \in 0..MaxFaults

TypeInv ==
  /\ ActorsTyped /\ RunsTyped /\ RoundsTyped /\ LimitsTyped
  /\ Roles /\ Working /\ RunsFilled /\ Numbered

LEMMA TypesMeet == TypeInv => TypeOK
  BY DEF TypeInv, TypeOK, ActorsTyped, RunsTyped, RoundsTyped, LimitsTyped, JobStatus, TaskStatus

LEMMA Members ==
  /\ \A c \in Workers : c \in Actors /\ c \notin Handlers
  /\ \A h \in Handlers : h \in Actors /\ h \notin Workers
  BY AuditAssumption DEF Actors

LEMMA Sizes ==
  /\ Cardinality(Runs) \in Nat
  /\ IsFiniteSet(Created) /\ Cardinality(Created) \in Nat
  /\ Cardinality(Created) <= Cardinality(Runs)
<1>1. Created \subseteq Runs
  BY DEF Created
<1>. QED
  BY <1>1, AuditAssumption, FS_Subset, FS_CardinalityType

LEMMA Unstarted ==
  /\ NoExecution \in Execution /\ NoExecution.status = "none"
  /\ NoExecution.attempts = 0 /\ NoExecution.last = 0 /\ NoExecution.expired = FALSE
  BY DEF NoExecution, Execution

LEMMA NothingRead ==
  /\ NoSnap \in [execs : [Rules -> Execution], no : 0..Cardinality(Runs)]
  /\ NoSnap.no = 0
  BY Unstarted, Sizes DEF NoSnap

LEMMA InitTypes == Init => TypeInv
<1>. SUFFICES ASSUME Init PROVE TypeInv
  OBVIOUS
<1>1. ActorsTyped
  BY NothingRead, AuditAssumption DEF Init, ActorsTyped, PC
<1>2. RunsTyped
  <2>1. NoRunRow \in RunRow
    BY Sizes, AuditAssumption DEF RunRow, NoRunRow
  <2>. QED
    BY <2>1, Unstarted DEF Init, RunsTyped, JobStatus
<1>3. RoundsTyped
  BY AuditAssumption DEF Init, RoundsTyped, Rounds, RoundStatus, TaskStatus
<1>4. LimitsTyped
  BY AuditAssumption DEF Init, LimitsTyped
<1>5. \A a \in Actors : pc[a] = "idle" /\ snap[a].no = 0
  BY NothingRead DEF Init
<1>6. Roles /\ Working
  BY <1>5, Members DEF Init, Roles, Working, OnRun, WorkerPC, HandlerPC, Recording, Naming
<1>7. \A r \in Runs : run[r] = NoRunRow /\ ~Made(r)
  BY DEF Init, Made, NoRunRow
<1>8. RunsFilled
  BY <1>7, Unstarted DEF Init, RunsFilled
<1>9. Numbered
  BY <1>5, <1>7, Sizes DEF Numbered, NoRunRow
<1>. QED
  BY <1>1, <1>2, <1>3, <1>4, <1>6, <1>8, <1>9 DEF TypeInv

-----------------------------------------------------------------------------
(* How actors move.                                                        *)

\* The rest of the actors stay where they are.
Only(a) ==
  \A b \in Actors \ {a} :
    /\ pc'[b] = pc[b] /\ at'[b] = at[b] /\ rule'[b] = rule[b] /\ where'[b] = where[b]
    /\ todo'[b] = todo[b] /\ bad'[b] = bad[b] /\ snap'[b] = snap[b]

Turns(a, to) ==
  /\ Only(a)
  /\ pc'[a] = to /\ at'[a] = at[a] /\ rule'[a] = rule[a] /\ where'[a] = where[a]
  /\ todo'[a] = todo[a] /\ bad'[a] = bad[a] /\ snap'[a] = snap[a]

Ends(a) ==
  /\ Only(a)
  /\ pc'[a] = "idle" /\ at'[a] = NoRun /\ rule'[a] = NoRule /\ where'[a] = 0
  /\ todo'[a] = {} /\ bad'[a] = FALSE /\ snap'[a] = NoSnap

LEMMA StayMoves ==
  ASSUME ActorsTyped, UNCHANGED actorVars
  PROVE  ActorsTyped' /\ \A a \in Actors : Turns(a, pc[a])
  BY DEF ActorsTyped, actorVars, Turns, Only

LEMMA GotoMoves ==
  ASSUME ActorsTyped, NEW a \in Actors, NEW to \in PC, Goto(a, to)
  PROVE  ActorsTyped' /\ Turns(a, to)
  BY DEF ActorsTyped, Goto, Only, Turns

LEMMA ReleaseMoves ==
  ASSUME ActorsTyped, NEW a \in Actors, Release(a)
  PROVE  ActorsTyped' /\ Ends(a)
<1>1. 0 \in 0..MaxRounds /\ "idle" \in PC
  BY AuditAssumption DEF PC
<1>2. Only(a)
  BY DEF ActorsTyped, Release, Only
<1>3. /\ pc'[a] = "idle" /\ at'[a] = NoRun /\ rule'[a] = NoRule /\ where'[a] = 0
      /\ todo'[a] = {} /\ bad'[a] = FALSE /\ snap'[a] = NoSnap
  BY DEF ActorsTyped, Release
<1>4. ActorsTyped'
  BY <1>1, NothingRead DEF ActorsTyped, Release
<1>. QED
  BY <1>2, <1>3, <1>4 DEF Ends

Snaps == [execs : [Rules -> Execution], no : 0..Cardinality(Runs)]

LEMMA NumberRead ==
  ASSUME ActorsTyped, NEW a \in Actors, NEW n \in 0..Cardinality(Runs),
         snap' = [snap EXCEPT ![a].no = n]
  PROVE  /\ snap' \in [Actors -> Snaps]
         /\ snap'[a] = [execs |-> snap[a].execs, no |-> n]
         /\ \A b \in Actors \ {a} : snap'[b] = snap[b]
<1>1. [snap[a] EXCEPT !.no = n] = [execs |-> snap[a].execs, no |-> n]
  BY DEF ActorsTyped
<1>2. [execs |-> snap[a].execs, no |-> n] \in Snaps
  BY DEF ActorsTyped, Snaps
<1>3. snap' = [snap EXCEPT ![a] = [execs |-> snap[a].execs, no |-> n]]
  BY <1>1
<1>. QED
  BY <1>2, <1>3 DEF ActorsTyped, Snaps

LEMMA ExecutionsRead ==
  ASSUME ActorsTyped, NEW a \in Actors, NEW e \in [Rules -> Execution],
         snap' = [snap EXCEPT ![a].execs = e]
  PROVE  /\ snap' \in [Actors -> Snaps]
         /\ snap'[a] = [execs |-> e, no |-> snap[a].no]
         /\ \A b \in Actors \ {a} : snap'[b] = snap[b]
<1>1. [snap[a] EXCEPT !.execs = e] = [execs |-> e, no |-> snap[a].no]
  BY DEF ActorsTyped
<1>2. [execs |-> e, no |-> snap[a].no] \in Snaps
  BY DEF ActorsTyped, Snaps
<1>3. snap' = [snap EXCEPT ![a] = [execs |-> e, no |-> snap[a].no]]
  BY <1>1
<1>. QED
  BY <1>2, <1>3 DEF ActorsTyped, Snaps

\* The numbers read are those of runs that exist.
LEMMA LastNoBounded ==
  ASSUME TypeInv, NEW d
  PROVE  /\ LastNo(d) \in 0..Cardinality(Runs) /\ LastNo(d) <= Cardinality(Created)
<1>. DEFINE S == {run[r].no : r \in RunsOf(d)} \cup {0}
<1>1. S \in SUBSET (0..Cardinality(Created)) /\ S # {}
  <2>1. \A r \in Runs : run[r].no \in Nat /\ run[r].no <= Cardinality(Created)
    BY Sizes DEF TypeInv, RunsTyped, RunRow, Numbered
  <2>. QED
    BY <2>1, Sizes DEF RunsOf
<1>2. Max(S) \in S
  <2>. HIDE DEF S
  <2>. QED
    BY <1>1, Sizes, MaxIn
<1>3. Max(S) \in 0..Cardinality(Created)
  BY <1>1, <1>2
<1>. QED
  BY <1>3, Sizes DEF LastNo

LEMMA LastNoRead ==
  ASSUME TypeInv, NEW a \in Actors, NEW d, snap' = [snap EXCEPT ![a].no = LastNo(d)]
  PROVE  /\ snap' \in [Actors -> Snaps] /\ \A b \in Actors \ {a} : snap'[b] = snap[b]
         /\ snap'[a].no <= Cardinality(Created)
<1>1. /\ LastNo(d) \in 0..Cardinality(Runs) /\ LastNo(d) <= Cardinality(Created)
      /\ ActorsTyped
  BY LastNoBounded DEF TypeInv
<1>2. /\ snap' \in [Actors -> Snaps]
      /\ snap'[a] = [execs |-> snap[a].execs, no |-> LastNo(d)]
      /\ \A b \in Actors \ {a} : snap'[b] = snap[b]
  BY <1>1, NumberRead
<1>. QED
  BY <1>1, <1>2

-----------------------------------------------------------------------------
(* What is kept when no run is created.                                    *)

RunsStay ==
  \A r \in Runs :
    /\ run'[r].kind = run[r].kind /\ run'[r].round = run[r].round /\ run'[r].no = run[r].no
    /\ ~Made(r) => run'[r] = run[r] /\ job'[r] = job[r]
    /\ Made(r) => job'[r] # "absent"
    /\ \A k \in Rules : exec'[r][k].status = "none" <=> exec[r][k].status = "none"

LEMMA StayTypes ==
  ASSUME TypeInv, NEW a \in Actors, Only(a), RunsStay,
         ActorsTyped', RunsTyped', RoundsTyped', LimitsTyped',
         a \in Workers =>
           /\ pc'[a] \in WorkerPC
           /\ pc'[a] \in {"idle", "claimed"} => todo'[a] = {} /\ ~bad'[a],
         a \in Handlers => pc'[a] \in HandlerPC /\ todo'[a] = {},
         pc'[a] \in Naming => where'[a] \in Rounds,
         OnRun(a)' =>
           /\ at'[a] \in Runs /\ Made(at'[a])
           /\ \A k \in todo'[a] : exec[at'[a]][k].status # "none",
         pc'[a] \in Recording => rule'[a] \in Rules /\ exec[at'[a]][rule'[a]].status # "none",
         snap'[a].no <= Cardinality(Created)
  PROVE  TypeInv'
<1>1. Roles'
  BY Members DEF TypeInv, Roles, Only
<1>2. \A r \in Runs : Made(r)' <=> Made(r)
  BY DEF RunsStay, Made
<1>3. Working'
  <2>1. ASSUME NEW b \in Actors, OnRun(b)'
        PROVE  /\ at'[b] \in Runs /\ Made(at'[b])
               /\ \A k \in todo'[b] : k \in Rules /\ exec[at'[b]][k].status # "none"
    <3>1. todo'[b] \subseteq Rules
      BY DEF ActorsTyped
    <3>2. CASE b = a
      BY <2>1, <3>1, <3>2
    <3>3. CASE b # a
      <4>1. OnRun(b) /\ at'[b] = at[b] /\ todo'[b] = todo[b]
        BY <2>1, <3>3 DEF Only, OnRun
      <4>. QED
        BY <3>1, <4>1 DEF TypeInv, Working
    <3>. QED
      BY <3>2, <3>3
  <2>2. ASSUME NEW b \in Actors, pc'[b] \in Recording
        PROVE  /\ OnRun(b)'
               /\ rule'[b] \in Rules /\ exec[at'[b]][rule'[b]].status # "none"
    BY <2>2 DEF TypeInv, Working, Only, OnRun, Recording, Naming
  <2>3. \A r \in Runs : Made(r) => run'[r].kind # "none"
    BY <1>2 DEF Made
  <2>4. \A r \in Runs, k \in Rules : exec[r][k].status # "none" => exec'[r][k].status # "none"
    BY DEF RunsStay
  <2>. QED
    BY <2>1, <2>2, <2>3, <2>4 DEF Working, Made
<1>4. RunsFilled'
  BY <1>2 DEF TypeInv, RunsFilled, RunsStay
<1>5. Created' = Created
  BY <1>2 DEF Created
<1>6. Numbered'
  BY <1>5 DEF TypeInv, Numbered, RunsStay, Only
<1>. QED
  BY <1>1, <1>3, <1>4, <1>6 DEF TypeInv

LEMMA SameRuns ==
  ASSUME TypeInv, run' = run, exec' = exec
  PROVE  \A r \in Runs :
           /\ run'[r].kind = run[r].kind /\ run'[r].round = run[r].round /\ run'[r].no = run[r].no
           /\ ~Made(r) => run'[r] = run[r]
           /\ \A k \in Rules : exec'[r][k].status = "none" <=> exec[r][k].status = "none"
  OBVIOUS

LEMMA UnchangedRuns ==
  ASSUME TypeInv, UNCHANGED runVars
  PROVE  RunsTyped' /\ RunsStay
  BY DEF TypeInv, RunsTyped, RunsStay, runVars, RunsFilled

LEMMA UnchangedRounds ==
  ASSUME TypeInv, UNCHANGED roundVars
  PROVE  RoundsTyped'
  BY DEF TypeInv, RoundsTyped, roundVars

LEMMA UnchangedLimits ==
  ASSUME TypeInv, UNCHANGED limitVars
  PROVE  LimitsTyped'
  BY DEF TypeInv, LimitsTyped, limitVars

LEMMA FaultCounted ==
  ASSUME TypeInv, Fault
  PROVE  LimitsTyped' /\ MaxFaults > 0
  BY AuditAssumption DEF TypeInv, LimitsTyped, Fault

LEMMA RequestCounted ==
  ASSUME TypeInv, NEW h, NEW kind, Request(h, kind)
  PROVE  LimitsTyped' /\ kind \in Requests /\ pc[h] = "idle" /\ Isolated(h)
  BY AuditAssumption DEF TypeInv, LimitsTyped, Request

\* An actor that moves and changes no row.
LEMMA MoveTypes ==
  ASSUME TypeInv, NEW a \in Actors, Only(a), ActorsTyped', LimitsTyped',
         UNCHANGED <<roundVars, runVars>>,
         a \in Workers =>
           /\ pc'[a] \in WorkerPC
           /\ pc'[a] \in {"idle", "claimed"} => todo'[a] = {} /\ ~bad'[a],
         a \in Handlers => pc'[a] \in HandlerPC /\ todo'[a] = {},
         pc'[a] \in Naming => where'[a] \in Rounds,
         OnRun(a)' =>
           /\ at'[a] \in Runs /\ Made(at'[a])
           /\ \A k \in todo'[a] : exec[at'[a]][k].status # "none",
         pc'[a] \in Recording => rule'[a] \in Rules /\ exec[at'[a]][rule'[a]].status # "none",
         snap'[a].no <= Cardinality(Created)
  PROVE  TypeInv'
  BY UnchangedRuns, UnchangedRounds, StayTypes

\* An actor that goes on with its run, or ends.
LEMMA PassTypes ==
  ASSUME TypeInv, NEW a \in Actors, ActorsTyped', RunsTyped', RunsStay, RoundsTyped', LimitsTyped',
         \/ Ends(a)
         \/ \E to : /\ Turns(a, to) /\ to \notin Recording \cup Naming
                    /\ OnRun(a) \/ to = "idle"
                    /\ a \in Workers => to \in WorkerPC \ {"idle", "claimed"}
                    /\ a \in Handlers => to \in HandlerPC
  PROVE  TypeInv'
<1>1. CASE Ends(a)
  <2>1. snap'[a].no <= Cardinality(Created)
    BY <1>1, NothingRead, Sizes DEF Ends
  <2>. QED
    BY <1>1, <2>1, StayTypes DEF Ends, OnRun, Recording, Naming, WorkerPC, HandlerPC
<1>2. ASSUME NEW to, Turns(a, to), to \notin Recording \cup Naming, OnRun(a) \/ to = "idle",
             a \in Workers => to \in WorkerPC \ {"idle", "claimed"}, a \in Handlers => to \in HandlerPC
      PROVE  TypeInv'
  <2>1. snap'[a].no <= Cardinality(Created)
    BY <1>2 DEF Turns, TypeInv, Numbered
  <2>2. OnRun(a)' =>
          /\ at'[a] \in Runs /\ Made(at'[a])
          /\ \A k \in todo'[a] : exec[at'[a]][k].status # "none"
    BY <1>2 DEF Turns, TypeInv, Working, OnRun
  <2>3. a \in Handlers => todo'[a] = {}
    BY <1>2 DEF Turns, TypeInv, Roles
  <2>. QED
    BY <1>2, <2>1, <2>2, <2>3, StayTypes DEF Turns
<1>. QED
  BY <1>1, <1>2

LEMMA JobWritten ==
  ASSUME TypeInv, NEW r \in Runs, Made(r), NEW s \in JobStatus \ {"absent"},
         job' = [job EXCEPT ![r] = s], UNCHANGED <<run, exec, issue>>
  PROVE  RunsTyped' /\ RunsStay
  BY DEF TypeInv, RunsTyped, RunsStay, RunsFilled

-----------------------------------------------------------------------------
(* What each action does, in full.                                         *)

\* A handler that begins a request leaves all rows alone.
Asks(h) == /\ TypeInv' /\ UNCHANGED <<roundVars, runVars>>
           /\ Only(h) /\ pc[h] = "idle" /\ Isolated(h)

LEMMA BeginStartEffect ==
  ASSUME TypeInv, NEW h \in Handlers, NEW d \in Rounds, BeginStart(h, d)
  PROVE  /\ Asks(h) /\ "start" \in Requests
         /\ \/ Ends(h)
            \/ /\ pc'[h] = "starting" /\ where'[h] = d /\ todo'[h] = {}
               /\ \A r \in RunsOf(d) : run[r].status # "queued"
<1>1. /\ LimitsTyped' /\ pc[h] = "idle" /\ Isolated(h) /\ h \in Actors
      /\ "start" \in Requests /\ UNCHANGED <<roundVars, runVars>>
  BY RequestCounted, Members DEF BeginStart
<1>2. CASE Release(h)
  <2>1. ActorsTyped' /\ Ends(h)
    BY <1>1, <1>2, ReleaseMoves DEF TypeInv
  <2>2. TypeInv'
    BY <1>1, <2>1, PassTypes, UnchangedRuns, UnchangedRounds
  <2>. QED
    BY <1>1, <2>1, <2>2 DEF Asks, Ends
<1>3. CASE /\ \A r \in RunsOf(d) : run[r].status # "queued"
           /\ pc' = [pc EXCEPT ![h] = "starting"]
           /\ where' = [where EXCEPT ![h] = d]
           /\ snap' = [snap EXCEPT ![h].no = LastNo(d)]
           /\ UNCHANGED <<at, rule, todo, bad>>
  <2>1. d \in 0..MaxRounds
    BY AuditAssumption DEF Rounds
  <2>2. /\ snap' \in [Actors -> Snaps] /\ \A b \in Actors \ {h} : snap'[b] = snap[b]
        /\ snap'[h].no <= Cardinality(Created)
    BY <1>1, <1>3, LastNoRead DEF BeginStart
  <2>3. ActorsTyped' /\ Only(h)
    BY <1>1, <1>3, <2>1, <2>2 DEF TypeInv, ActorsTyped, Only, PC, Snaps
  <2>4. pc'[h] = "starting" /\ where'[h] = d /\ todo'[h] = {}
    BY <1>1, <1>3 DEF TypeInv, ActorsTyped, Roles
  <2>5. TypeInv'
    BY <1>1, <2>2, <2>3, <2>4, Members, MoveTypes DEF OnRun, Naming, Recording, HandlerPC
  <2>. QED
    BY <1>1, <1>3, <2>3, <2>4, <2>5 DEF Asks
<1>. QED
  BY <1>2, <1>3 DEF BeginStart

LEMMA BeginRerunEffect ==
  ASSUME TypeInv, NEW h \in Handlers, NEW d \in Rounds, BeginRerun(h, d)
  PROVE  /\ Asks(h) /\ "rerun" \in Requests
         /\ pc'[h] = "rerunning" /\ where'[h] = d /\ todo'[h] = {}
<1>1. /\ LimitsTyped' /\ pc[h] = "idle" /\ Isolated(h) /\ h \in Actors
      /\ "rerun" \in Requests /\ UNCHANGED <<roundVars, runVars>>
  BY RequestCounted, Members DEF BeginRerun
<1>2. d \in 0..MaxRounds
  BY AuditAssumption DEF Rounds
<1>3. /\ snap' \in [Actors -> Snaps] /\ \A b \in Actors \ {h} : snap'[b] = snap[b]
      /\ snap'[h].no <= Cardinality(Created)
  BY <1>1, LastNoRead DEF BeginRerun
<1>4. ActorsTyped' /\ Only(h)
  BY <1>1, <1>2, <1>3 DEF BeginRerun, TypeInv, ActorsTyped, Only, PC, Snaps
<1>5. pc'[h] = "rerunning" /\ where'[h] = d /\ todo'[h] = {}
  BY <1>1 DEF BeginRerun, TypeInv, ActorsTyped, Roles
<1>6. TypeInv'
  BY <1>1, <1>3, <1>4, <1>5, Members, MoveTypes DEF OnRun, Naming, Recording, HandlerPC
<1>. QED
  BY <1>1, <1>4, <1>5, <1>6 DEF Asks

LEMMA BeginPublishEffect ==
  ASSUME TypeInv, NEW h \in Handlers, NEW d \in Rounds, BeginPublish(h, d)
  PROVE  /\ Asks(h) /\ Publishable(d)
         /\ pc'[h] = "publishing" /\ where'[h] = d /\ todo'[h] = {}
<1>1. /\ LimitsTyped' /\ pc[h] = "idle" /\ Isolated(h) /\ h \in Actors
      /\ Publishable(d) /\ UNCHANGED <<roundVars, runVars>>
  BY RequestCounted, Members DEF BeginPublish
<1>2. d \in 0..MaxRounds
  BY AuditAssumption DEF Rounds
<1>3. ActorsTyped' /\ Only(h) /\ snap' = snap
  BY <1>1, <1>2 DEF BeginPublish, TypeInv, ActorsTyped, Only, PC
<1>4. pc'[h] = "publishing" /\ where'[h] = d /\ todo'[h] = {}
  BY <1>1 DEF BeginPublish, TypeInv, ActorsTyped, Roles
<1>5. TypeInv'
  BY <1>1, <1>3, <1>4, Members, MoveTypes DEF OnRun, Naming, Recording, HandlerPC, TypeInv, Numbered
<1>. QED
  BY <1>1, <1>3, <1>4, <1>5 DEF Asks

\* Who begins to record reads the executions of the run.
Opens(a, r, k, to) ==
  /\ TypeInv' /\ UNCHANGED <<roundVars, runVars>> /\ Only(a) /\ Isolated(a)
  /\ pc'[a] = to /\ at'[a] = r /\ rule'[a] = k /\ snap'[a].execs = exec[r] /\ bad'[a] = bad[a]

LEMMA RecordOpens ==
  ASSUME TypeInv, LimitsTyped', NEW a \in Actors, NEW r \in Runs, NEW k \in Rules,
         exec[r][k].status # "none", NEW to \in Recording,
         a \in Workers => to \in WorkerPC, BeginRecord(a, r, k, to),
         NEW T \in SUBSET Rules, todo' = [todo EXCEPT ![a] = T], a \in Handlers => T = {},
         \A m \in T : exec[r][m].status # "none"
  PROVE  Opens(a, r, k, to) /\ todo'[a] = T
<1>1. exec[r] \in [Rules -> Execution]
  BY DEF TypeInv, RunsTyped
<1>2. /\ snap' \in [Actors -> Snaps]
      /\ snap'[a] = [execs |-> exec[r], no |-> snap[a].no]
      /\ \A b \in Actors \ {a} : snap'[b] = snap[b]
  BY <1>1, ExecutionsRead DEF TypeInv, BeginRecord
<1>3. ActorsTyped' /\ Only(a)
  BY <1>2 DEF BeginRecord, TypeInv, ActorsTyped, Only, PC, Snaps, Recording
<1>4. /\ pc'[a] = to /\ at'[a] = r /\ rule'[a] = k /\ todo'[a] = T /\ bad'[a] = bad[a]
      /\ snap'[a].execs = exec[r] /\ snap'[a].no = snap[a].no
  BY <1>2 DEF BeginRecord, TypeInv, ActorsTyped
<1>5. Made(r)
  BY DEF TypeInv, RunsFilled
<1>6. UNCHANGED <<roundVars, runVars>> /\ Isolated(a)
  BY DEF BeginRecord
<1>7. snap'[a].no <= Cardinality(Created)
  BY <1>4 DEF TypeInv, Numbered
<1>8. TypeInv'
  BY <1>3, <1>4, <1>5, <1>6, <1>7, MoveTypes DEF OnRun, Naming, Recording, HandlerPC
<1>. QED
  BY <1>3, <1>4, <1>6, <1>8 DEF Opens

LEMMA BeginNextEffect ==
  ASSUME TypeInv, NEW c \in Workers, BeginNext(c)
  PROVE  /\ pc[c] = "next"
         /\ \E k \in todo[c] : Opens(c, at[c], k, "recording") /\ todo'[c] = todo[c] \ {k}
<1>1. PICK k \in todo[c] : /\ BeginRecord(c, at[c], k, "recording")
                          /\ todo' = [todo EXCEPT ![c] = @ \ {k}]
  BY DEF BeginNext
<1>2. pc[c] = "next" /\ UNCHANGED limitVars /\ c \in Actors
  BY Members DEF BeginNext
<1>3. at[c] \in Runs /\ todo[c] \in SUBSET Rules /\ \A m \in todo[c] : exec[at[c]][m].status # "none"
  BY <1>2 DEF TypeInv, Working, OnRun, Naming, ActorsTyped
<1>4. PICK r \in Runs, T \in SUBSET Rules : r = at[c] /\ T = todo[c] \ {k}
  BY <1>3
<1>5. BeginRecord(c, r, k, "recording") /\ todo' = [todo EXCEPT ![c] = T]
  BY <1>1, <1>4 DEF BeginRecord
<1>6. k \in Rules /\ exec[r][k].status # "none" /\ \A m \in T : exec[r][m].status # "none"
  BY <1>3, <1>4
<1>7. LimitsTyped' /\ c \notin Handlers /\ "recording" \in Recording /\ "recording" \in WorkerPC
  BY <1>2, UnchangedLimits, Members DEF Recording, WorkerPC
<1>8. ASSUME NEW to, to = "recording" PROVE Opens(c, r, k, to) /\ todo'[c] = T
  <2>1. to \in Recording /\ to \in WorkerPC /\ BeginRecord(c, r, k, to)
    BY <1>5, <1>7, <1>8
  <2>. QED
    <3>1. r \in Runs /\ k \in Rules /\ T \in SUBSET Rules /\ c \in Actors
      BY <1>2, <1>4, <1>6
    <3>2. exec[r][k].status # "none" /\ \A m \in T : exec[r][m].status # "none"
      BY <1>6
    <3>3. LimitsTyped' /\ (c \in Handlers => T = {}) /\ todo' = [todo EXCEPT ![c] = T]
      BY <1>5, <1>7
    <3>. QED
      BY <2>1, <3>1, <3>2, <3>3, RecordOpens
<1>. QED
  BY <1>2, <1>4, <1>8 DEF Opens

LEMMA BeginByHandEffect ==
  ASSUME TypeInv, NEW h \in Handlers, BeginByHand(h)
  PROVE  /\ Requests \cap {"run", "report"} # {}
         /\ pc[h] = "idle"
         /\ \E r \in Runs, k \in Rules, to \in Recording : Opens(h, r, k, to) /\ todo'[h] = {}
<1>1. PICK r \in Runs, k \in Rules, to \in Recording, kind \in {"run", "report"} :
        /\ exec[r][k].status # "none"
        /\ Request(h, kind) /\ BeginRecord(h, r, k, to)
  BY DEF BeginByHand, Recording, InRun
<1>2. LimitsTyped' /\ kind \in Requests /\ pc[h] = "idle" /\ h \in Actors /\ h \notin Workers
  BY <1>1, RequestCounted, Members
<1>3. todo' = [todo EXCEPT ![h] = {}]
  BY <1>2 DEF BeginByHand, TypeInv, ActorsTyped, Roles
<1>4. Opens(h, r, k, to) /\ todo'[h] = {}
  BY <1>1, <1>2, <1>3, RecordOpens
<1>. QED
  BY <1>2, <1>4

LEMMA OnItsRun ==
  ASSUME TypeInv, NEW a \in Actors, OnRun(a)
  PROVE  at[a] \in Runs /\ Made(at[a])
  BY DEF TypeInv, Working

\* A worker takes a job, or run_job does.
Takes(c, r) == Claim(c, r) \/ RunJob(c, r)

LEMMA TakesEffect ==
  ASSUME TypeInv, NEW c \in Workers, NEW r \in Runs, Takes(c, r)
  PROVE  /\ TypeInv' /\ UNCHANGED <<roundVars, runVars, faults>> /\ Only(c)
         /\ pc[c] = "idle" /\ job[r] = "queued"
         /\ pc'[c] = "claimed" /\ at'[c] = r /\ todo'[c] = todo[c] /\ bad'[c] = bad[c]
<1>1. /\ c \in Actors /\ c \notin Handlers /\ UNCHANGED <<roundVars, runVars, faults>>
      /\ pc[c] = "idle" /\ job[r] = "queued"
  BY Members DEF Takes, Claim, RunJob, limitVars
<1>2. /\ ActorsTyped' /\ Only(c) /\ snap' = snap
      /\ pc'[c] = "claimed" /\ at'[c] = r /\ todo'[c] = todo[c] /\ bad'[c] = bad[c]
  BY <1>1 DEF Takes, Claim, RunJob, TypeInv, ActorsTyped, Only, PC
<1>3. todo[c] = {} /\ ~bad[c] /\ Made(r)
  BY <1>1 DEF TypeInv, Roles, RunsFilled
<1>4. LimitsTyped'
  BY UnchangedLimits, AuditAssumption DEF Takes, Claim, RunJob, TypeInv, LimitsTyped
<1>5. TypeInv'
  BY <1>1, <1>2, <1>3, <1>4, MoveTypes DEF OnRun, Naming, Recording, WorkerPC, TypeInv, Numbered
<1>. QED
  BY <1>1, <1>2, <1>5

\* What goes on in process_queue_job, or begins.
WorkerStep(c) == WorkerProgress(c) \/ \E r \in Runs : Takes(c, r)

LEMMA WorkerSteps ==
  ASSUME NEW c \in Workers, WorkerProgress(c) \/ \E r \in Runs : RunJob(c, r)
  PROVE  WorkerStep(c)
  BY DEF WorkerStep, Takes

LEMMA ListPendingEffect ==
  ASSUME TypeInv, NEW c \in Workers, ListPending(c)
  PROVE  /\ TypeInv' /\ UNCHANGED <<roundVars, run, exec, issue>> /\ Only(c)
         /\ pc[c] = "claimed" /\ pc'[c] = "next" /\ at'[c] = at[c] /\ bad'[c] = bad[c]
         /\ todo'[c] = {k \in Rules : exec[at[c]][k].status = "pending"}
         /\ job' = [job EXCEPT ![at[c]] = "running"]
<1>1. /\ c \in Actors /\ c \notin Handlers /\ UNCHANGED <<roundVars, run, exec, issue>>
      /\ pc[c] = "claimed" /\ job' = [job EXCEPT ![at[c]] = "running"]
  BY Members DEF ListPending
<1>2. at[c] \in Runs /\ Made(at[c])
  BY <1>1, OnItsRun DEF OnRun, Naming
<1>3. /\ ActorsTyped' /\ Only(c) /\ snap' = snap
      /\ pc'[c] = "next" /\ at'[c] = at[c] /\ bad'[c] = bad[c]
      /\ todo'[c] = {k \in Rules : exec[at[c]][k].status = "pending"}
  BY <1>1 DEF ListPending, TypeInv, ActorsTyped, Only, PC
<1>4. LimitsTyped' /\ RoundsTyped'
  BY <1>1, UnchangedLimits, UnchangedRounds DEF ListPending
<1>5. RunsTyped' /\ RunsStay
  BY <1>1, <1>2, JobWritten DEF JobStatus
<1>6. snap'[c].no <= Cardinality(Created)
  BY <1>1, <1>3 DEF TypeInv, Numbered
<1>7. TypeInv'
  BY <1>1, <1>2, <1>3, <1>4, <1>5, <1>6, StayTypes DEF OnRun, Naming, Recording, WorkerPC
<1>. QED
  BY <1>1, <1>3, <1>7

LEMMA RunWritten ==
  ASSUME TypeInv, NEW r \in Runs, Made(r),
         NEW s \in {"completed", "succeeded", "failed"},
         run' = [run EXCEPT ![r].status = s]
  PROVE  /\ run' \in [Runs -> RunRow]
         /\ run'[r] = [kind |-> run[r].kind, status |-> s, round |-> run[r].round, no |-> run[r].no]
         /\ \A q \in Runs \ {r} : run'[q] = run[q]
<1>1. [run[r] EXCEPT !.status = s] =
        [kind |-> run[r].kind, status |-> s, round |-> run[r].round, no |-> run[r].no]
  BY DEF TypeInv, RunsTyped, RunRow
<1>2. [kind |-> run[r].kind, status |-> s, round |-> run[r].round, no |-> run[r].no] \in RunRow
  BY DEF TypeInv, RunsTyped, RunRow
<1>3. run' = [run EXCEPT ![r] = [kind |-> run[r].kind, status |-> s, round |-> run[r].round,
                                 no |-> run[r].no]]
  BY <1>1
<1>. QED
  BY <1>2, <1>3 DEF TypeInv, RunsTyped

LEMMA TaskStatusWritten ==
  ASSUME TypeInv, NEW s \in TaskStatus
  PROVE  [task EXCEPT !.status = s] \in [status : TaskStatus, round : Rounds]
  BY DEF TypeInv, RoundsTyped

LEMMA RoundWritten ==
  ASSUME TypeInv, NEW d \in Rounds, NEW s \in RoundStatus \ {"absent"},
         task' = [task EXCEPT !.status = s], round' = [round EXCEPT ![d] = s],
         report' = report \/ report' = [report EXCEPT ![d] = "published"]
  PROVE  RoundsTyped'
  BY TaskStatusWritten DEF TypeInv, RoundsTyped, TaskStatus

LEMMA CompleteRunEffect ==
  ASSUME TypeInv, NEW c \in Workers, CompleteRun(c)
  PROVE  /\ TypeInv' /\ UNCHANGED <<report, exec, job, issue>> /\ Turns(c, "finish")
         /\ pc[c] = "next" /\ todo[c] = {} /\ RunsStay
         /\ run'[at[c]].status = IF bad[c] THEN "failed" ELSE "succeeded"
         /\ \A q \in Runs \ {at[c]} : run'[q] = run[q]
<1>1. /\ c \in Actors /\ UNCHANGED <<report, exec, job, issue>>
      /\ pc[c] = "next" /\ todo[c] = {}
  BY Members DEF CompleteRun
<1>2. at[c] \in Runs /\ Made(at[c])
  BY <1>1, OnItsRun DEF OnRun, Naming
<1>3. ActorsTyped' /\ Turns(c, "finish")
  BY <1>1, GotoMoves DEF CompleteRun, TypeInv, PC
<1>4. PICK r \in Runs, s \in {"succeeded", "failed"} :
        /\ r = at[c] /\ s = IF bad[c] THEN "failed" ELSE "succeeded"
        /\ run' = [run EXCEPT ![r].status = s]
  BY <1>2 DEF CompleteRun
<1>5. /\ run' \in [Runs -> RunRow]
      /\ run'[r] = [kind |-> run[r].kind, status |-> s, round |-> run[r].round, no |-> run[r].no]
      /\ \A q \in Runs \ {r} : run'[q] = run[q]
  BY <1>2, <1>4, RunWritten
<1>6. RunsTyped' /\ RunsStay
  BY <1>1, <1>2, <1>4, <1>5 DEF TypeInv, RunsTyped, RunsStay, Made, RunsFilled
<1>7. run[at[c]].round \in Rounds
  BY <1>2 DEF TypeInv, RunsFilled
<1>8. LimitsTyped' /\ RoundsTyped'
  BY <1>7, UnchangedLimits, RoundWritten DEF CompleteRun, RoundStatus
<1>9. TypeInv'
  BY <1>1, <1>3, <1>6, <1>8, PassTypes, Members DEF Recording, Naming, OnRun, WorkerPC
<1>. QED
  BY <1>1, <1>3, <1>4, <1>5, <1>6, <1>9

\* A worker that writes the row of its job, and nothing else.
LEMMA FinishJobEffect ==
  ASSUME TypeInv, NEW c \in Workers, FinishJob(c)
  PROVE  /\ TypeInv' /\ UNCHANGED <<roundVars, run, exec, issue>> /\ Ends(c)
         /\ pc[c] = "finish"
         /\ job' = [job EXCEPT ![at[c]] = IF bad[c] THEN "failed" ELSE "succeeded"]
<1>1. /\ c \in Actors /\ UNCHANGED <<roundVars, run, exec, issue>> /\ pc[c] = "finish"
      /\ job' = [job EXCEPT ![at[c]] = IF bad[c] THEN "failed" ELSE "succeeded"]
  BY Members DEF FinishJob
<1>2. at[c] \in Runs /\ Made(at[c])
  BY <1>1, OnItsRun DEF OnRun, Naming
<1>3. ActorsTyped' /\ Ends(c)
  BY <1>1, ReleaseMoves DEF FinishJob, TypeInv
<1>4. RunsTyped' /\ RunsStay
  <2>1. PICK s \in {"failed", "succeeded"} : job' = [job EXCEPT ![at[c]] = s]
    BY <1>1
  <2>. QED
    BY <1>1, <1>2, <2>1, JobWritten DEF JobStatus
<1>5. LimitsTyped' /\ RoundsTyped'
  BY <1>1, UnchangedLimits, UnchangedRounds DEF FinishJob
<1>6. TypeInv'
  BY <1>1, <1>3, <1>4, <1>5, PassTypes
<1>. QED
  BY <1>1, <1>3, <1>6

LEMMA BodyBreaksEffect ==
  ASSUME TypeInv, NEW c \in Workers, BodyBreaks(c)
  PROVE  /\ TypeInv' /\ UNCHANGED <<roundVars, runVars>> /\ Turns(c, "failjob") /\ MaxFaults > 0
         /\ pc[c] \in {"next", "recording", "finish"}
<1>1. /\ c \in Actors /\ c \notin Handlers /\ UNCHANGED <<roundVars, runVars>>
      /\ pc[c] \in {"next", "recording", "finish"}
  BY Members DEF BodyBreaks
<1>2. ActorsTyped' /\ Turns(c, "failjob") /\ LimitsTyped' /\ MaxFaults > 0
  BY <1>1, GotoMoves, FaultCounted DEF BodyBreaks, TypeInv, PC
<1>3. TypeInv'
  BY <1>1, <1>2, PassTypes, UnchangedRuns, UnchangedRounds DEF Recording, Naming, OnRun, WorkerPC
<1>. QED
  BY <1>1, <1>2, <1>3

LEMMA FailJobEffect ==
  ASSUME TypeInv, NEW c \in Workers, FailJob(c)
  PROVE  /\ TypeInv' /\ UNCHANGED <<roundVars, run, exec, issue>> /\ Turns(c, "requeue")
         /\ pc[c] = "failjob" /\ job' = [job EXCEPT ![at[c]] = "failed"]
<1>1. /\ c \in Actors /\ c \notin Handlers /\ UNCHANGED <<roundVars, run, exec, issue>>
      /\ pc[c] = "failjob" /\ job' = [job EXCEPT ![at[c]] = "failed"]
  BY Members DEF FailJob
<1>2. at[c] \in Runs /\ Made(at[c])
  BY <1>1, OnItsRun DEF OnRun, Naming
<1>3. ActorsTyped' /\ Turns(c, "requeue")
  BY <1>1, GotoMoves DEF FailJob, TypeInv, PC
<1>4. RunsTyped' /\ RunsStay
  BY <1>1, <1>2, JobWritten DEF JobStatus
<1>5. LimitsTyped' /\ RoundsTyped'
  BY <1>1, UnchangedLimits, UnchangedRounds DEF FailJob
<1>6. TypeInv'
  BY <1>1, <1>3, <1>4, <1>5, PassTypes DEF Recording, Naming, OnRun, WorkerPC
<1>. QED
  BY <1>1, <1>3, <1>6

LEMMA RefuseEffect ==
  ASSUME TypeInv, NEW c \in Workers, Refuse(c)
  PROVE  /\ TypeInv' /\ UNCHANGED <<roundVars, run, exec, issue>> /\ Turns(c, "refused")
         /\ pc[c] = "claimed" /\ job' = [job EXCEPT ![at[c]] = "running"]
<1>1. /\ c \in Actors /\ c \notin Handlers /\ UNCHANGED <<roundVars, run, exec, issue>>
      /\ pc[c] = "claimed" /\ job' = [job EXCEPT ![at[c]] = "running"]
  BY Members DEF Refuse
<1>2. at[c] \in Runs /\ Made(at[c])
  BY <1>1, OnItsRun DEF OnRun, Naming
<1>3. ActorsTyped' /\ Turns(c, "refused")
  BY <1>1, GotoMoves DEF Refuse, TypeInv, PC
<1>4. RunsTyped' /\ RunsStay
  BY <1>1, <1>2, JobWritten DEF JobStatus
<1>5. LimitsTyped' /\ RoundsTyped'
  BY <1>1, UnchangedLimits, UnchangedRounds DEF Refuse
<1>6. TypeInv'
  BY <1>1, <1>3, <1>4, <1>5, PassTypes DEF Recording, Naming, OnRun, WorkerPC
<1>. QED
  BY <1>1, <1>3, <1>6

LEMMA FailRefusedEffect ==
  ASSUME TypeInv, NEW c \in Workers, FailRefused(c)
  PROVE  /\ TypeInv' /\ UNCHANGED <<roundVars, run, exec, issue>> /\ Ends(c)
         /\ pc[c] = "refused" /\ job' = [job EXCEPT ![at[c]] = "failed"]
<1>1. /\ c \in Actors /\ UNCHANGED <<roundVars, run, exec, issue>>
      /\ pc[c] = "refused" /\ job' = [job EXCEPT ![at[c]] = "failed"]
  BY Members DEF FailRefused
<1>2. at[c] \in Runs /\ Made(at[c])
  BY <1>1, OnItsRun DEF OnRun, Naming
<1>3. ActorsTyped' /\ Ends(c)
  BY <1>1, ReleaseMoves DEF FailRefused, TypeInv
<1>4. RunsTyped' /\ RunsStay
  BY <1>1, <1>2, JobWritten DEF JobStatus
<1>5. LimitsTyped' /\ RoundsTyped'
  BY <1>1, UnchangedLimits, UnchangedRounds DEF FailRefused
<1>6. TypeInv'
  BY <1>1, <1>3, <1>4, <1>5, PassTypes
<1>. QED
  BY <1>1, <1>3, <1>6

LEMMA RequeueEffect ==
  ASSUME TypeInv, NEW c \in Workers, Requeue(c)
  PROVE  /\ TypeInv' /\ UNCHANGED <<roundVars, run, exec, issue>> /\ Ends(c)
         /\ pc[c] = "requeue" /\ at[c] \in Runs
         /\ \/ job[at[c]] = "failed" /\ job' = [job EXCEPT ![at[c]] = "queued"]
            \/ job' = job
<1>1. /\ c \in Actors /\ UNCHANGED <<roundVars, run, exec, issue>> /\ pc[c] = "requeue"
      /\ \/ job[at[c]] = "failed" /\ job' = [job EXCEPT ![at[c]] = "queued"]
         \/ job' = job
  BY Members DEF Requeue
<1>2. at[c] \in Runs /\ Made(at[c])
  BY <1>1, OnItsRun DEF OnRun, Naming
<1>3. ActorsTyped' /\ Ends(c)
  BY <1>1, ReleaseMoves DEF Requeue, TypeInv
<1>4. RunsTyped' /\ RunsStay
  BY <1>1, <1>2, JobWritten, UnchangedRuns DEF JobStatus, runVars
<1>5. LimitsTyped' /\ RoundsTyped'
  BY <1>1, UnchangedLimits, UnchangedRounds DEF Requeue
<1>6. TypeInv'
  BY <1>1, <1>3, <1>4, <1>5, PassTypes
<1>. QED
  BY <1>1, <1>2, <1>3, <1>6

LEMMA CrashEffect ==
  ASSUME TypeInv, NEW a \in Actors, Crash(a)
  PROVE  TypeInv' /\ UNCHANGED <<roundVars, runVars>> /\ Ends(a) /\ MaxFaults > 0
<1>1. UNCHANGED <<roundVars, runVars>>
  BY DEF Crash
<1>2. ActorsTyped' /\ Ends(a) /\ LimitsTyped' /\ MaxFaults > 0
  BY ReleaseMoves, FaultCounted DEF Crash, TypeInv
<1>3. TypeInv'
  BY <1>1, <1>2, PassTypes, UnchangedRuns, UnchangedRounds
<1>. QED
  BY <1>1, <1>2, <1>3

\* A request that is served in one step moves nobody.
Serves(h) == TypeInv' /\ UNCHANGED actorVars /\ RunsStay /\ Isolated(h) /\ pc[h] = "idle"

LEMMA ServedTypes ==
  ASSUME TypeInv, NEW h \in Handlers, NEW kind, Request(h, kind), UNCHANGED actorVars,
         RunsTyped', RunsStay, RoundsTyped'
  PROVE  Serves(h) /\ kind \in Requests
<1>1. LimitsTyped' /\ kind \in Requests /\ pc[h] = "idle" /\ Isolated(h)
  BY RequestCounted
<1>2. ActorsTyped' /\ Turns(h, "idle")
  BY <1>1, Members, StayMoves DEF TypeInv
<1>3. TypeInv'
  BY <1>1, <1>2, Members, PassTypes DEF Recording, Naming, HandlerPC
<1>. QED
  BY <1>1, <1>3 DEF Serves

LEMMA RetryExecutionEffect ==
  ASSUME TypeInv, NEW h \in Handlers, RetryExecution(h)
  PROVE  /\ Serves(h) /\ "retry" \in Requests /\ UNCHANGED <<roundVars, run, job, issue>>
         /\ \E r \in Runs, k \in Rules :
              /\ exec[r][k].status \in Terminal
              /\ exec'[r][k] = [status |-> "pending", expired |-> exec[r][k].expired,
                                attempts |-> exec[r][k].attempts, last |-> exec[r][k].last]
              /\ \A q \in Runs, m \in Rules : q # r \/ m # k => exec'[q][m] = exec[q][m]
<1>1. PICK r \in Runs, k \in Rules :
        /\ exec[r][k].status \in Terminal
        /\ exec' = [exec EXCEPT ![r][k].status = "pending"]
  BY DEF RetryExecution
<1>2. Request(h, "retry") /\ UNCHANGED actorVars /\ UNCHANGED <<roundVars, run, job, issue>>
  BY DEF RetryExecution
<1>3. /\ exec' \in [Runs -> [Rules -> Execution]]
      /\ exec'[r][k] = [status |-> "pending", expired |-> exec[r][k].expired,
                        attempts |-> exec[r][k].attempts, last |-> exec[r][k].last]
      /\ \A q \in Runs, m \in Rules : q # r \/ m # k => exec'[q][m] = exec[q][m]
  <2>. DEFINE e == exec[r][k]
              f == [status |-> "pending", expired |-> e.expired, attempts |-> e.attempts,
                    last |-> e.last]
              g == [exec[r] EXCEPT ![k] = f]
  <2>1. e \in Execution /\ exec[r] \in [Rules -> Execution]
    BY DEF TypeInv, RunsTyped
  <2>2. [e EXCEPT !.status = "pending"] = f
    BY <2>1 DEF Execution
  <2>3. f \in Execution
    BY <2>1 DEF Execution
  <2>4. exec' = [exec EXCEPT ![r] = g]
    BY <1>1, <2>2
  <2>5. g \in [Rules -> Execution] /\ g[k] = f /\ \A m \in Rules \ {k} : g[m] = exec[r][m]
    <3>. HIDE DEF f
    <3>. QED
      BY <2>1, <2>3
  <2>. HIDE DEF g
  <2>. QED
    BY <2>4, <2>5 DEF TypeInv, RunsTyped
<1>4. exec'[r][k].status = "pending" /\ exec[r][k].status # "none"
  BY <1>1, <1>3 DEF Terminal
<1>5. RunsTyped'
  BY <1>2, <1>3 DEF TypeInv, RunsTyped
<1>6. \A q \in Runs, m \in Rules : exec'[q][m].status = "none" <=> exec[q][m].status = "none"
  BY <1>3, <1>4
<1>7. RunsStay
  BY <1>2, <1>6 DEF RunsStay, TypeInv, RunsFilled
<1>8. RoundsTyped'
  BY <1>2, UnchangedRounds
<1>9. Serves(h) /\ "retry" \in Requests
  <2>1. PICK kind \in {"retry"} : Request(h, kind)
    BY <1>2
  <2>. QED
    BY <1>2, <1>5, <1>7, <1>8, <2>1, ServedTypes
<1>. QED
  <2>1. \E q \in Runs, m \in Rules :
          /\ exec[q][m].status \in Terminal
          /\ exec'[q][m] = [status |-> "pending", expired |-> exec[q][m].expired,
                            attempts |-> exec[q][m].attempts, last |-> exec[q][m].last]
          /\ \A p \in Runs, n \in Rules : p # q \/ n # m => exec'[p][n] = exec[p][n]
    <3>. WITNESS r \in Runs, k \in Rules
    <3>. QED
      BY <1>1, <1>3
  <2>. QED
    BY <1>2, <1>9, <2>1

LEMMA JobRequestEffect ==
  ASSUME TypeInv, NEW h \in Handlers, CancelJob(h) \/ RetryJob(h)
  PROVE  /\ Serves(h) /\ UNCHANGED <<roundVars, run, exec, issue>>
         /\ \E r \in Runs :
              \/ job[r] = "queued" /\ job' = [job EXCEPT ![r] = "canceled"]
              \/ "rejob" \in Requests /\ job[r] = "failed" /\ job' = [job EXCEPT ![r] = "queued"]
<1>1. UNCHANGED actorVars /\ UNCHANGED <<roundVars, run, exec, issue>>
  BY DEF CancelJob, RetryJob
<1>2. PICK r \in Runs, kind \in {"cancel", "rejob"} :
        /\ Request(h, kind)
        /\ \/ job[r] = "queued" /\ job' = [job EXCEPT ![r] = "canceled"]
           \/ kind = "rejob" /\ job[r] = "failed" /\ job' = [job EXCEPT ![r] = "queued"]
  BY DEF CancelJob, RetryJob
<1>3. Made(r)
  BY <1>2 DEF TypeInv, RunsFilled
<1>4. RunsTyped' /\ RunsStay
  BY <1>1, <1>2, <1>3, JobWritten DEF JobStatus
<1>5. RoundsTyped'
  BY <1>1, UnchangedRounds
<1>6. Serves(h) /\ kind \in Requests
  BY <1>1, <1>2, <1>4, <1>5, ServedTypes
<1>. QED
  BY <1>1, <1>2, <1>6

LEMMA DecideIssueEffect ==
  ASSUME TypeInv, NEW h \in Handlers, DecideIssue(h)
  PROVE  /\ Serves(h) /\ UNCHANGED <<roundVars, run, exec, job>>
         /\ \A d \in Rounds, k \in Rules :
              issue'[d][k] \in {issue[d][k], "decided"}
<1>1. PICK d \in Rounds, k \in Rules : issue' = [issue EXCEPT ![d][k] = "decided"]
  BY DEF DecideIssue
<1>2. Request(h, "decide") /\ UNCHANGED actorVars /\ UNCHANGED <<roundVars, run, exec, job>>
  BY DEF DecideIssue
<1>3. /\ issue' \in [Rounds -> [Rules -> {"none", "open", "decided"}]]
      /\ \A e \in Rounds, m \in Rules : issue'[e][m] \in {issue[e][m], "decided"}
  BY <1>1 DEF TypeInv, RunsTyped
<1>4. RunsTyped' /\ RunsStay
  BY <1>2, <1>3 DEF TypeInv, RunsTyped, RunsStay, RunsFilled
<1>5. RoundsTyped'
  BY <1>2, UnchangedRounds
<1>. QED
  BY <1>2, <1>3, <1>4, <1>5, ServedTypes

LEMMA ReportOrRoundEffect ==
  ASSUME TypeInv, NEW h \in Handlers, CreateReport(h) \/ CreateRound(h)
  PROVE  /\ Serves(h) /\ UNCHANGED runVars
         /\ \A d \in Rounds : report[d] # "published" => report'[d] # "published"
<1>1. PICK kind \in {"draft", "round"} : Request(h, kind)
  BY DEF CreateReport, CreateRound
<1>2. UNCHANGED actorVars /\ UNCHANGED runVars
  BY DEF CreateReport, CreateRound
<1>3. RoundsTyped' /\ \A d \in Rounds : report[d] # "published" => report'[d] # "published"
  <2>1. CASE CreateReport(h)
    BY <2>1 DEF CreateReport, TypeInv, RoundsTyped
  <2>2. CASE CreateRound(h)
    <3>1. task.round + 1 \in Rounds
      BY <2>2, AuditAssumption DEF CreateRound, TypeInv, RoundsTyped, Rounds
    <3>2. round' \in [Rounds -> RoundStatus] /\ report' = report
      BY <2>2, <3>1 DEF CreateRound, TypeInv, RoundsTyped, RoundStatus
    <3>3. task' \in [status : TaskStatus, round : Rounds]
      BY <2>2, <3>1 DEF CreateRound, TaskStatus
    <3>. QED
      BY <3>2, <3>3 DEF TypeInv, RoundsTyped
  <2>. QED
    BY <2>1, <2>2
<1>. QED
  BY <1>1, <1>2, <1>3, UnchangedRuns, ServedTypes

LEMMA WritePublishEffect ==
  ASSUME TypeInv, NEW h \in Handlers, WritePublish(h)
  PROVE  /\ TypeInv' /\ UNCHANGED runVars /\ Ends(h) /\ pc[h] = "publishing" /\ Isolated(h)
         /\ where[h] \in Rounds
         /\ \A d \in Rounds \ {where[h]} : report'[d] = report[d]
<1>1. /\ h \in Actors /\ pc[h] = "publishing" /\ Isolated(h) /\ UNCHANGED runVars
      /\ report' = [report EXCEPT ![where[h]] = "published"]
  BY Members DEF WritePublish
<1>2. where[h] \in Rounds
  BY <1>1 DEF TypeInv, Roles, Naming
<1>3. ActorsTyped' /\ Ends(h)
  BY <1>1, ReleaseMoves DEF WritePublish, TypeInv
<1>4. PICK d \in Rounds : d = where[h]
  BY <1>2
<1>5. LimitsTyped' /\ RoundsTyped'
  BY <1>4, UnchangedLimits, RoundWritten DEF WritePublish, RoundStatus
<1>6. TypeInv'
  BY <1>1, <1>3, <1>5, PassTypes, UnchangedRuns
<1>. QED
  BY <1>1, <1>2, <1>3, <1>6 DEF TypeInv, RoundsTyped

\* A new run takes a place, and the number after the largest one read.
Fresh == [status |-> "pending", expired |-> FALSE, attempts |-> 0, last |-> 0]

LEMMA FreshTyped ==
  /\ Fresh \in Execution
  /\ [NoExecution EXCEPT !.status = "pending"] = Fresh
<1>1. ASSUME NEW e \in Execution
      PROVE  [e EXCEPT !.status = "pending"] =
               [status |-> "pending", expired |-> e.expired, attempts |-> e.attempts, last |-> e.last]
  BY DEF Execution
<1>2. [NoExecution EXCEPT !.status = "pending"] = Fresh
  BY <1>1, Unstarted DEF Fresh
<1>. QED
  BY <1>2 DEF Fresh, Execution

\* The run that one of the two creating requests leaves behind.
Creates(h, r, kind, K) ==
  /\ TypeInv' /\ Ends(h) /\ UNCHANGED issue /\ ~Made(r) /\ where[h] \in Rounds
  /\ run'[r] = [kind |-> kind, status |-> "queued", round |-> where[h], no |-> snap[h].no + 1]
  /\ \A q \in Runs \ {r} : run'[q] = run[q]
  /\ job' = [job EXCEPT ![r] = "queued"]
  /\ \A k \in Rules : exec'[r][k] = IF k \in K THEN Fresh ELSE NoExecution
  /\ \A q \in Runs \ {r}, k \in Rules :
       /\ exec'[q][k].status = exec[q][k].status
       /\ exec'[q][k].attempts = exec[q][k].attempts
       /\ exec'[q][k].last = exec[q][k].last
       /\ kind = "audit" => exec'[q][k].expired = exec[q][k].expired

LEMMA CreateRunEffect ==
  ASSUME TypeInv, NEW h \in Handlers, pc[h] \in Naming, NEW r \in Runs,
         NEW kind \in {"audit", "local"}, NEW K \in SUBSET Rules, CreateRun(h, r, kind, K),
         Release(h), LimitsTyped', RoundsTyped'
  PROVE  Creates(h, r, kind, K)
<1>1. /\ h \in Actors /\ h \notin Workers /\ where[h] \in Rounds
      /\ snap[h].no \in Nat /\ snap[h].no <= Cardinality(Created)
  BY Members, Sizes DEF TypeInv, Roles, ActorsTyped, Numbered
<1>2. ~Made(r) /\ UNCHANGED issue /\ job' = [job EXCEPT ![r] = "queued"]
  BY DEF CreateRun, Made
<1>3. ActorsTyped' /\ Ends(h)
  BY <1>1, ReleaseMoves DEF TypeInv
<1>. DEFINE row == [kind |-> kind, status |-> "queued", round |-> where[h], no |-> snap[h].no + 1]
<1>4. /\ IsFiniteSet(Created \cup {r}) /\ r \notin Created
      /\ Cardinality(Created \cup {r}) = Cardinality(Created) + 1
      /\ Cardinality(Created) + 1 <= Cardinality(Runs)
  <2>1. r \notin Created /\ Created \cup {r} \subseteq Runs
    BY <1>2 DEF Created
  <2>2. /\ Cardinality(Created \cup {r}) = Cardinality(Created) + 1
        /\ IsFiniteSet(Created \cup {r})
    BY <2>1, Sizes, FS_AddElement
  <2>3. Cardinality(Created \cup {r}) <= Cardinality(Runs)
    BY <2>1, AuditAssumption, FS_Subset
  <2>. QED
    BY <2>1, <2>2, <2>3
<1>5. row \in RunRow
  BY <1>1, <1>4, Sizes, AuditAssumption DEF RunRow, Rounds
<1>6. run' = [run EXCEPT ![r] = row]
  BY DEF CreateRun
<1>7. run' \in [Runs -> RunRow] /\ run'[r] = row /\ \A q \in Runs \ {r} : run'[q] = run[q]
  <2>. HIDE DEF row
  <2>. QED
    BY <1>5, <1>6 DEF TypeInv, RunsTyped
<1>8. \A k \in Rules : exec'[r][k] = IF k \in K THEN Fresh ELSE NoExecution
  BY FreshTyped DEF CreateRun
<1>9. \A q \in Runs \ {r}, k \in Rules :
        exec'[q][k] = IF kind = "local" /\ run[q].round = where[h] /\ k \in K /\ k \in InRun(q)
                        THEN [exec[q][k] EXCEPT !.expired = TRUE] ELSE exec[q][k]
  BY DEF CreateRun
<1>10. ASSUME NEW q \in Runs \ {r}, NEW k \in Rules
       PROVE  /\ exec'[q][k] \in Execution
              /\ exec'[q][k].status = exec[q][k].status
              /\ exec'[q][k].attempts = exec[q][k].attempts
              /\ exec'[q][k].last = exec[q][k].last
              /\ kind = "audit" => exec'[q][k].expired = exec[q][k].expired
  <2>1. exec[q][k] \in Execution
    BY DEF TypeInv, RunsTyped
  <2>2. \/ exec'[q][k] = exec[q][k]
        \/ kind # "audit" /\ exec'[q][k] = [exec[q][k] EXCEPT !.expired = TRUE]
    BY <1>9
  <2>. QED
    BY <2>1, <2>2 DEF Execution
<1>11. exec' \in [Runs -> [Rules -> Execution]]
  <2>1. \A q \in Runs, k \in Rules : exec'[q][k] \in Execution
    BY <1>8, <1>10, FreshTyped, Unstarted
  <2>2. DOMAIN exec' = Runs /\ \A q \in Runs : DOMAIN exec'[q] = Rules
    BY DEF CreateRun
  <2>3. exec' = [q \in Runs |-> exec'[q]] /\ \A q \in Runs : exec'[q] = [k \in Rules |-> exec'[q][k]]
    BY <2>2 DEF CreateRun
  <2>. QED
    BY <2>1, <2>3
<1>12. RunsTyped'
  BY <1>2, <1>7, <1>11 DEF TypeInv, RunsTyped, JobStatus
<1>13. \A q \in Runs : Made(q)' <=> Made(q) \/ q = r
  BY <1>7 DEF Made
<1>14. Created' = Created \cup {r}
  BY <1>13 DEF Created
<1>15. Roles'
  BY <1>1, <1>3, Members DEF TypeInv, Roles, Ends, Only, WorkerPC, HandlerPC, Naming
<1>16. Working'
  <2>1. ASSUME NEW b \in Actors, OnRun(b)'
        PROVE  /\ b # h /\ OnRun(b) /\ at'[b] = at[b] /\ at[b] \in Runs \ {r}
               /\ todo'[b] = todo[b] /\ rule'[b] = rule[b] /\ pc'[b] = pc[b]
    BY <2>1, <1>2, <1>3 DEF Ends, Only, OnRun, TypeInv, Working
  <2>2. ASSUME NEW b \in Actors, OnRun(b)'
        PROVE  /\ at'[b] \in Runs /\ Made(at[b]) /\ run'[at'[b]].kind # "none"
               /\ \A k \in todo'[b] : exec'[at'[b]][k].status # "none"
    <3>1. Made(at[b]) /\ todo[b] \subseteq Rules /\ \A k \in todo[b] : exec[at[b]][k].status # "none"
      BY <2>1, <2>2 DEF TypeInv, Working, ActorsTyped
    <3>2. run'[at'[b]].kind # "none"
      BY <2>1, <2>2, <3>1, <1>7 DEF Made
    <3>. QED
      BY <2>1, <2>2, <3>1, <3>2, <1>10
  <2>3. ASSUME NEW b \in Actors, pc'[b] \in Recording
        PROVE  rule'[b] \in Rules /\ exec'[at'[b]][rule'[b]].status # "none"
    <3>1. OnRun(b)'
      BY <2>3 DEF OnRun, Recording, Naming
    <3>2. rule[b] \in Rules /\ exec[at[b]][rule[b]].status # "none"
      BY <2>1, <2>3, <3>1 DEF TypeInv, Working
    <3>. QED
      BY <2>1, <3>1, <3>2, <1>10
  <2>. QED
    BY <2>2, <2>3 DEF Working, Made
<1>17. RunsFilled'
  <2>1. RunsFilled
    BY DEF TypeInv
  <2>2. job'[r] = "queued" /\ \A q \in Runs \ {r} : job'[q] = job[q]
    BY <1>2 DEF TypeInv, RunsTyped
  <2>3. ASSUME NEW q \in Runs, ~Made(q)'
        PROVE  run'[q] = NoRunRow /\ job'[q] = "absent" /\ \A k \in Rules : exec'[q][k].status = "none"
    BY <2>1, <2>2, <2>3, <1>7, <1>10, <1>13 DEF RunsFilled
  <2>4. ASSUME NEW q \in Runs, Made(q)'
        PROVE  run'[q].round \in Rounds /\ job'[q] # "absent"
    BY <2>1, <2>2, <2>4, <1>1, <1>7, <1>13 DEF RunsFilled
  <2>. QED
    BY <2>3, <2>4 DEF RunsFilled
<1>18. Numbered'
  <2>1. \A q \in Runs : run[q].no \in Nat /\ run[q].no <= Cardinality(Created)
    BY Sizes DEF TypeInv, RunsTyped, RunRow, Numbered
  <2>2. \A a \in Actors : snap[a].no \in Nat /\ snap[a].no <= Cardinality(Created)
    BY Sizes DEF TypeInv, ActorsTyped, Numbered
  <2>3. Cardinality(Created)' = Cardinality(Created) + 1
    BY <1>4, <1>14
  <2>4. \A q \in Runs : run'[q].no <= Cardinality(Created) + 1
    BY <2>1, <1>1, <1>7, Sizes
  <2>5. \A a \in Actors : snap'[a].no <= Cardinality(Created) + 1
    BY <2>2, <1>3, NothingRead, Sizes DEF Ends, Only
  <2>. QED
    BY <2>3, <2>4, <2>5 DEF Numbered
<1>19. TypeInv'
  BY <1>3, <1>12, <1>15, <1>16, <1>17, <1>18 DEF TypeInv
<1>. QED
  BY <1>1, <1>2, <1>3, <1>7, <1>8, <1>10, <1>19 DEF Creates

LEMMA WriteStartEffect ==
  ASSUME TypeInv, NEW h \in Handlers, WriteStart(h)
  PROVE  /\ pc[h] = "starting" /\ report' = report
         /\ \E r \in Runs : Creates(h, r, "audit", Rules)
<1>1. pc[h] = "starting" /\ report' = report /\ UNCHANGED limitVars /\ Release(h)
  BY DEF WriteStart
<1>2. PICK r \in Runs, kind \in {"audit", "local"}, K \in SUBSET Rules :
        kind = "audit" /\ K = Rules /\ CreateRun(h, r, kind, K)
  BY DEF WriteStart
<1>3. pc[h] \in Naming
  BY <1>1 DEF Naming
<1>4. PICK d \in Rounds : d = where[h]
  BY <1>3, Members DEF TypeInv, Roles
<1>5. LimitsTyped' /\ RoundsTyped'
  <2>1. PICK s \in RoundStatus \ {"absent"} : s = "auditing"
    BY DEF RoundStatus
  <2>2. task' = [task EXCEPT !.status = s] /\ round' = [round EXCEPT ![d] = s]
    BY <1>4, <2>1 DEF WriteStart
  <2>. QED
    BY <1>1, <2>2, UnchangedLimits, RoundWritten
<1>6. Creates(h, r, kind, K)
  BY <1>1, <1>2, <1>3, <1>5, CreateRunEffect
<1>. QED
  BY <1>1, <1>2, <1>6

LEMMA WriteRerunEffect ==
  ASSUME TypeInv, NEW h \in Handlers, WriteRerun(h)
  PROVE  /\ pc[h] = "rerunning" /\ UNCHANGED roundVars
         /\ \E r \in Runs, K \in (SUBSET Rules) \ {{}} : Creates(h, r, "local", K)
<1>1. pc[h] = "rerunning" /\ UNCHANGED roundVars /\ UNCHANGED limitVars /\ Release(h)
  BY DEF WriteRerun
<1>2. PICK r \in Runs, kind \in {"audit", "local"}, K \in (SUBSET Rules) \ {{}} :
        kind = "local" /\ CreateRun(h, r, kind, K)
  BY DEF WriteRerun
<1>3. pc[h] \in Naming /\ LimitsTyped' /\ RoundsTyped'
  BY <1>1, UnchangedLimits, UnchangedRounds DEF Naming
<1>4. Creates(h, r, kind, K)
  BY <1>1, <1>2, <1>3, CreateRunEffect
<1>. QED
  BY <1>1, <1>2, <1>4

\* The row of an execution with one more attempt.
WithAttempt(f, k, s, n) ==
  [f EXCEPT ![k].status = s, ![k].attempts = f[k].attempts + 1, ![k].last = n]

LEMMA AttemptRow ==
  ASSUME NEW f \in [Rules -> Execution], NEW k \in Rules,
         NEW s \in {"none", "pending", "running"} \cup Terminal, NEW n \in Nat,
         NEW g, g = WithAttempt(f, k, s, n)
  PROVE  /\ g \in [Rules -> Execution]
         /\ g[k] = [status |-> s, expired |-> f[k].expired, attempts |-> f[k].attempts + 1, last |-> n]
         /\ \A m \in Rules \ {k} : g[m] = f[m]
<1>1. f[k] \in Execution
  OBVIOUS
<1>. DEFINE c == f[k].attempts + 1
            row == [status |-> s, expired |-> f[k].expired, attempts |-> c, last |-> n]
            g1 == [f EXCEPT ![k].status = s]
            g2 == [g1 EXCEPT ![k].attempts = c]
            e1 == [f[k] EXCEPT !.status = s]
            e2 == [e1 EXCEPT !.attempts = c]
<1>2. g = [g2 EXCEPT ![k].last = n]
  <2>1. PICK b : b = c
    OBVIOUS
  <2>2. g = [f EXCEPT ![k].status = s, ![k].attempts = b, ![k].last = n]
    BY <2>1, Zenon DEF WithAttempt
  <2>3. g = [[[f EXCEPT ![k].status = s] EXCEPT ![k].attempts = b] EXCEPT ![k].last = n]
    BY <2>2
  <2>. QED
    BY <2>1, <2>3, Zenon
<1>3. g1 = [f EXCEPT ![k] = e1] /\ e1 \in Execution
  BY <1>1 DEF Execution
<1>4. g1 \in [Rules -> Execution] /\ g1[k] = e1 /\ \A m \in Rules \ {k} : g1[m] = f[m]
  <2>. HIDE DEF e1, g1
  <2>. QED
    BY <1>3
<1>5. g2 = [g1 EXCEPT ![k] = e2]
  <2>1. g2 = [g1 EXCEPT ![k] = [g1[k] EXCEPT !.attempts = c]]
    <3>. HIDE DEF c, e1, g1
    <3>. QED
      OBVIOUS
  <2>. HIDE DEF c, e1, g1, g2
  <2>. QED
    BY <1>4, <2>1
<1>6. e2 \in Execution /\ [e2 EXCEPT !.last = n] = row /\ row \in Execution
  <2>1. c \in Nat
    BY <1>1 DEF Execution
  <2>2. e2 = [status |-> s, expired |-> f[k].expired, attempts |-> c, last |-> f[k].last]
    <3>1. e1 = [status |-> s, expired |-> f[k].expired, attempts |-> f[k].attempts,
                last |-> f[k].last]
      BY <1>1 DEF Execution
    <3>. HIDE DEF c, e1
    <3>. QED
      BY <3>1
  <2>3. e2 \in Execution /\ row \in Execution
    <3>. HIDE DEF c, e2
    <3>. QED
      BY <1>1, <2>1, <2>2 DEF Execution
  <2>4. [e2 EXCEPT !.last = n] = row
    <3>. HIDE DEF c, e2
    <3>. QED
      BY <2>2
  <2>. QED
    BY <2>3, <2>4
<1>7. g2 \in [Rules -> Execution] /\ g2[k] = e2 /\ \A m \in Rules \ {k} : g2[m] = g1[m]
  <2>. HIDE DEF e2, g1, g2
  <2>. QED
    BY <1>4, <1>5, <1>6
<1>8. g = [g2 EXCEPT ![k] = row]
  <2>1. g = [g2 EXCEPT ![k] = [g2[k] EXCEPT !.last = n]]
    <3>. HIDE DEF g2
    <3>. QED
      BY <1>2
  <2>. HIDE DEF e2, g2, row
  <2>. QED
    BY <1>6, <1>7, <2>1
<1>9. g \in [Rules -> Execution] /\ g[k] = row /\ \A m \in Rules \ {k} : g[m] = f[m]
  <2>. HIDE DEF g1, g2, row
  <2>. QED
    BY <1>4, <1>6, <1>7, <1>8
<1>. QED
  BY <1>9

NewLast(old, read) == IF old > read THEN old ELSE read + 1

\* One attempt with the result s; others is what it saw of the other rules.
Records(a, s, others) ==
  LET r == at[a]
      k == rule[a]
  IN
  /\ TypeInv' /\ RunsStay /\ UNCHANGED <<job, report>>
  /\ pc[a] = "recording" => s \in Terminal
  /\ exec'[r][k] = [status |-> IF snap[a].execs[k].status = s THEN exec[r][k].status ELSE s,
                    expired |-> exec[r][k].expired, attempts |-> exec[r][k].attempts + 1,
                    last |-> NewLast(exec[r][k].last, snap[a].execs[k].last)]
  /\ \A q \in Runs, m \in Rules : q # r \/ m # k => exec'[q][m] = exec[q][m]
  /\ \A q \in Runs \ {r} : run'[q] = run[q]
  /\ IF AllDone(others, k, s) /\ run[r].status = "queued"
       THEN run'[r].status = "completed" ELSE run'[r] = run[r]
  /\ a \in Workers => /\ Only(a) /\ pc'[a] = "next" /\ at'[a] = r /\ todo'[a] = todo[a]
                      /\ bad'[a] <=> bad[a] \/ s = "exception"
  /\ a \in Handlers => Ends(a)

LEMMA WriteRecordEffect ==
  ASSUME TypeInv, NEW a \in Actors, WriteRecord(a)
  PROVE  /\ pc[a] \in Recording /\ at[a] \in Runs /\ rule[a] \in Rules
         /\ exec[at[a]][rule[a]].status # "none"
         /\ \E s \in {"running"} \cup Terminal, others \in {snap[a].execs, exec[at[a]]} :
              Records(a, s, others)
<1>1. pc[a] \in Recording /\ UNCHANGED <<job, report, limitVars>>
  BY DEF WriteRecord, Recording
<1>2. /\ at[a] \in Runs /\ Made(at[a]) /\ rule[a] \in Rules
      /\ exec[at[a]][rule[a]].status # "none" /\ run[at[a]].round \in Rounds
  BY <1>1 DEF TypeInv, Working, OnRun, Recording, Naming, RunsFilled
<1>3. PICK r \in Runs, k \in Rules, d \in Rounds : r = at[a] /\ k = rule[a] /\ d = run[r].round
  BY <1>2
<1>4. PICK s \in Results(a), others \in {snap[a].execs, exec[r]} :
       /\ exec' = [exec EXCEPT ![r] = Recorded(a, s)]
       /\ \E i \in IssueAfter(a, issue[d][k], s) : issue' = [issue EXCEPT ![d][k] = i]
       /\ IF AllDone(others, k, s) /\ run[r].status = "queued"
            THEN /\ run' = [run EXCEPT ![r].status = "completed"]
                 /\ round' = [round EXCEPT ![d] = "awaiting_review"]
                 /\ task' = [task EXCEPT !.status = "awaiting_review"]
            ELSE UNCHANGED <<run, round, task>>
       /\ IF a \in Workers
            THEN /\ pc' = [pc EXCEPT ![a] = "next"]
                 /\ rule' = [rule EXCEPT ![a] = NoRule]
                 /\ bad' = [bad EXCEPT ![a] = @ \/ s = "exception"]
                 /\ snap' = [snap EXCEPT ![a] = NoSnap]
                 /\ UNCHANGED <<at, where, todo>>
            ELSE Release(a)
  BY <1>3 DEF WriteRecord
<1>5. s \in {"running"} \cup Terminal /\ (pc[a] = "recording" => s \in Terminal)
  BY <1>4 DEF Results
<1>6. /\ exec[r] \in [Rules -> Execution] /\ snap[a].execs \in [Rules -> Execution]
      /\ exec[r][k].status # "none"
  BY <1>2, <1>3 DEF TypeInv, RunsTyped, ActorsTyped
<1>7. PICK x \in {"none", "pending", "running"} \cup Terminal, n \in Nat :
        /\ x = IF snap[a].execs[k].status = s THEN exec[r][k].status ELSE s
        /\ n = NewLast(exec[r][k].last, snap[a].execs[k].last)
  <2>1. exec[r][k].status \in {"none", "pending", "running"} \cup Terminal
    BY <1>6 DEF Execution
  <2>2. NewLast(exec[r][k].last, snap[a].execs[k].last) \in Nat
    BY <1>6 DEF Execution, NewLast
  <2>. QED
    BY <1>5, <2>1, <2>2
<1>8. x # "none"
  BY <1>5, <1>6, <1>7 DEF Terminal
<1>8a. PICK f \in [Rules -> Execution] : f = exec[r]
  BY <1>6
<1>9. PICK g : g = WithAttempt(f, k, x, n)
  OBVIOUS
<1>10. exec' = [exec EXCEPT ![r] = g]
  BY <1>3, <1>4, <1>7, <1>8a, <1>9 DEF Recorded, WithAttempt, NewLast
<1>11. /\ g \in [Rules -> Execution]
       /\ g[k] = [status |-> x, expired |-> exec[r][k].expired,
                  attempts |-> exec[r][k].attempts + 1, last |-> n]
       /\ \A m \in Rules \ {k} : g[m] = exec[r][m]
  <2>1. /\ g \in [Rules -> Execution]
        /\ g[k] = [status |-> x, expired |-> f[k].expired, attempts |-> f[k].attempts + 1, last |-> n]
        /\ \A m \in Rules \ {k} : g[m] = f[m]
    BY <1>9, AttemptRow
  <2>. QED
    BY <1>8a, <2>1
<1>12. /\ exec' \in [Runs -> [Rules -> Execution]]
       /\ exec'[r][k] = [status |-> x, expired |-> exec[r][k].expired,
                         attempts |-> exec[r][k].attempts + 1, last |-> n]
       /\ \A q \in Runs, m \in Rules : q # r \/ m # k => exec'[q][m] = exec[q][m]
  BY <1>10, <1>11 DEF TypeInv, RunsTyped
<1>13. issue' \in [Rounds -> [Rules -> {"none", "open", "decided"}]]
  <2>1. issue \in [Rounds -> [Rules -> {"none", "open", "decided"}]]
    BY DEF TypeInv, RunsTyped
  <2>2. \A i \in IssueAfter(a, issue[d][k], s) : i \in {"none", "open", "decided"}
    BY <2>1 DEF IssueAfter
  <2>. QED
    BY <1>4, <2>1, <2>2
<1>14. /\ run' \in [Runs -> RunRow] /\ RoundsTyped'
       /\ \A q \in Runs \ {r} : run'[q] = run[q]
       /\ run'[r].kind = run[r].kind /\ run'[r].round = run[r].round /\ run'[r].no = run[r].no
       /\ IF AllDone(others, k, s) /\ run[r].status = "queued"
            THEN run'[r].status = "completed" ELSE run'[r] = run[r]
  <2>1. CASE AllDone(others, k, s) /\ run[r].status = "queued"
    <3>1. PICK c \in {"completed", "succeeded", "failed"} : c = "completed"
      OBVIOUS
    <3>2. run' = [run EXCEPT ![r].status = c]
      BY <1>4, <2>1, <3>1
    <3>3. /\ run' \in [Runs -> RunRow]
          /\ run'[r] = [kind |-> run[r].kind, status |-> c, round |-> run[r].round, no |-> run[r].no]
          /\ \A q \in Runs \ {r} : run'[q] = run[q]
      BY <1>2, <1>3, <3>2, RunWritten
    <3>4. RoundsTyped'
      <4>1. PICK t \in RoundStatus \ {"absent"} : t = "awaiting_review"
        BY DEF RoundStatus
      <4>2. task' = [task EXCEPT !.status = t] /\ round' = [round EXCEPT ![d] = t]
        BY <1>4, <2>1, <4>1
      <4>. QED
        BY <1>1, <4>2, RoundWritten
    <3>. QED
      BY <2>1, <3>1, <3>3, <3>4
  <2>2. CASE ~(AllDone(others, k, s) /\ run[r].status = "queued")
    <3>1. UNCHANGED <<run, round, task>>
      BY <1>4, <2>2
    <3>2. RoundsTyped'
      BY <1>1, <3>1, UnchangedRounds DEF roundVars
    <3>. QED
      BY <2>2, <3>1, <3>2 DEF TypeInv, RunsTyped
  <2>. QED
    BY <2>1, <2>2
<1>15. RunsTyped' /\ LimitsTyped'
  BY <1>1, <1>12, <1>13, <1>14, UnchangedLimits DEF RunsTyped, TypeInv
<1>16. RunsStay
  <2>1. \A q \in Runs, m \in Rules : exec'[q][m].status = "none" <=> exec[q][m].status = "none"
    BY <1>6, <1>8, <1>12
  <2>2. \A q \in Runs : /\ run'[q].kind = run[q].kind /\ run'[q].round = run[q].round
                        /\ run'[q].no = run[q].no
                        /\ ~Made(q) => run'[q] = run[q]
    BY <1>2, <1>3, <1>14
  <2>3. \A q \in Runs : job'[q] = job[q] /\ (Made(q) => job[q] # "absent")
    BY <1>1 DEF TypeInv, RunsFilled
  <2>. QED
    BY <2>1, <2>2, <2>3 DEF RunsStay
<1>17. CASE a \in Workers
  <2>1. /\ ActorsTyped' /\ Only(a) /\ pc'[a] = "next" /\ at'[a] = r /\ todo'[a] = todo[a]
        /\ bad'[a] <=> bad[a] \/ s = "exception"
        /\ snap'[a] = NoSnap
    <3>1. PICK b \in BOOLEAN : b <=> bad[a] \/ s = "exception"
      OBVIOUS
    <3>2. bad' = [bad EXCEPT ![a] = b]
      BY <1>4, <1>17, <3>1, Zenon
    <3>3. bad' \in [Actors -> BOOLEAN] /\ bad'[a] = b /\ \A c \in Actors \ {a} : bad'[c] = bad[c]
      BY <3>2 DEF TypeInv, ActorsTyped
    <3>4. /\ pc' = [pc EXCEPT ![a] = "next"] /\ rule' = [rule EXCEPT ![a] = NoRule]
          /\ snap' = [snap EXCEPT ![a] = NoSnap] /\ UNCHANGED <<at, where, todo>>
      BY <1>4, <1>17
    <3>5. ActorsTyped' /\ Only(a)
      BY <3>3, <3>4, NothingRead DEF TypeInv, ActorsTyped, Only, PC
    <3>6. pc'[a] = "next" /\ at'[a] = r /\ todo'[a] = todo[a] /\ snap'[a] = NoSnap
      BY <1>3, <3>4 DEF TypeInv, ActorsTyped
    <3>. QED
      BY <3>1, <3>3, <3>5, <3>6
  <2>2. \A m \in todo[a] : exec[r][m].status # "none"
    BY <1>1, <1>3 DEF TypeInv, Working, OnRun, Recording, Naming
  <2>3. snap'[a].no <= Cardinality(Created) /\ a \notin Handlers
    BY <1>17, <2>1, NothingRead, Sizes, Members
  <2>4. TypeInv'
    BY <1>2, <1>3, <1>14, <1>15, <1>16, <1>17, <2>1, <2>2, <2>3, StayTypes
       DEF OnRun, Recording, Naming, WorkerPC
  <2>5. Records(a, s, others)
    BY <1>1, <1>3, <1>5, <1>7, <1>12, <1>14, <1>16, <2>1, <2>3, <2>4 DEF Records
  <2>. QED
    BY <1>1, <1>2, <1>3, <1>5, <2>5
<1>18. CASE a \notin Workers
  <2>1. ActorsTyped' /\ Ends(a)
    BY <1>4, <1>18, ReleaseMoves DEF TypeInv
  <2>2. TypeInv'
    BY <1>14, <1>15, <1>16, <2>1, PassTypes
  <2>3. Records(a, s, others)
    BY <1>1, <1>3, <1>5, <1>7, <1>12, <1>14, <1>16, <1>18, <2>1, <2>2 DEF Records
  <2>. QED
    BY <1>1, <1>2, <1>3, <1>5, <2>3
<1>. QED
  BY <1>17, <1>18

-----------------------------------------------------------------------------
(* Types are kept.                                                         *)

LEMMA StutterTypes == TypeInv /\ UNCHANGED vars => TypeInv'
  BY DEF TypeInv, vars, ActorsTyped, RunsTyped, RoundsTyped, LimitsTyped, Roles, Working, OnRun,
         Made, RunsFilled, Numbered, Created

LEMMA RequestTypes ==
  ASSUME TypeInv, NEW h \in Handlers, RequestStep(h)
  PROVE  TypeInv'
<1>1. ASSUME NEW d \in Rounds, BeginStart(h, d) \/ BeginRerun(h, d) \/ BeginPublish(h, d)
      PROVE  TypeInv'
  BY <1>1, BeginStartEffect, BeginRerunEffect, BeginPublishEffect DEF Asks
<1>2. CASE BeginByHand(h)
  BY <1>2, BeginByHandEffect DEF Opens
<1>3. CASE \/ RetryExecution(h) \/ CancelJob(h) \/ RetryJob(h)
           \/ DecideIssue(h) \/ CreateReport(h) \/ CreateRound(h)
  BY <1>3, RetryExecutionEffect, JobRequestEffect, DecideIssueEffect, ReportOrRoundEffect DEF Serves
<1>. QED
  BY <1>1, <1>2, <1>3 DEF RequestStep

LEMMA HandlerTypes ==
  ASSUME TypeInv, NEW h \in Handlers, HandlerProgress(h)
  PROVE  TypeInv'
<1>1. CASE WriteStart(h)
  BY <1>1, WriteStartEffect DEF Creates
<1>2. CASE WriteRerun(h)
  BY <1>2, WriteRerunEffect DEF Creates
<1>3. CASE WriteRecord(h)
  BY <1>3, WriteRecordEffect, Members DEF Records
<1>4. CASE WritePublish(h)
  BY <1>4, WritePublishEffect
<1>. QED
  BY <1>1, <1>2, <1>3, <1>4 DEF HandlerProgress

LEMMA WorkerTypes ==
  ASSUME TypeInv, NEW c \in Workers, WorkerStep(c)
  PROVE  TypeInv'
<1>1. ASSUME NEW r \in Runs, Takes(c, r) PROVE TypeInv'
  BY <1>1, TakesEffect
<1>2. CASE BeginNext(c)
  BY <1>2, BeginNextEffect DEF Opens
<1>3. CASE WriteRecord(c)
  BY <1>3, WriteRecordEffect, Members DEF Records
<1>4. CASE ListPending(c) \/ CompleteRun(c) \/ FinishJob(c) \/ FailJob(c) \/ Requeue(c)
  BY <1>4, ListPendingEffect, CompleteRunEffect, FinishJobEffect, FailJobEffect, RequeueEffect
<1>5. CASE Refuse(c) \/ FailRefused(c)
  BY <1>5, RefuseEffect, FailRefusedEffect
<1>. QED
  BY <1>1, <1>2, <1>3, <1>4, <1>5 DEF WorkerStep, WorkerProgress, Takes

LEMMA StepTypes == TypeInv /\ [Next]_vars => TypeInv'
<1>1. ASSUME TypeInv, FaultStep PROVE TypeInv'
  BY <1>1, BodyBreaksEffect, CrashEffect DEF FaultStep
<1>. QED
  BY <1>1, RequestTypes, HandlerTypes, WorkerTypes, WorkerSteps, StutterTypes DEF Next

\* Every row, actor and counter keeps the kind of value it is declared with,
\* and run numbers never pass the number of runs, on either isolation.
THEOREM AuditTypes == Spec => []TypeOK
<1>1. Spec => []TypeInv
  BY InitTypes, StepTypes, PTL DEF Spec
<1>. QED
  BY <1>1, TypesMeet, PTL

-----------------------------------------------------------------------------
(* What a job that succeeded has tried, on either isolation.               *)

Untried(r) == {k \in Rules : exec[r][k].status # "none" /\ exec[r][k].attempts = 0}

Trying == {"next", "recording", "finish"}

\* What a worker is still to record.
Listed(c) == todo[c] \cup (IF pc[c] = "recording" THEN {rule[c]} ELSE {})

\* An execution without an attempt waits, in the list of every worker that has
\* made one for its run; so that a worker that is done leaves none.
TriedInv ==
  /\ \A r \in Runs : \A k \in Untried(r) : exec[r][k].status = "pending"
  /\ \A c \in Workers : pc[c] \in Trying => Untried(at[c]) \subseteq Listed(c)
  /\ \A c \in Workers : pc[c] = "finish" => todo[c] = {}
  /\ SucceededJobTriedAll

LEMMA InitTried == Init => TriedInv
  BY Unstarted, Members
     DEF Init, TriedInv, Untried, Trying, SucceededJobTriedAll, InRun

\* A step of one actor, by what it does to the executions, the jobs and its place.
LEMMA TriedKept ==
  ASSUME TypeInv, TypeInv', TriedInv, NEW a \in Actors, Only(a),
         \A r \in Runs : Made(r) => Untried(r)' \subseteq Untried(r),
         \A r \in Runs : \A k \in Untried(r)' : exec'[r][k].status = "pending",
         \A r \in Runs : job'[r] = "succeeded" => Made(r) /\ (job[r] = "succeeded" \/ Untried(r) = {}),
         a \in Workers /\ pc'[a] \in Trying =>
           \A r \in Runs : at'[a] = r => Untried(r)' \subseteq Listed(a)',
         a \in Workers /\ pc'[a] = "finish" => todo'[a] = {}
  PROVE  TriedInv'
<1>1. ASSUME NEW c \in Workers, pc'[c] \in Trying, NEW r \in Runs, r = at'[c]
      PROVE  Untried(r)' \subseteq Listed(c)'
  <2>1. CASE c = a
    BY <1>1, <2>1
  <2>2. CASE c # a
    <3>1. /\ c \in Actors /\ pc'[c] = pc[c] /\ at'[c] = at[c] /\ todo'[c] = todo[c]
          /\ rule'[c] = rule[c]
      BY <1>1, <2>2, Members DEF Only
    <3>2. Made(r) /\ Untried(r) \subseteq Listed(c)
      BY <1>1, <3>1 DEF TypeInv, Working, OnRun, Naming, Trying, TriedInv
    <3>3. Listed(c)' = Listed(c)
      BY <3>1 DEF Listed
    <3>. QED
      BY <3>2, <3>3
  <2>. QED
    BY <2>1, <2>2
<1>2. \A c \in Workers : pc'[c] \in Trying => at'[c] \in Runs
  BY Members DEF TypeInv, Working, OnRun, Naming, Trying
<1>3. \A c \in Workers : pc'[c] \in Trying => (Untried(at[c]) \subseteq Listed(c))'
  BY <1>1, <1>2
<1>4. \A c \in Workers : pc'[c] = "finish" => todo'[c] = {}
  BY Members DEF Only, TriedInv
<1>5. SucceededJobTriedAll'
  <2>1. ASSUME NEW r \in Runs, job'[r] = "succeeded", NEW k \in Rules, exec'[r][k].status # "none"
        PROVE  exec'[r][k].attempts > 0
    <3>1. Made(r) /\ Untried(r)' \subseteq Untried(r)
      BY <2>1
    <3>2. Untried(r) = {}
      <4>1. exec \in [Runs -> [Rules -> Execution]]
        BY DEF TypeInv, RunsTyped
      <4>. QED
        BY <2>1, <4>1 DEF TriedInv, SucceededJobTriedAll, InRun, Untried, Execution
    <3>3. exec'[r][k].attempts # 0
      BY <2>1, <3>1, <3>2 DEF Untried
    <3>4. exec'[r][k].attempts \in Nat
      BY DEF TypeInv, RunsTyped, Execution
    <3>. QED
      BY <3>3, <3>4
  <2>. QED
    BY <2>1 DEF SucceededJobTriedAll, InRun
<1>. QED
  BY <1>3, <1>4, <1>5 DEF TriedInv

\* The executions do not change, nor does a job succeed.
LEMMA TriedMoves ==
  ASSUME TypeInv, TypeInv', TriedInv, NEW a \in Actors, Only(a), exec' = exec,
         \A r \in Runs : job'[r] = "succeeded" => job[r] = "succeeded",
         a \in Workers /\ pc'[a] \in Trying =>
           \A r \in Runs : at'[a] = r => Untried(r) \subseteq Listed(a)',
         a \in Workers /\ pc'[a] = "finish" => todo'[a] = {}
  PROVE  TriedInv'
<1>1. \A r \in Runs : Untried(r)' = Untried(r)
  BY DEF Untried
<1>2. \A r \in Runs : job[r] = "succeeded" => Made(r)
  BY DEF TypeInv, RunsFilled
<1>3. \A r \in Runs : \A k \in Untried(r)' : exec'[r][k].status = "pending"
  BY <1>1 DEF TriedInv
<1>. QED
  BY <1>1, <1>2, <1>3, TriedKept

LEMMA TriedServed ==
  ASSUME TypeInv, TriedInv, NEW h \in Handlers,
         RetryExecution(h) \/ CancelJob(h) \/ RetryJob(h) \/ DecideIssue(h)
           \/ CreateReport(h) \/ CreateRound(h)
  PROVE  TriedInv'
<1>1. TypeInv' /\ Only(h) /\ h \in Actors /\ h \notin Workers
  <2>1. Serves(h)
    BY RetryExecutionEffect, JobRequestEffect, DecideIssueEffect, ReportOrRoundEffect
  <2>. QED
    BY <2>1, Members DEF Serves, actorVars, Only
<1>2. CASE RetryExecution(h)
  <2>1. job' = job
    BY <1>2, RetryExecutionEffect
  <2>2. PICK r \in Runs, k \in Rules :
          /\ exec[r][k].status \in Terminal
          /\ exec'[r][k] = [status |-> "pending", expired |-> exec[r][k].expired,
                            attempts |-> exec[r][k].attempts, last |-> exec[r][k].last]
          /\ \A q \in Runs, m \in Rules : q # r \/ m # k => exec'[q][m] = exec[q][m]
    BY <1>2, RetryExecutionEffect
  <2>3. k \notin Untried(r) /\ exec[r][k].status # "none"
    BY <2>2 DEF TriedInv, Terminal
  <2>4. exec[r][k].attempts # 0
    BY <2>3 DEF Untried
  <2>5. \A q \in Runs : Untried(q)' \subseteq Untried(q)
    BY <2>2, <2>4 DEF Untried
  <2>6. \A q \in Runs : \A m \in Untried(q)' : exec'[q][m].status = "pending"
    BY <2>2, <2>5 DEF TriedInv, Untried
  <2>7. \A q \in Runs : job'[q] = "succeeded" => Made(q) /\ job[q] = "succeeded"
    BY <2>1 DEF TypeInv, RunsFilled
  <2>. QED
    BY <1>1, <2>5, <2>6, <2>7, TriedKept
<1>3. CASE CancelJob(h) \/ RetryJob(h)
  <2>1. exec' = exec /\ \A r \in Runs : job'[r] = "succeeded" => job[r] = "succeeded"
    BY <1>3, JobRequestEffect DEF TypeInv, RunsTyped
  <2>. QED
    BY <1>1, <2>1, TriedMoves
<1>4. CASE DecideIssue(h) \/ CreateReport(h) \/ CreateRound(h)
  <2>1. exec' = exec /\ job' = job
    BY <1>4, DecideIssueEffect, ReportOrRoundEffect DEF runVars
  <2>. QED
    BY <1>1, <2>1, TriedMoves
<1>. QED
  BY <1>2, <1>3, <1>4

LEMMA TriedBegun ==
  ASSUME TypeInv, TriedInv, NEW h \in Handlers,
         BeginByHand(h) \/ \E d \in Rounds : BeginStart(h, d) \/ BeginRerun(h, d) \/ BeginPublish(h, d)
  PROVE  TriedInv'
<1>1. TypeInv' /\ Only(h) /\ UNCHANGED runVars
  BY BeginStartEffect, BeginRerunEffect, BeginPublishEffect, BeginByHandEffect DEF Asks, Opens
<1>. QED
  BY <1>1, Members, TriedMoves DEF runVars

LEMMA TriedCreated ==
  ASSUME TypeInv, TriedInv, NEW h \in Handlers, WriteStart(h) \/ WriteRerun(h)
  PROVE  TriedInv'
<1>1. PICK r \in Runs, kind \in {"audit", "local"}, K \in SUBSET Rules : Creates(h, r, kind, K)
  BY WriteStartEffect, WriteRerunEffect
<1>2. TypeInv' /\ Only(h) /\ h \in Actors /\ h \notin Workers
  BY <1>1, Members DEF Creates, Ends
<1>3. ~Made(r) /\ job'[r] = "queued" /\ \A q \in Runs \ {r} : job'[q] = job[q]
  BY <1>1 DEF Creates, TypeInv, RunsTyped
<1>4. \A q \in Runs : Made(q) => Untried(q)' \subseteq Untried(q)
  BY <1>1, <1>3 DEF Creates, Untried
<1>5. ASSUME NEW q \in Runs, NEW m \in Untried(q)' PROVE exec'[q][m].status = "pending"
  <2>1. CASE q = r
    BY <1>1, <1>5, <2>1, Unstarted DEF Creates, Untried, Fresh
  <2>2. CASE q # r
    BY <1>1, <1>5, <2>2 DEF Creates, Untried, TriedInv
  <2>. QED
    BY <2>1, <2>2
<1>6. \A q \in Runs : job'[q] = "succeeded" => Made(q) /\ job[q] = "succeeded"
  BY <1>3 DEF TypeInv, RunsFilled
<1>. QED
  BY <1>2, <1>4, <1>5, <1>6, TriedKept

LEMMA TriedRecorded ==
  ASSUME TypeInv, TriedInv, NEW a \in Actors, WriteRecord(a)
  PROVE  TriedInv'
<1>1. /\ pc[a] \in Recording /\ at[a] \in Runs /\ rule[a] \in Rules
      /\ exec[at[a]][rule[a]].status # "none"
  BY WriteRecordEffect
<1>2. PICK s, others : Records(a, s, others)
  BY WriteRecordEffect
<1>3. PICK r \in Runs, k \in Rules : r = at[a] /\ k = rule[a]
  BY <1>1
<1>4. TypeInv' /\ Only(a) /\ job' = job
  BY <1>2, Members DEF Records, Ends, Actors
<1>5. /\ exec'[r][k].attempts = exec[r][k].attempts + 1
      /\ \A q \in Runs, m \in Rules : q # r \/ m # k => exec'[q][m] = exec[q][m]
  BY <1>2, <1>3 DEF Records
<1>6. exec'[r][k].attempts # 0
  BY <1>5 DEF TypeInv, RunsTyped, Execution
<1>7. \A q \in Runs : Untried(q)' \subseteq Untried(q)
  BY <1>5, <1>6 DEF Untried
<1>8. \A q \in Runs : \A m \in Untried(q)' : exec'[q][m].status = "pending"
  BY <1>5, <1>6 DEF Untried, TriedInv
<1>9. \A q \in Runs : job'[q] = "succeeded" => Made(q) /\ job[q] = "succeeded"
  BY <1>4 DEF TypeInv, RunsFilled
<1>10. ASSUME a \in Workers
       PROVE  pc'[a] = "next" /\ \A q \in Runs : at'[a] = q => Untried(q)' \subseteq Listed(a)'
  <2>1. pc'[a] = "next" /\ at'[a] = r /\ todo'[a] = todo[a]
    BY <1>2, <1>3, <1>10 DEF Records
  <2>2. pc[a] = "recording" /\ Untried(r) \subseteq todo[a] \cup {k}
    BY <1>1, <1>3, <1>10 DEF Recording, TypeInv, Roles, WorkerPC, TriedInv, Trying, Listed
  <2>3. k \notin Untried(r)'
    BY <1>6 DEF Untried
  <2>. QED
    BY <2>1, <2>2, <2>3, <1>7 DEF Listed
<1>. QED
  BY <1>4, <1>7, <1>8, <1>9, <1>10, TriedKept

LEMMA TriedWorked ==
  ASSUME TypeInv, TriedInv, NEW c \in Workers, WorkerStep(c) \/ BodyBreaks(c)
  PROVE  TriedInv'
<1>. c \in Actors
  BY Members
<1>1. ASSUME NEW r \in Runs, Takes(c, r) PROVE TriedInv'
  BY <1>1, TakesEffect, TriedMoves DEF Trying, runVars
<1>2. CASE ListPending(c)
  <2>1. /\ TypeInv' /\ Only(c) /\ exec' = exec /\ pc'[c] = "next" /\ at'[c] = at[c]
        /\ todo'[c] = {k \in Rules : exec[at[c]][k].status = "pending"}
    BY <1>2, ListPendingEffect
  <2>2. \A r \in Runs : job'[r] = "succeeded" => job[r] = "succeeded"
    BY <1>2, ListPendingEffect DEF TypeInv, RunsTyped
  <2>3. \A r \in Runs : at'[c] = r => Untried(r) \subseteq Listed(c)'
    BY <2>1 DEF Listed, TriedInv, Untried
  <2>. QED
    BY <2>1, <2>2, <2>3, TriedMoves
<1>3. CASE BeginNext(c)
  <2>1. PICK k \in todo[c] : Opens(c, at[c], k, "recording") /\ todo'[c] = todo[c] \ {k}
    BY <1>3, BeginNextEffect
  <2>2. pc[c] = "next"
    BY <1>3, BeginNextEffect
  <2>3. Untried(at[c]) \subseteq todo[c]
    BY <2>2 DEF TriedInv, Trying, Listed
  <2>4. /\ TypeInv' /\ Only(c) /\ exec' = exec /\ job' = job /\ at'[c] = at[c]
        /\ pc'[c] = "recording" /\ rule'[c] = k
    BY <2>1 DEF Opens, runVars
  <2>5. Listed(c)' = todo[c]
    BY <2>1, <2>4 DEF Listed
  <2>. QED
    BY <2>3, <2>4, <2>5, TriedMoves
<1>4. CASE WriteRecord(c)
  BY <1>4, TriedRecorded
<1>5. CASE CompleteRun(c)
  <2>1. /\ TypeInv' /\ exec' = exec /\ job' = job /\ Turns(c, "finish")
        /\ pc[c] = "next" /\ todo[c] = {}
    BY <1>5, CompleteRunEffect
  <2>2. Only(c) /\ at'[c] = at[c] /\ todo'[c] = {}
    BY <2>1 DEF Turns
  <2>3. Untried(at[c]) = {}
    BY <2>1 DEF TriedInv, Trying, Listed
  <2>. QED
    BY <2>1, <2>2, <2>3, TriedMoves
<1>6. CASE FinishJob(c)
  <2>1. /\ TypeInv' /\ exec' = exec /\ Ends(c) /\ pc[c] = "finish"
        /\ job' = [job EXCEPT ![at[c]] = IF bad[c] THEN "failed" ELSE "succeeded"]
    BY <1>6, FinishJobEffect
  <2>2. Untried(at[c]) = {} /\ at[c] \in Runs /\ Made(at[c])
    BY <2>1 DEF TriedInv, Trying, Listed, TypeInv, Working, OnRun, Naming
  <2>3. \A r \in Runs : Untried(r)' = Untried(r)
    BY <2>1 DEF Untried
  <2>4. \A r \in Runs : \A k \in Untried(r)' : exec'[r][k].status = "pending"
    BY <2>1, <2>3 DEF TriedInv
  <2>5. \A r \in Runs : job'[r] = "succeeded" => Made(r) /\ (job[r] = "succeeded" \/ Untried(r) = {})
    BY <2>1, <2>2 DEF TypeInv, RunsTyped, RunsFilled
  <2>6. pc'[c] = "idle" /\ Only(c)
    BY <2>1 DEF Ends
  <2>. QED
    BY <2>1, <2>3, <2>4, <2>5, <2>6, TriedKept DEF Trying
<1>7. CASE FailJob(c) \/ Requeue(c) \/ BodyBreaks(c)
  <2>1. /\ TypeInv' /\ exec' = exec
        /\ Ends(c) \/ Turns(c, "requeue") \/ Turns(c, "failjob")
    BY <1>7, FailJobEffect, RequeueEffect, BodyBreaksEffect DEF runVars
  <2>2. \A r \in Runs : job'[r] = "succeeded" => job[r] = "succeeded"
    BY <1>7, FailJobEffect, RequeueEffect, BodyBreaksEffect DEF runVars, TypeInv, RunsTyped
  <2>3. Only(c) /\ pc'[c] \in {"idle", "requeue", "failjob"}
    BY <2>1 DEF Ends, Turns
  <2>. QED
    BY <2>1, <2>2, <2>3, TriedMoves DEF Trying
<1>8. CASE Refuse(c) \/ FailRefused(c)
  <2>1. /\ TypeInv' /\ exec' = exec
        /\ Ends(c) \/ Turns(c, "refused")
    BY <1>8, RefuseEffect, FailRefusedEffect
  <2>2. \A r \in Runs : job'[r] = "succeeded" => job[r] = "succeeded"
    BY <1>8, RefuseEffect, FailRefusedEffect DEF TypeInv, RunsTyped
  <2>3. Only(c) /\ pc'[c] \in {"idle", "refused"}
    BY <2>1 DEF Ends, Turns
  <2>. QED
    BY <2>1, <2>2, <2>3, TriedMoves DEF Trying
<1>. QED
  BY <1>1, <1>2, <1>3, <1>4, <1>5, <1>6, <1>7, <1>8 DEF WorkerStep, WorkerProgress, Takes

LEMMA TriedStep == TypeInv /\ TriedInv /\ [Next]_vars => TriedInv'
<1>. SUFFICES ASSUME TypeInv, TriedInv, [Next]_vars PROVE TriedInv'
  OBVIOUS
<1>1. ASSUME NEW h \in Handlers, RequestStep(h) PROVE TriedInv'
  BY <1>1, TriedServed, TriedBegun DEF RequestStep
<1>2. ASSUME NEW h \in Handlers, HandlerProgress(h) PROVE TriedInv'
  <2>1. CASE WritePublish(h)
    BY <2>1, WritePublishEffect, Members, TriedMoves DEF runVars, Ends
  <2>. QED
    BY <1>2, <2>1, TriedCreated, TriedRecorded, Members DEF HandlerProgress
<1>3. ASSUME NEW c \in Workers, WorkerStep(c) PROVE TriedInv'
  BY <1>3, TriedWorked
<1>4. CASE FaultStep
  <2>1. ASSUME NEW a \in Actors, Crash(a) PROVE TriedInv'
    BY <2>1, CrashEffect, TriedMoves DEF runVars, Ends, Trying
  <2>. QED
    BY <1>4, <2>1, TriedWorked DEF FaultStep
<1>5. CASE UNCHANGED vars
  BY <1>5 DEF vars, TriedInv, Untried, Trying, Listed, SucceededJobTriedAll, InRun
<1>. QED
  BY <1>1, <1>2, <1>3, <1>4, <1>5, WorkerSteps DEF Next

\* However often a job is interrupted, requeued, canceled or run again, by
\* whom, and whatever is recorded by hand meanwhile: when process_queue_job
\* calls it succeeded, every rule of its run has an attempt.
THEOREM TriedAllHolds == Spec => []SucceededJobTriedAll
<1>1. Init => TypeInv /\ TriedInv
  BY InitTypes, InitTried
<1>2. TypeInv /\ TriedInv /\ [Next]_vars => (TypeInv /\ TriedInv)'
  BY StepTypes, TriedStep
<1>3. TypeInv /\ TriedInv => SucceededJobTriedAll
  BY DEF TriedInv
<1>. QED
  BY <1>1, <1>2, <1>3, PTL DEF Spec

-----------------------------------------------------------------------------
(* Serializable transactions.                                              *)

Alone ==
  \A a, b \in Actors : pc[a] \in Transaction /\ pc[b] \in Transaction => a = b

\* What an open transaction has read is still so.
SnapsCurrent ==
  \A a \in Actors : pc[a] \in Recording => snap[a].execs = exec[at[a]]

SerialInv == Alone /\ SnapsCurrent /\ DoneRunIsClosed

LEMMA InitSerial == Init => SerialInv
<1>. SUFFICES ASSUME Init PROVE SerialInv
  OBVIOUS
<1>1. \A r \in Runs : run[r].status = "none"
  BY DEF Init, NoRunRow
<1>2. \A a \in Actors : pc[a] = "idle"
  BY DEF Init
<1>3. Alone /\ SnapsCurrent
  BY <1>2 DEF Alone, SnapsCurrent, Transaction, Recording
<1>4. DoneRunIsClosed
  BY <1>1 DEF DoneRunIsClosed
<1>. QED
  BY <1>3, <1>4 DEF SerialInv

\* Nobody else is in a transaction.
Free(a) == \A b \in Actors \ {a} : pc[b] \notin Transaction

LEMMA Freed ==
  ASSUME SerialStore, NEW a \in Actors,
         Isolated(a) \/ (Alone /\ pc[a] \in Transaction)
  PROVE  Free(a)
  BY DEF Isolated, Alone, Free

\* A run is queued that was queued before.
NoneQueued ==
  \A r \in Runs : run'[r].status = "queued" => run[r].status = "queued"

LEMMA CurrentKept ==
  ASSUME Alone, SnapsCurrent, NEW a \in Actors, Only(a),
         Free(a) \/ exec' = exec,
         pc'[a] \in Transaction => Free(a),
         pc'[a] \in Recording => snap'[a].execs = exec'[at'[a]]
  PROVE  Alone' /\ SnapsCurrent'
<1>1. Alone'
  <2>1. ASSUME NEW b \in Actors, NEW c \in Actors, pc'[b] \in Transaction, pc'[c] \in Transaction
        PROVE  b = c
    <3>1. CASE b # a /\ c # a
      BY <2>1, <3>1 DEF Only, Alone
    <3>2. CASE b = a \/ c = a
      BY <2>1, <3>2 DEF Only, Free
    <3>. QED
      BY <3>1, <3>2
  <2>. QED
    BY <2>1 DEF Alone
<1>2. ASSUME NEW b \in Actors
      PROVE  pc'[b] \in Recording => snap'[b].execs = exec'[at'[b]]
  <2>1. CASE b = a
    BY <2>1
  <2>2. CASE b # a
    <3>1. pc'[b] = pc[b] /\ snap'[b] = snap[b] /\ at'[b] = at[b]
      BY <2>2 DEF Only
    <3>2. CASE Free(a)
      BY <2>2, <3>1, <3>2 DEF Free, Transaction, Recording
    <3>3. CASE exec' = exec
      BY <3>1, <3>3 DEF SnapsCurrent
    <3>. QED
      BY <3>2, <3>3
  <2>. QED
    BY <2>1, <2>2
<1>. QED
  BY <1>1, <1>2 DEF SnapsCurrent

\* The executions do not change and no run joins the queue.
LEMMA RowsKept ==
  ASSUME TypeInv, SerialInv, exec' = exec, NoneQueued
  PROVE  DoneRunIsClosed'
  BY DEF SerialInv, DoneRunIsClosed, NoneQueued, InRun

LEMMA SerialMoves ==
  ASSUME TypeInv, SerialInv, NEW a \in Actors, Only(a), exec' = exec, NoneQueued,
         pc'[a] \in Transaction => Free(a),
         pc'[a] \in Recording => snap'[a].execs = exec'[at'[a]]
  PROVE  SerialInv'
  BY RowsKept, CurrentKept DEF SerialInv

\* A step that ends a transaction, or is outside of one.
LEMMA SerialQuits ==
  ASSUME TypeInv, SerialInv, NEW a \in Actors, Only(a), exec' = exec, NoneQueued,
         pc'[a] \notin Transaction
  PROVE  SerialInv'
  BY SerialMoves DEF Transaction, Recording

LEMMA SerialServed ==
  ASSUME SerialStore, TypeInv, SerialInv, NEW h \in Handlers,
         RetryExecution(h) \/ CancelJob(h) \/ RetryJob(h) \/ DecideIssue(h)
           \/ CreateReport(h) \/ CreateRound(h)
  PROVE  SerialInv'
<1>1. Only(h) /\ h \in Actors /\ Isolated(h) /\ pc'[h] = "idle" /\ pc' = pc /\ RunsStay
  <2>1. Serves(h)
    BY RetryExecutionEffect, JobRequestEffect, DecideIssueEffect, ReportOrRoundEffect
  <2>. QED
    BY <2>1, Members DEF Serves, actorVars, Only
<1>2. run' = run
  BY RetryExecutionEffect, JobRequestEffect, DecideIssueEffect, ReportOrRoundEffect DEF runVars
<1>3. NoneQueued
  BY <1>2 DEF NoneQueued
<1>4. CASE RetryExecution(h)
  <2>1. PICK r \in Runs, k \in Rules :
          /\ exec[r][k].status \in Terminal
          /\ exec'[r][k] = [status |-> "pending", expired |-> exec[r][k].expired,
                            attempts |-> exec[r][k].attempts, last |-> exec[r][k].last]
          /\ \A q \in Runs, m \in Rules : q # r \/ m # k => exec'[q][m] = exec[q][m]
    BY <1>4, RetryExecutionEffect
  <2>2. Alone' /\ SnapsCurrent'
    BY <1>1, Freed, CurrentKept DEF SerialInv, Recording, Transaction
  <2>3. ASSUME NEW q \in Runs, run'[q].status = "queued"
        PROVE  \E m \in Rules : exec'[q][m].status # "none" /\ exec'[q][m].status \notin Terminal
    <3>1. PICK m \in Rules : exec[q][m].status # "none" /\ exec[q][m].status \notin Terminal
      BY <1>2, <2>3 DEF SerialInv, DoneRunIsClosed, InRun
    <3>. QED
      BY <2>1, <3>1
  <2>4. DoneRunIsClosed'
    BY <2>3 DEF DoneRunIsClosed, InRun
  <2>. QED
    BY <2>2, <2>4 DEF SerialInv
<1>5. CASE ~RetryExecution(h)
  <2>1. exec' = exec
    BY <1>5, JobRequestEffect, DecideIssueEffect, ReportOrRoundEffect DEF runVars
  <2>. QED
    BY <1>1, <1>3, <2>1, SerialQuits DEF Transaction
<1>. QED
  BY <1>4, <1>5

LEMMA SerialBegun ==
  ASSUME SerialStore, TypeInv, SerialInv, NEW h \in Handlers,
         BeginByHand(h) \/ \E d \in Rounds : BeginStart(h, d) \/ BeginRerun(h, d) \/ BeginPublish(h, d)
  PROVE  SerialInv'
<1>. h \in Actors
  BY Members
<1>1. UNCHANGED runVars /\ Only(h) /\ Isolated(h)
  BY BeginStartEffect, BeginRerunEffect, BeginPublishEffect, BeginByHandEffect DEF Asks, Opens
<1>2. exec' = exec /\ NoneQueued /\ Free(h)
  BY <1>1, Freed DEF runVars, NoneQueued
<1>3. CASE BeginByHand(h)
  <2>1. PICK r \in Runs, k \in Rules, to \in Recording : Opens(h, r, k, to)
    BY <1>3, BeginByHandEffect
  <2>. QED
    BY <1>1, <1>2, <2>1, SerialMoves DEF Opens, Recording
<1>4. ASSUME NEW d \in Rounds, BeginStart(h, d) PROVE SerialInv'
  <2>1. pc'[h] \in {"idle", "starting"}
    BY <1>4, BeginStartEffect DEF Ends
  <2>. QED
    BY <1>1, <1>2, <2>1, SerialMoves DEF Recording
<1>5. ASSUME NEW d \in Rounds, BeginRerun(h, d) \/ BeginPublish(h, d) PROVE SerialInv'
  <2>1. pc'[h] \in {"rerunning", "publishing"}
    BY <1>5, BeginRerunEffect, BeginPublishEffect
  <2>. QED
    BY <1>1, <1>2, <2>1, SerialMoves DEF Recording
<1>. QED
  BY <1>3, <1>4, <1>5

LEMMA SerialCreated ==
  ASSUME SerialStore, TypeInv, SerialInv, NEW h \in Handlers, WriteStart(h) \/ WriteRerun(h)
  PROVE  SerialInv'
<1>1. PICK r \in Runs, kind \in {"audit", "local"}, K \in (SUBSET Rules) \ {{}} :
        /\ Creates(h, r, kind, K)
        /\ pc[h] \in {"starting", "rerunning"}
        /\ kind = "audit" => pc[h] = "starting"
  <2>1. CASE WriteStart(h)
    <3>1. PICK r \in Runs : Creates(h, r, "audit", Rules)
      BY <2>1, WriteStartEffect
    <3>2. Rules \in (SUBSET Rules) \ {{}} /\ pc[h] = "starting"
      BY <2>1, AuditAssumption, WriteStartEffect
    <3>. QED
      BY <3>1, <3>2
  <2>2. CASE WriteRerun(h)
    BY <2>2, WriteRerunEffect
  <2>. QED
    BY <2>1, <2>2
<1>2. /\ h \in Actors /\ Free(h) /\ Only(h) /\ pc'[h] = "idle" /\ ~Made(r)
      /\ run'[r] = [kind |-> kind, status |-> "queued", round |-> where[h], no |-> snap[h].no + 1]
      /\ \A q \in Runs \ {r} : run'[q] = run[q]
  BY <1>1, Members, Freed DEF Creates, Ends, SerialInv, Transaction
<1>3. Alone' /\ SnapsCurrent'
  BY <1>2, CurrentKept DEF SerialInv, Recording, Transaction
<1>4. DoneRunIsClosed'
  <2>1. ASSUME NEW q \in Runs, run'[q].status = "queued"
        PROVE  \E m \in Rules : exec'[q][m].status # "none" /\ exec'[q][m].status \notin Terminal
    <3>1. CASE q = r
      <4>1. PICK m \in K : TRUE
        BY <1>1
      <4>2. exec'[r][m] = Fresh
        BY <1>1, <4>1 DEF Creates
      <4>. QED
        BY <3>1, <4>2 DEF Fresh, Terminal
    <3>2. CASE q # r
      <4>1. PICK m \in Rules : exec[q][m].status # "none" /\ exec[q][m].status \notin Terminal
        BY <1>2, <2>1, <3>2 DEF SerialInv, DoneRunIsClosed, InRun
      <4>2. exec'[q][m].status = exec[q][m].status
        BY <1>1, <3>2 DEF Creates
      <4>. QED
        BY <4>1, <4>2
    <3>. QED
      BY <3>1, <3>2
  <2>. QED
    BY <2>1 DEF DoneRunIsClosed, InRun
<1>. QED
  BY <1>3, <1>4 DEF SerialInv

LEMMA SerialRecorded ==
  ASSUME SerialStore, TypeInv, SerialInv, NEW a \in Actors, WriteRecord(a)
  PROVE  SerialInv'
<1>1. /\ pc[a] \in Recording /\ at[a] \in Runs /\ rule[a] \in Rules
      /\ exec[at[a]][rule[a]].status # "none" /\ snap[a].execs = exec[at[a]]
  BY WriteRecordEffect DEF SerialInv, SnapsCurrent
<1>2. PICK s \in {"running"} \cup Terminal : Records(a, s, exec[at[a]])
  BY <1>1, WriteRecordEffect
<1>3. PICK r \in Runs, k \in Rules : r = at[a] /\ k = rule[a]
  BY <1>1
<1>4. /\ exec'[r][k].status = s
      /\ \A q \in Runs, m \in Rules : q # r \/ m # k => exec'[q][m] = exec[q][m]
  BY <1>1, <1>2, <1>3 DEF Records
<1>5. /\ Only(a) /\ pc'[a] \in {"next", "idle"} /\ RunsStay
      /\ \A q \in Runs \ {r} : run'[q] = run[q]
      /\ IF AllDone(exec[r], k, s) /\ run[r].status = "queued"
           THEN run'[r].status = "completed" ELSE run'[r] = run[r]
  BY <1>2, <1>3, Members DEF Records, Ends, Actors
<1>6. NoneQueued
  BY <1>5 DEF NoneQueued, RunsStay
<1>7. Alone' /\ SnapsCurrent'
  <2>1. Free(a)
    BY <1>1, Freed DEF SerialInv, Recording, Transaction
  <2>. QED
    BY <1>5, <2>1, CurrentKept DEF SerialInv, Recording, Transaction
<1>8. DoneRunIsClosed'
  <2>1. ASSUME NEW q \in Runs, run'[q].status = "queued"
        PROVE  \E m \in Rules : exec'[q][m].status # "none" /\ exec'[q][m].status \notin Terminal
    <3>1. CASE q = r
      <4>1. run[r].status = "queued" /\ ~AllDone(exec[r], k, s)
        BY <1>5, <2>1, <3>1
      <4>2. CASE s \notin Terminal
        BY <1>2, <1>4, <3>1, <4>2
      <4>3. CASE s \in Terminal
        <5>1. PICK m \in Rules \ {k} : exec[r][m].status \notin Terminal \cup {"none"}
          BY <4>1, <4>3 DEF AllDone
        <5>. QED
          BY <1>4, <3>1, <5>1
      <4>. QED
        BY <4>2, <4>3
    <3>2. CASE q # r
      <4>1. PICK m \in Rules : exec[q][m].status # "none" /\ exec[q][m].status \notin Terminal
        BY <1>5, <2>1, <3>2 DEF SerialInv, DoneRunIsClosed, InRun
      <4>. QED
        BY <1>4, <3>2, <4>1
    <3>. QED
      BY <3>1, <3>2
  <2>. QED
    BY <2>1 DEF DoneRunIsClosed, InRun
<1>. QED
  BY <1>7, <1>8 DEF SerialInv

LEMMA SerialWorked ==
  ASSUME SerialStore, TypeInv, SerialInv, NEW c \in Workers, WorkerStep(c) \/ BodyBreaks(c)
  PROVE  SerialInv'
<1>. c \in Actors
  BY Members
<1>1. CASE WriteRecord(c)
  BY <1>1, SerialRecorded
<1>2. CASE BeginNext(c)
  <2>1. PICK k \in todo[c] : Opens(c, at[c], k, "recording")
    BY <1>2, BeginNextEffect
  <2>2. Only(c) /\ Isolated(c) /\ UNCHANGED runVars /\ snap'[c].execs = exec'[at'[c]]
    BY <2>1 DEF Opens, runVars
  <2>3. NoneQueued /\ exec' = exec /\ Free(c)
    BY <2>2, Freed DEF NoneQueued, runVars
  <2>4. pc'[c] = "recording"
    BY <2>1 DEF Opens
  <2>. QED
    BY <2>2, <2>3, <2>4, SerialMoves
<1>3. CASE CompleteRun(c)
  <2>1. /\ exec' = exec /\ Turns(c, "finish") /\ RunsStay
        /\ run'[at[c]].status \in {"failed", "succeeded"}
        /\ \A q \in Runs \ {at[c]} : run'[q] = run[q]
    BY <1>3, CompleteRunEffect
  <2>2. NoneQueued
    BY <2>1 DEF NoneQueued, RunsStay
  <2>. QED
    BY <2>1, <2>2, SerialQuits DEF Turns, Transaction
<1>4. ASSUME NEW r \in Runs,
             Takes(c, r) \/ ListPending(c) \/ FinishJob(c) \/ FailJob(c) \/ Requeue(c) \/ BodyBreaks(c)
      PROVE  SerialInv'
  <2>1. run' = run /\ exec' = exec
    BY <1>4, TakesEffect, ListPendingEffect, FinishJobEffect, FailJobEffect, RequeueEffect,
       BodyBreaksEffect DEF runVars
  <2>2. Only(c) /\ pc'[c] \in {"claimed", "next", "idle", "requeue", "failjob"}
    BY <1>4, TakesEffect, ListPendingEffect, FinishJobEffect, FailJobEffect, RequeueEffect,
       BodyBreaksEffect DEF Turns, Ends
  <2>. QED
    BY <2>1, <2>2, SerialQuits DEF NoneQueued, Transaction
<1>5. CASE ListPending(c) \/ FinishJob(c) \/ FailJob(c) \/ Requeue(c) \/ BodyBreaks(c)
  <2>1. at[c] \in Runs
    <3>1. pc[c] \notin {"idle"} \cup Naming
      BY <1>5 DEF ListPending, FinishJob, FailJob, Requeue, BodyBreaks, Naming
    <3>. QED
      BY <3>1, OnItsRun DEF OnRun
  <2>. QED
    BY <1>4, <1>5, <2>1
<1>6. CASE Refuse(c) \/ FailRefused(c)
  <2>1. run' = run /\ exec' = exec
    BY <1>6, RefuseEffect, FailRefusedEffect
  <2>2. Only(c) /\ pc'[c] \in {"idle", "refused"}
    BY <1>6, RefuseEffect, FailRefusedEffect DEF Turns, Ends
  <2>. QED
    BY <2>1, <2>2, SerialQuits DEF NoneQueued, Transaction
<1>. QED
  BY <1>1, <1>2, <1>3, <1>4, <1>5, <1>6 DEF WorkerStep, WorkerProgress, Takes

LEMMA SerialStep ==
  ASSUME SerialStore
  PROVE  TypeInv /\ SerialInv /\ [Next]_vars => SerialInv'
<1>. SUFFICES ASSUME TypeInv, SerialInv, [Next]_vars PROVE SerialInv'
  OBVIOUS
<1>1. ASSUME NEW h \in Handlers, RequestStep(h) PROVE SerialInv'
  BY <1>1, SerialServed, SerialBegun DEF RequestStep
<1>2. ASSUME NEW h \in Handlers, HandlerProgress(h) PROVE SerialInv'
  <2>1. CASE WritePublish(h)
    BY <2>1, WritePublishEffect, Members, SerialQuits DEF runVars, Ends, NoneQueued, Transaction
  <2>. QED
    BY <1>2, <2>1, SerialCreated, SerialRecorded, Members DEF HandlerProgress
<1>3. ASSUME NEW c \in Workers, WorkerStep(c) PROVE SerialInv'
  BY <1>3, SerialWorked
<1>4. CASE FaultStep
  <2>1. ASSUME NEW a \in Actors, Crash(a) PROVE SerialInv'
    BY <2>1, CrashEffect, SerialQuits DEF runVars, Ends, NoneQueued, Transaction
  <2>. QED
    BY <1>4, <2>1, SerialWorked DEF FaultStep
<1>5. CASE UNCHANGED vars
  BY <1>5 DEF vars, SerialInv, Alone, SnapsCurrent, DoneRunIsClosed, InRun
<1>. QED
  BY <1>1, <1>2, <1>3, <1>4, <1>5, WorkerSteps DEF Next

LEMMA SerialHolds ==
  ASSUME SerialStore
  PROVE  Spec => [](TypeInv /\ SerialInv)
<1>1. Init => TypeInv /\ SerialInv
  BY InitTypes, InitSerial
<1>2. TypeInv /\ SerialInv /\ [Next]_vars => (TypeInv /\ SerialInv)'
  BY StepTypes, SerialStep
<1>. QED
  BY <1>1, <1>2, PTL DEF Spec

\* Whoever records the last answer of a run closes it, so that start_audit
\* does not find it queued for ever.
THEOREM DoneRunClosedHolds ==
  ASSUME SerialStore
  PROVE  Spec => []DoneRunIsClosed
<1>1. SerialInv => DoneRunIsClosed
  BY DEF SerialInv
<1>. QED
  BY <1>1, SerialHolds, PTL

-----------------------------------------------------------------------------
(* Who is to go on with an audit that is not over, on either isolation.    *)

AuditingInv ==
  /\ \A d \in Rounds : round[d] = "auditing" => \E r \in Runs : OpenAudit(r) /\ run[r].round = d
  /\ task.status = "auditing" => \E r \in Runs : OpenAudit(r)

\* A worker that finishes its job has completed the run, and none fails.
MindedInv ==
  /\ faults = 0 => \A r \in Runs :
       OpenAudit(r) => job[r] \in Waits \/ \E c \in Workers : Minds(c, r)
  /\ \A c \in Workers : pc[c] = "finish" => run[at[c]].status # "queued"
  /\ \A c \in Workers : pc[c] = "refused" => run[at[c]].kind = "local"
  /\ faults = 0 => \A c \in Workers : pc[c] \notin {"failjob", "requeue"}

LEMMA ForgottenParts == AuditingInv /\ MindedInv => AuditNotForgotten
  BY DEF AuditingInv, MindedInv, AuditNotForgotten, RunsOf

LEMMA InitMinded == Init => AuditingInv /\ MindedInv
<1>. SUFFICES ASSUME Init PROVE AuditingInv /\ MindedInv
  OBVIOUS
<1>1. \A r \in Runs : run[r].status = "none"
  BY DEF Init, NoRunRow
<1>2. \A c \in Workers : pc[c] = "idle"
  BY Members DEF Init
<1>3. task.status = "draft" /\ \A d \in Rounds : round[d] # "auditing"
  BY DEF Init
<1>. QED
  BY <1>1, <1>2, <1>3 DEF AuditingInv, MindedInv, OpenAudit

\* An open audit that closes takes "auditing" from its round and from the task;
\* and who writes "auditing" has opened one.
LEMMA AuditingKept ==
  ASSUME AuditingInv,
         \A r \in Runs : OpenAudit(r) =>
           \/ OpenAudit(r)' /\ run'[r].round = run[r].round
           \/ round'[run[r].round] # "auditing" /\ task'.status # "auditing",
         \A d \in Rounds : round'[d] = "auditing" =>
           round[d] = "auditing" \/ \E r \in Runs : OpenAudit(r)' /\ run'[r].round = d,
         task'.status = "auditing" =>
           task.status = "auditing" \/ \E r \in Runs : OpenAudit(r)'
  PROVE  AuditingInv'
<1>1. ASSUME NEW d \in Rounds, round'[d] = "auditing", round[d] = "auditing"
      PROVE  \E r \in Runs : OpenAudit(r)' /\ run'[r].round = d
  <2>1. PICK r \in Runs : OpenAudit(r) /\ run[r].round = d
    BY <1>1 DEF AuditingInv
  <2>. QED
    BY <1>1, <2>1
<1>2. ASSUME task'.status = "auditing", task.status = "auditing"
      PROVE  \E r \in Runs : OpenAudit(r)'
  BY <1>2 DEF AuditingInv
<1>3. \A d \in Rounds : round'[d] = "auditing" => \E r \in Runs : OpenAudit(r)' /\ run'[r].round = d
  BY <1>1
<1>4. task'.status = "auditing" => \E r \in Runs : OpenAudit(r)'
  BY <1>2
<1>. QED
  BY <1>3, <1>4 DEF AuditingInv

\* The runs stay, and nobody writes "auditing".
LEMMA AuditingStays ==
  ASSUME AuditingInv, run' = run,
         \A d \in Rounds : round'[d] = "auditing" => round[d] = "auditing",
         task'.status = "auditing" => task.status = "auditing"
  PROVE  AuditingInv'
<1>1. \A r \in Runs : OpenAudit(r) => OpenAudit(r)' /\ run'[r].round = run[r].round
  BY DEF OpenAudit
<1>. QED
  BY <1>1, AuditingKept

LEMMA AuditingHandled ==
  ASSUME TypeInv, AuditingInv, NEW h \in Handlers, RequestStep(h) \/ WritePublish(h)
  PROVE  AuditingInv'
<1>1. ASSUME UNCHANGED <<round, task, run>> PROVE AuditingInv'
  BY <1>1, AuditingStays
<1>2. CASE CreateRound(h)
  <2>1. run' = run /\ task'.status = "in_new_round"
    BY <1>2 DEF CreateRound, runVars
  <2>2. \A d \in Rounds : round'[d] = "auditing" => round[d] = "auditing"
    BY <1>2 DEF CreateRound, TypeInv, RoundsTyped
  <2>. QED
    BY <2>1, <2>2, AuditingStays
<1>3. CASE WritePublish(h)
  <2>1. run' = run /\ task'.status = "completed"
    BY <1>3 DEF WritePublish, runVars, TypeInv, RoundsTyped
  <2>2. \A d \in Rounds : round'[d] = "auditing" => round[d] = "auditing"
    BY <1>3 DEF WritePublish, TypeInv, RoundsTyped
  <2>. QED
    BY <2>1, <2>2, AuditingStays
<1>4. ASSUME NEW d \in Rounds, BeginStart(h, d) \/ BeginRerun(h, d) \/ BeginPublish(h, d)
      PROVE  AuditingInv'
  BY <1>1, <1>4 DEF BeginStart, BeginRerun, BeginPublish, roundVars, runVars
<1>5. CASE BeginByHand(h)
  BY <1>1, <1>5 DEF BeginByHand, BeginRecord, roundVars, runVars
<1>6. CASE RetryExecution(h) \/ CancelJob(h) \/ RetryJob(h) \/ DecideIssue(h) \/ CreateReport(h)
  BY <1>1, <1>6 DEF RetryExecution, CancelJob, RetryJob, DecideIssue, CreateReport, roundVars, runVars
<1>. QED
  BY <1>2, <1>3, <1>4, <1>5, <1>6 DEF RequestStep

LEMMA AuditingCreated ==
  ASSUME TypeInv, AuditingInv, NEW h \in Handlers, WriteStart(h) \/ WriteRerun(h)
  PROVE  AuditingInv'
<1>1. PICK r \in Runs, kind \in {"audit", "local"}, K \in SUBSET Rules :
        Creates(h, r, kind, K) /\ (WriteStart(h) => kind = "audit")
  BY WriteStartEffect, WriteRerunEffect
<1>2. run[r].status = "none" /\ where[h] \in Rounds
  BY <1>1 DEF Creates, TypeInv, RunsFilled, NoRunRow
<1>3. \A q \in Runs : OpenAudit(q) => OpenAudit(q)' /\ run'[q].round = run[q].round
  BY <1>1, <1>2 DEF Creates, OpenAudit
<1>4. CASE WriteStart(h)
  <2>1. OpenAudit(r)' /\ run'[r].round = where[h]
    BY <1>1, <1>4 DEF Creates, OpenAudit
  <2>2. \A d \in Rounds \ {where[h]} : round'[d] = round[d]
    BY <1>4 DEF WriteStart, TypeInv, RoundsTyped
  <2>. QED
    BY <1>3, <2>1, <2>2, AuditingKept
<1>5. CASE WriteRerun(h)
  BY <1>3, <1>5, WriteRerunEffect, AuditingKept DEF roundVars
<1>. QED
  BY <1>4, <1>5

\* The status of a run, its round and the task, written together.
LEMMA AuditingClosed ==
  ASSUME TypeInv, AuditingInv, NEW r \in Runs, NEW s, s # "auditing",
         \A q \in Runs \ {r} : run'[q] = run[q],
         round' = [round EXCEPT ![run[r].round] = s],
         task' = [task EXCEPT !.status = s],
         Made(r)
  PROVE  AuditingInv'
<1>1. run[r].round \in Rounds
  BY DEF TypeInv, RunsFilled
<1>2. round'[run[r].round] = s /\ task'.status = s
  BY <1>1 DEF TypeInv, RoundsTyped
<1>3. \A d \in Rounds : round'[d] = "auditing" => round[d] = "auditing"
  BY <1>1 DEF TypeInv, RoundsTyped
<1>4. \A q \in Runs \ {r} : OpenAudit(q) => OpenAudit(q)' /\ run'[q].round = run[q].round
  BY DEF OpenAudit
<1>. QED
  BY <1>2, <1>3, <1>4, AuditingKept

LEMMA AuditingRecorded ==
  ASSUME TypeInv, AuditingInv, NEW a \in Actors, WriteRecord(a)
  PROVE  AuditingInv'
<1>1. PICK r \in Runs : r = at[a] /\ Made(r)
  <2>1. pc[a] \in Recording
    BY WriteRecordEffect
  <2>. QED
    BY <2>1 DEF TypeInv, Working, OnRun, Recording, Naming
<1>2. \/ UNCHANGED <<run, round, task>>
      \/ /\ run' = [run EXCEPT ![r].status = "completed"]
         /\ round' = [round EXCEPT ![run[r].round] = "awaiting_review"]
         /\ task' = [task EXCEPT !.status = "awaiting_review"]
  BY <1>1 DEF WriteRecord
<1>3. CASE UNCHANGED <<run, round, task>>
  BY <1>3, AuditingStays
<1>4. CASE /\ run' = [run EXCEPT ![r].status = "completed"]
           /\ round' = [round EXCEPT ![run[r].round] = "awaiting_review"]
           /\ task' = [task EXCEPT !.status = "awaiting_review"]
  <2>1. \A q \in Runs \ {r} : run'[q] = run[q]
    BY <1>4 DEF TypeInv, RunsTyped
  <2>. QED
    BY <1>1, <1>4, <2>1, AuditingClosed
<1>. QED
  BY <1>2, <1>3, <1>4

LEMMA AuditingWorked ==
  ASSUME TypeInv, AuditingInv, NEW c \in Workers, WorkerStep(c)
  PROVE  AuditingInv'
<1>. c \in Actors
  BY Members
<1>1. CASE WriteRecord(c)
  BY <1>1, AuditingRecorded
<1>2. CASE CompleteRun(c)
  <2>1. PICK r \in Runs : r = at[c] /\ Made(r)
    BY <1>2, CompleteRunEffect DEF TypeInv, Working, OnRun, Naming
  <2>2. \A q \in Runs \ {r} : run'[q] = run[q]
    BY <1>2, <2>1, CompleteRunEffect
  <2>3. /\ round' = [round EXCEPT ![run[r].round] = "waiting_review"]
        /\ task' = [task EXCEPT !.status = "waiting_review"]
    BY <1>2, <2>1 DEF CompleteRun
  <2>. QED
    BY <2>1, <2>2, <2>3, AuditingClosed
<1>3. ASSUME UNCHANGED <<round, task, run>> PROVE AuditingInv'
  BY <1>3, AuditingStays
<1>4. ASSUME NEW r \in Runs, Takes(c, r) PROVE AuditingInv'
  BY <1>3, <1>4, TakesEffect DEF roundVars, runVars
<1>5. CASE ListPending(c) \/ Refuse(c) \/ FailRefused(c) \/ FinishJob(c) \/ FailJob(c) \/ Requeue(c)
  BY <1>3, <1>5 DEF ListPending, Refuse, FailRefused, FinishJob, FailJob, Requeue, roundVars
<1>6. CASE BeginNext(c)
  BY <1>3, <1>6 DEF BeginNext, BeginRecord, roundVars, runVars
<1>. QED
  BY <1>1, <1>2, <1>4, <1>5, <1>6 DEF WorkerStep, WorkerProgress, Takes

LEMMA AuditingStep == TypeInv /\ AuditingInv /\ [Next]_vars => AuditingInv'
<1>. SUFFICES ASSUME TypeInv, AuditingInv, [Next]_vars PROVE AuditingInv'
  OBVIOUS
<1>1. ASSUME NEW h \in Handlers, RequestStep(h) \/ HandlerProgress(h) PROVE AuditingInv'
  BY <1>1, AuditingHandled, AuditingCreated, AuditingRecorded, Members DEF HandlerProgress
<1>2. ASSUME NEW c \in Workers, WorkerStep(c) PROVE AuditingInv'
  BY <1>2, AuditingWorked
<1>3. CASE FaultStep
  <2>1. UNCHANGED <<round, task, run>>
    BY <1>3 DEF FaultStep, BodyBreaks, Crash, roundVars, runVars
  <2>. QED
    BY <2>1, AuditingStays
<1>4. CASE UNCHANGED vars
  BY <1>4, AuditingStays DEF vars
<1>. QED
  BY <1>1, <1>2, <1>3, <1>4, WorkerSteps DEF Next

\* A run stays of its kind, and none is queued again.
RunsGoOn ==
  \A r \in Runs : Made(r) =>
    run'[r].kind = run[r].kind /\ (run'[r].status = "queued" => run[r].status = "queued")

\* A step of one actor: each audit that is open after it was created by it, or was
\* open before; its job keeps its status, or waits, or the actor minds it.
LEMMA MindedKept ==
  ASSUME TypeInv, MindedInv, NEW a \in Actors, Only(a), faults' = 0 => faults = 0,
         RunsGoOn,
         faults' = 0 => \A r \in Runs : OpenAudit(r)' =>
           \/ job'[r] \in Waits
           \/ a \in Workers /\ Minds(a, r)'
           \/ /\ OpenAudit(r) /\ job'[r] = job[r]
              /\ a \in Workers /\ pc[a] \in {"claimed", "next", "recording"} => at[a] # r,
         a \in Workers /\ pc'[a] = "finish" => run'[at'[a]].status # "queued",
         a \in Workers /\ pc'[a] = "refused" => run'[at'[a]].kind = "local",
         faults' = 0 /\ a \in Workers => pc'[a] \notin {"failjob", "requeue"}
  PROVE  MindedInv'
<1>1. \A c \in Workers : c # a => pc'[c] = pc[c] /\ at'[c] = at[c]
  BY Members DEF Only
<1>2. ASSUME faults' = 0, NEW r \in Runs, OpenAudit(r)'
      PROVE  job'[r] \in Waits \/ \E c \in Workers : Minds(c, r)'
  <2>1. CASE OpenAudit(r) /\ job'[r] = job[r]
             /\ (a \in Workers /\ pc[a] \in {"claimed", "next", "recording"} => at[a] # r)
    <3>1. job[r] \in Waits \/ \E c \in Workers : Minds(c, r)
      BY <1>2, <2>1 DEF MindedInv
    <3>2. ASSUME NEW c \in Workers, Minds(c, r) PROVE Minds(c, r)'
      BY <1>1, <2>1, <3>2 DEF Minds
    <3>. QED
      BY <2>1, <3>1, <3>2
  <2>. QED
    BY <1>2, <2>1
<1>3. ASSUME NEW c \in Workers, pc'[c] = "finish" PROVE run'[at'[c]].status # "queued"
  <2>1. CASE c # a
    <3>1. c \in Actors /\ pc[c] = "finish" /\ at'[c] = at[c]
      BY <1>1, <1>3, <2>1, Members
    <3>2. at[c] \in Runs /\ Made(at[c]) /\ run[at[c]].status # "queued"
      BY <3>1 DEF TypeInv, Working, OnRun, Naming, MindedInv
    <3>. QED
      BY <3>1, <3>2 DEF RunsGoOn
  <2>. QED
    BY <1>3, <2>1
<1>4. ASSUME faults' = 0, NEW c \in Workers PROVE pc'[c] \notin {"failjob", "requeue"}
  BY <1>1, <1>4 DEF MindedInv
<1>5. ASSUME NEW c \in Workers, pc'[c] = "refused" PROVE run'[at'[c]].kind = "local"
  <2>1. CASE c # a
    <3>1. c \in Actors /\ pc[c] = "refused" /\ at'[c] = at[c]
      BY <1>1, <1>5, <2>1, Members
    <3>2. at[c] \in Runs /\ Made(at[c]) /\ run[at[c]].kind = "local"
      BY <3>1 DEF TypeInv, Working, OnRun, Naming, MindedInv
    <3>. QED
      BY <3>1, <3>2 DEF RunsGoOn
  <2>. QED
    BY <1>5, <2>1
<1>. QED
  BY <1>2, <1>3, <1>4, <1>5 DEF MindedInv

\* An API thread leaves the jobs alone, or lets one wait.
LEMMA MindedHandled ==
  ASSUME TypeInv, MindedInv, NEW h \in Handlers, Only(h), faults' = faults,
         \A r \in Runs : OpenAudit(r)' =>
           job'[r] \in Waits \/ (OpenAudit(r) /\ job'[r] = job[r]),
         RunsGoOn
  PROVE  MindedInv'
<1>1. h \in Actors /\ h \notin Workers
  BY Members
<1>. QED
  BY <1>1, MindedKept

LEMMA MindedRequest ==
  ASSUME TypeInv, MindedInv, NEW h \in Handlers, RequestStep(h)
  PROVE  MindedInv'
<1>1. faults' = faults
  <2>1. \E kind \in RequestKinds : Request(h, kind)
    BY DEF RequestStep, BeginStart, BeginRerun, BeginPublish, BeginByHand, RetryExecution, CancelJob,
           RetryJob, DecideIssue, CreateReport, CreateRound, RequestKinds
  <2>. QED
    BY <2>1 DEF Request
<1>2. ASSUME NEW d \in Rounds, BeginStart(h, d) \/ BeginRerun(h, d) \/ BeginPublish(h, d)
      PROVE  MindedInv'
  BY <1>1, <1>2, BeginStartEffect, BeginRerunEffect, BeginPublishEffect, MindedHandled
     DEF Asks, runVars, OpenAudit, RunsGoOn
<1>3. CASE BeginByHand(h)
  BY <1>1, <1>3, BeginByHandEffect, MindedHandled DEF Opens, runVars, OpenAudit, RunsGoOn
<1>4. ASSUME Serves(h), run' = run, \A r \in Runs : job'[r] \in Waits \/ job'[r] = job[r]
      PROVE  MindedInv'
  <2>1. Only(h)
    BY <1>4 DEF Serves, actorVars, Only
  <2>2. \A r \in Runs : OpenAudit(r)' =>
          job'[r] \in Waits \/ (OpenAudit(r) /\ job'[r] = job[r])
    BY <1>4 DEF OpenAudit
  <2>3. RunsGoOn
    BY <1>4 DEF RunsGoOn
  <2>. QED
    BY <1>1, <2>1, <2>2, <2>3, MindedHandled
<1>5. CASE CancelJob(h) \/ RetryJob(h)
  <2>1. PICK r \in Runs : job' = [job EXCEPT ![r] = "canceled"] \/ job' = [job EXCEPT ![r] = "queued"]
    BY <1>5, JobRequestEffect
  <2>2. \A q \in Runs : job'[q] \in Waits \/ job'[q] = job[q]
    BY <2>1 DEF TypeInv, RunsTyped, Waits
  <2>. QED
    BY <1>4, <1>5, <2>2, JobRequestEffect
<1>6. CASE RetryExecution(h) \/ DecideIssue(h) \/ CreateReport(h) \/ CreateRound(h)
  BY <1>4, <1>6, RetryExecutionEffect, DecideIssueEffect, ReportOrRoundEffect DEF runVars
<1>. QED
  BY <1>2, <1>3, <1>5, <1>6 DEF RequestStep

\* A recorded result closes a run or leaves it; a worker stays with its own.
LEMMA MindedRecorded ==
  ASSUME TypeInv, MindedInv, NEW a \in Actors, WriteRecord(a)
  PROVE  MindedInv'
<1>1. PICK s, others : Records(a, s, others)
  BY WriteRecordEffect
<1>2. faults' = faults /\ at[a] \in Runs
  BY WriteRecordEffect DEF WriteRecord, limitVars
<1>3. /\ job' = job
      /\ RunsGoOn
  BY <1>1, <1>2 DEF Records, RunsStay, RunsGoOn
<1>6. \A r \in Runs : OpenAudit(r)' => OpenAudit(r)
  <2>. SUFFICES ASSUME NEW r \in Runs, OpenAudit(r)' PROVE OpenAudit(r)
    OBVIOUS
  <2>1. Made(r)
    BY <1>1, <1>2, WriteRecordEffect, OnItsRun DEF Records, OpenAudit, Made, OnRun, Recording, Naming
  <2>. QED
    BY <1>3, <2>1 DEF RunsGoOn, OpenAudit
<1>4. CASE a \in Handlers
  BY <1>1, <1>2, <1>3, <1>4, <1>6, MindedHandled DEF Records, Ends
<1>5. CASE a \in Workers
  <2>1. Only(a) /\ pc'[a] = "next" /\ at'[a] = at[a]
    BY <1>1, <1>5 DEF Records
  <2>2. Minds(a, at[a])'
    BY <2>1 DEF Minds
  <2>. QED
    BY <1>2, <1>3, <1>5, <1>6, <2>1, <2>2, MindedKept DEF Minds
<1>. QED
  BY <1>4, <1>5 DEF Actors

LEMMA MindedHandler ==
  ASSUME TypeInv, MindedInv, NEW h \in Handlers, HandlerProgress(h)
  PROVE  MindedInv'
<1>1. CASE WriteStart(h) \/ WriteRerun(h)
  <2>1. PICK r \in Runs, kind \in {"audit", "local"}, K \in SUBSET Rules : Creates(h, r, kind, K)
    BY <1>1, WriteStartEffect, WriteRerunEffect
  <2>2. faults' = faults /\ Only(h) /\ ~Made(r)
    BY <1>1, <2>1 DEF WriteStart, WriteRerun, limitVars, Creates, Ends
  <2>3. job'[r] = "queued" /\ \A q \in Runs \ {r} : job'[q] = job[q] /\ run'[q] = run[q]
    BY <2>1 DEF Creates, TypeInv, RunsTyped
  <2>4. \A q \in Runs : OpenAudit(q)' =>
          job'[q] \in Waits \/ (OpenAudit(q) /\ job'[q] = job[q])
    BY <2>3 DEF Waits, OpenAudit
  <2>5. RunsGoOn
    BY <2>2, <2>3 DEF RunsGoOn
  <2>. QED
    BY <2>2, <2>4, <2>5, MindedHandled
<1>2. CASE WritePublish(h)
  BY <1>2, WritePublishEffect, MindedHandled
     DEF WritePublish, limitVars, runVars, Ends, OpenAudit, RunsGoOn
<1>. QED
  BY <1>1, <1>2, MindedRecorded, Members DEF HandlerProgress

LEMMA MindedWorked ==
  ASSUME TypeInv, MindedInv, NEW c \in Workers, WorkerStep(c)
  PROVE  MindedInv'
<1>. c \in Actors
  BY Members
<1>1. ASSUME NEW r \in Runs, Takes(c, r) PROVE MindedInv'
  BY <1>1, TakesEffect, MindedKept DEF runVars, OpenAudit, RunsGoOn
<1>2. CASE ListPending(c)
  <2>1. /\ faults' = faults /\ run' = run /\ Only(c) /\ pc[c] = "claimed"
        /\ pc'[c] = "next" /\ at'[c] = at[c] /\ job' = [job EXCEPT ![at[c]] = "running"]
    BY <1>2, ListPendingEffect DEF ListPending, limitVars
  <2>2. \A r \in Runs \ {at[c]} : job'[r] = job[r]
    BY <2>1 DEF TypeInv, RunsTyped
  <2>3. Minds(c, at[c])'
    BY <2>1 DEF Minds
  <2>. QED
    BY <2>1, <2>2, <2>3, MindedKept DEF Minds, OpenAudit, RunsGoOn
<1>3. CASE BeginNext(c)
  <2>1. /\ faults' = faults /\ run' = run /\ job' = job /\ Only(c)
        /\ pc'[c] = "recording" /\ at'[c] = at[c]
    BY <1>3, BeginNextEffect DEF BeginNext, limitVars, Opens, runVars
  <2>2. Minds(c, at[c])'
    BY <2>1 DEF Minds
  <2>. QED
    BY <2>1, <2>2, MindedKept DEF Minds, OpenAudit, RunsGoOn
<1>4. CASE CompleteRun(c)
  <2>1. job' = job /\ Only(c) /\ pc'[c] = "finish" /\ at'[c] = at[c]
    BY <1>4, CompleteRunEffect DEF Turns
  <2>2. /\ run'[at[c]].status # "queued" /\ run'[at[c]].kind = run[at[c]].kind
        /\ \A q \in Runs \ {at[c]} : run'[q] = run[q]
    BY <1>4, CompleteRunEffect, OnItsRun DEF RunsStay, OnRun, Naming
  <2>3. faults' = faults
    BY <1>4 DEF CompleteRun, limitVars
  <2>. QED
    BY <2>1, <2>2, <2>3, MindedKept DEF OpenAudit, RunsGoOn
<1>5. CASE FinishJob(c)
  <2>1. /\ faults' = faults /\ run' = run /\ Only(c) /\ pc[c] = "finish" /\ pc'[c] = "idle"
    BY <1>5, FinishJobEffect DEF FinishJob, limitVars, Ends
  <2>2. run[at[c]].status # "queued"
    BY <2>1 DEF MindedInv
  <2>3. \A r \in Runs \ {at[c]} : job'[r] = job[r]
    BY <1>5, FinishJobEffect DEF TypeInv, RunsTyped
  <2>. QED
    BY <2>1, <2>2, <2>3, MindedKept DEF OpenAudit, RunsGoOn
<1>6. CASE FailJob(c) \/ Requeue(c)
  <2>1. faults' = faults /\ run' = run /\ Only(c) /\ pc[c] \in {"failjob", "requeue"}
    BY <1>6, FailJobEffect, RequeueEffect DEF FailJob, Requeue, limitVars, Ends, Turns
  <2>2. faults # 0
    BY <2>1 DEF MindedInv
  <2>3. pc'[c] \notin {"finish", "refused"}
    BY <1>6, FailJobEffect, RequeueEffect DEF Ends, Turns
  <2>. QED
    BY <2>1, <2>2, <2>3, MindedKept DEF RunsGoOn
<1>7. CASE Refuse(c) \/ FailRefused(c)
  <2>1. /\ faults' = faults /\ run' = run /\ Only(c)
        /\ pc'[c] = "idle" \/ (pc'[c] = "refused" /\ at'[c] = at[c])
    BY <1>7, RefuseEffect, FailRefusedEffect DEF Refuse, FailRefused, limitVars, Ends, Turns
  <2>2. run[at[c]].kind = "local"
    BY <1>7 DEF Refuse, FailRefused, MindedInv
  <2>3. \A r \in Runs \ {at[c]} : job'[r] = job[r]
    BY <1>7, RefuseEffect, FailRefusedEffect DEF TypeInv, RunsTyped
  <2>. QED
    BY <2>1, <2>2, <2>3, MindedKept DEF OpenAudit, RunsGoOn
<1>. QED
  BY <1>1, <1>2, <1>3, <1>4, <1>5, <1>6, <1>7, MindedRecorded DEF WorkerStep, WorkerProgress, Takes

LEMMA MindedFault ==
  ASSUME TypeInv, MindedInv, FaultStep
  PROVE  MindedInv'
<1>1. faults' # 0
  <2>1. Fault
    BY DEF FaultStep, BodyBreaks, Crash
  <2>. QED
    BY <2>1 DEF Fault, TypeInv, LimitsTyped
<1>2. run' = run
  BY DEF FaultStep, BodyBreaks, Crash, runVars
<1>3. PICK a \in Actors : Only(a) /\ pc'[a] \in {"idle", "failjob"}
  BY BodyBreaksEffect, CrashEffect, Members DEF FaultStep, Turns, Ends
<1>. QED
  BY <1>1, <1>2, <1>3, MindedKept DEF RunsGoOn

LEMMA MindedStep == TypeInv /\ MindedInv /\ [Next]_vars => MindedInv'
<1>. SUFFICES ASSUME TypeInv, MindedInv, [Next]_vars PROVE MindedInv'
  OBVIOUS
<1>1. CASE UNCHANGED vars
  BY <1>1 DEF vars, MindedInv, Minds, OpenAudit
<1>. QED
  BY <1>1, MindedRequest, MindedHandler, MindedWorked, MindedFault, WorkerSteps DEF Next

\* Whatever is requested, rerun, reported, canceled and run again, on either
\* isolation: a round or a task that says "auditing" has an audit run that is
\* not over; and as long as nothing failed or crashed, the job of every
\* audit that is not over is queued, or somebody canceled it, or a worker holds
\* it and has yet to complete the run.
THEOREM AuditNotForgottenHolds == Spec => []AuditNotForgotten
<1>1. Init => TypeInv /\ AuditingInv /\ MindedInv
  BY InitTypes, InitMinded
<1>2. TypeInv /\ AuditingInv /\ MindedInv /\ [Next]_vars => (TypeInv /\ AuditingInv /\ MindedInv)'
  BY StepTypes, AuditingStep, MindedStep
<1>3. AuditingInv /\ MindedInv => AuditNotForgotten
  BY ForgottenParts
<1>. QED
  BY <1>1, <1>2, <1>3, PTL DEF Spec
=============================================================================
