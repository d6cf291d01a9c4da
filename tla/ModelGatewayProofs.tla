------------------------- MODULE ModelGatewayProofs --------------------------
(***************************************************************************)
(* Proofs about ModelGateway, for any number of threads, any limit, number *)
(* of attempts, threshold and recovery window.                             *)
(*                                                                         *)
(* PermitsConserved is inductive together with the type invariant: the     *)
(* type of permits needs the count of the holders, and the count needs to  *)
(* know that nobody holds a permit before the semaphore exists, which is   *)
(* the count itself with size = 0.  A count of the steps a call has left   *)
(* says why calls end.                                                     *)
(***************************************************************************)
EXTENDS ModelGateway, FiniteSetTheorems, TLAPS

IInv == TypeOK /\ PermitsConserved

\* The holders are finitely many.
LEMMA HoldersFinite == IsFiniteSet(Holders) /\ Cardinality(Holders) \in Nat
<1>1. Holders \subseteq Callers
  BY DEF Holders
<1>2. IsFiniteSet(Holders)
  BY <1>1, GatewayAssumption, FS_Subset
<1>. QED
  BY <1>2, FS_CardinalityType

\* A thread that gets a permit is one more holder.
LEMMA OneMore ==
  ASSUME NEW c \in Callers, TypeOK, pc[c] = "waiting", pc' = [pc EXCEPT ![c] = "check"]
  PROVE  Cardinality(Holders') = Cardinality(Holders) + 1
<1>1. Holders' = Holders \cup {c} /\ c \notin Holders
  BY DEF Holders, TypeOK
<1>. QED
  BY <1>1, HoldersFinite, FS_AddElement

\* A thread that gives its permit back is one less, and there was one.
LEMMA OneLess ==
  ASSUME NEW c \in Callers, TypeOK, pc[c] = "leaving", pc' = [pc EXCEPT ![c] = "idle"]
  PROVE  Cardinality(Holders') = Cardinality(Holders) - 1 /\ Cardinality(Holders) > 0
<1>1. Holders' = Holders \ {c} /\ c \in Holders
  BY DEF Holders, TypeOK
<1>2. Cardinality(Holders') = Cardinality(Holders) - 1
  BY <1>1, HoldersFinite, FS_RemoveElement
<1>3. Cardinality(Holders) # 0
  BY <1>1, HoldersFinite, FS_EmptySet
<1>. QED
  BY <1>2, <1>3, HoldersFinite

\* Elsewhere a thread moves without entering or leaving the holders.
LEMMA SameHolders ==
  ASSUME TypeOK,
         NEW c \in Callers, NEW to \in PC, pc' = [pc EXCEPT ![c] = to],
         c \in Holders <=> to \notin {"idle", "configured", "waiting"}
  PROVE  Holders' = Holders
BY DEF Holders, TypeOK

\* A closed circuit is a state of the circuit.
LEMMA ClosedState == Closed \in CircuitState
BY GatewayAssumption DEF Closed, CircuitState

\* The initial states.
LEMMA InitInv == Init => IInv
<1>. SUFFICES ASSUME Init PROVE IInv
  OBVIOUS
<1>1. TypeOK
  BY GatewayAssumption, ClosedState DEF Init, TypeOK, PC, Exits
<1>2. Holders = {}
  BY DEF Init, Holders
<1>3. PermitsConserved
  BY <1>2, FS_EmptySet DEF Init, PermitsConserved
<1>. QED
  BY <1>1, <1>3 DEF IInv

\* The step of a call preserves the invariant.
LEMMA CallInv ==
  ASSUME IInv, NEW c \in Callers, Begin(c) \/ Progress(c)
  PROVE  IInv'
<1>. USE DEF IInv
<1>a. permits \in Int /\ size \in Int /\ Cardinality(Holders) \in Nat
  BY HoldersFinite DEF TypeOK
<1>1. CASE Begin(c)
  <2>1. TypeOK'
    BY <1>1 DEF TypeOK, Begin, Goto, semVars, PC, Exits
  <2>2. Holders' = Holders
    BY <1>1 DEF Begin, Goto, Holders, TypeOK
  <2>. QED
    BY <1>1, <2>1, <2>2 DEF Begin, PermitsConserved, semVars
<1>2. CASE GetSemaphore(c)
  <2>1. Holders' = Holders
    BY <1>2 DEF GetSemaphore, Goto, Holders, TypeOK
  <2>2. TypeOK'
    BY <1>2 DEF TypeOK, GetSemaphore, Goto, callVars, PC
  <2>3. CASE size = 0
    <3>1. Cardinality(Holders) = 0
      BY <1>a, <2>3 DEF PermitsConserved, TypeOK
    <3>. QED
      BY <1>2, <1>a, <2>1, <2>2, <2>3, <3>1 DEF GetSemaphore, PermitsConserved, TypeOK
  <2>4. CASE size # 0
    BY <1>2, <2>1, <2>2, <2>4 DEF GetSemaphore, PermitsConserved
  <2>. QED
    BY <2>3, <2>4
<1>3. CASE Acquire(c)
  <2>1. TypeOK'
    BY <1>3, GatewayAssumption DEF TypeOK, Acquire, Goto, callVars, PC
  <2>2. Cardinality(Holders') = Cardinality(Holders) + 1
    BY <1>3, OneMore DEF Acquire, Goto
  <2>. QED
    BY <1>3, <1>a, <2>1, <2>2 DEF Acquire, PermitsConserved
<1>4. CASE GiveUp(c)
  <2>1. TypeOK'
    BY <1>4 DEF TypeOK, GiveUp, Goto, semVars, PC, Exits
  <2>2. Holders' = Holders
    BY <1>4 DEF GiveUp, Goto, Holders, TypeOK
  <2>. QED
    BY <1>4, <2>1, <2>2 DEF GiveUp, PermitsConserved, semVars
<1>5. CASE Check(c)
  <2>0. circuit' \in CircuitState
    BY <1>5, ClosedState DEF TypeOK, Check
  <2>1. TypeOK'
    BY <1>5, <2>0, GatewayAssumption DEF TypeOK, Check, Goto, semVars, PC
  <2>2. Holders' = Holders
    BY <1>5 DEF Check, Goto, Holders, TypeOK
  <2>. QED
    BY <1>5, <2>1, <2>2 DEF Check, PermitsConserved, semVars
<1>6. CASE Answer(c)
  <2>0. circuit' \in CircuitState
    BY <1>6, ClosedState DEF Answer
  <2>1. TypeOK'
    BY <1>6, <2>0, GatewayAssumption DEF TypeOK, Answer, Goto, semVars, callVars, PC
  <2>2. Holders' = Holders
    BY <1>6 DEF Answer, Goto, Holders, TypeOK
  <2>. QED
    BY <1>6, <2>1, <2>2 DEF Answer, PermitsConserved, semVars
<1>7. CASE Retry(c)
  <2>1. TypeOK'
    BY <1>7, GatewayAssumption DEF TypeOK, Retry, Goto, semVars, PC
  <2>2. Holders' = Holders
    BY <1>7 DEF Retry, Goto, Holders, TypeOK
  <2>. QED
    BY <1>7, <2>1, <2>2 DEF Retry, PermitsConserved, semVars
<1>8. CASE Reject(c)
  <2>1. TypeOK'
    BY <1>8 DEF TypeOK, Reject, Goto, semVars, callVars, PC
  <2>2. Holders' = Holders
    BY <1>8 DEF Reject, Goto, Holders, TypeOK
  <2>. QED
    BY <1>8, <2>1, <2>2 DEF Reject, PermitsConserved, semVars
<1>9. CASE Normalize(c)
  <2>1. TypeOK'
    BY <1>9 DEF TypeOK, Normalize, Goto, Leave, semVars, PC, Exits
  <2>2. Holders' = Holders
    BY <1>9 DEF Normalize, Goto, Leave, Holders, TypeOK
  <2>. QED
    BY <1>9, <2>1, <2>2 DEF Normalize, PermitsConserved, semVars
<1>10. CASE RecordFailure(c)
  <2>0. circuit' \in CircuitState
    BY <1>10, GatewayAssumption DEF TypeOK, RecordFailure, CircuitState
  <2>1. TypeOK'
    BY <1>10, <2>0, GatewayAssumption DEF TypeOK, RecordFailure, Goto, semVars, PC, Exits
  <2>2. Holders' = Holders
    BY <1>10 DEF RecordFailure, Goto, Holders, TypeOK
  <2>. QED
    BY <1>10, <2>1, <2>2 DEF RecordFailure, PermitsConserved, semVars
<1>11. CASE Audit(c)
  <2>1. TypeOK'
    BY <1>11 DEF TypeOK, Audit, Goto, Leave, semVars, PC, Exits
  <2>2. Holders' = Holders
    BY <1>11 DEF Audit, Goto, Leave, Holders, TypeOK
  <2>. QED
    BY <1>11, <2>1, <2>2 DEF Audit, PermitsConserved, semVars
<1>12. CASE Release(c)
  <2>1. Cardinality(Holders') = Cardinality(Holders) - 1 /\ Cardinality(Holders) > 0
    BY <1>12, OneLess DEF Release, Goto
  <2>2. permits + 1 \in 0..MaxLimit
    BY <1>a, <2>1, GatewayAssumption DEF PermitsConserved, TypeOK
  <2>3. TypeOK'
    BY <1>12, <2>2, GatewayAssumption DEF TypeOK, Release, Goto, PC
  <2>. QED
    BY <1>12, <1>a, <2>1, <2>3 DEF Release, PermitsConserved
<1>13. CASE HangUp(c)
  <2>1. TypeOK'
    BY <1>13 DEF TypeOK, HangUp, Leave, semVars, PC, Exits
  <2>2. Holders' = Holders
    BY <1>13 DEF HangUp, Leave, Holders, TypeOK
  <2>. QED
    BY <1>13, <2>1, <2>2 DEF HangUp, PermitsConserved, semVars
<1>. QED
  BY <1>1, <1>2, <1>3, <1>4, <1>5, <1>6, <1>7, <1>8, <1>9, <1>10, <1>11, <1>12, <1>13
     DEF Progress

\* Every step preserves it.
LEMMA NextInv == IInv /\ [Next]_vars => IInv'
<1>. SUFFICES ASSUME IInv, [Next]_vars PROVE IInv'
  OBVIOUS
<1>1. ASSUME NEW c \in Callers, Begin(c) \/ Progress(c) PROVE IInv'
  BY <1>1, CallInv
<1>2. CASE SetLimit
  <2>1. TypeOK' /\ Holders' = Holders
    BY <1>2 DEF IInv, TypeOK, SetLimit, callVars, Holders
  <2>. QED
    BY <1>2, <2>1 DEF IInv, SetLimit, PermitsConserved
<1>3. CASE Tick
  <2>0. circuit' \in CircuitState
    BY <1>3, GatewayAssumption DEF IInv, TypeOK, Tick, Refusing, CircuitState
  <2>1. TypeOK' /\ Holders' = Holders
    BY <1>3, <2>0 DEF IInv, TypeOK, Tick, semVars, callVars, Holders
  <2>. QED
    BY <1>3, <2>1 DEF IInv, Tick, semVars, PermitsConserved
<1>4. CASE UNCHANGED vars
  BY <1>4 DEF IInv, vars, TypeOK, PermitsConserved, Holders
<1>. QED
  BY <1>1, <1>2, <1>3, <1>4 DEF Next

\* The type invariant and the count of the permits hold of every behaviour.
THEOREM GatewayInvariance == Spec => []IInv
<1>1. Init => IInv
  BY InitInv
<1>2. IInv /\ [Next]_vars => IInv'
  BY NextInv
<1>. QED
  BY <1>1, <1>2, PTL DEF Spec

\* The variables keep their types; no call makes more than MaxAttempts requests.
THEOREM GatewayTypes == Spec => []TypeOK
<1>1. IInv => TypeOK
  BY DEF IInv
<1>. QED
  BY <1>1, GatewayInvariance, PTL

\* Whatever way calls end, in any interleaving, no permit is lost or made up.
THEOREM PermitsKept == Spec => []PermitsConserved
<1>1. IInv => PermitsConserved
  BY DEF IInv
<1>. QED
  BY <1>1, GatewayInvariance, PTL

\* No more calls are behind the semaphore than it was created for.
THEOREM SemaphoreBounds == Spec => [](Cardinality(Holders) <= size)
<1>1. IInv => Cardinality(Holders) <= size
  BY HoldersFinite DEF IInv, TypeOK, PermitsConserved
<1>. QED
  BY <1>1, GatewayInvariance, PTL

\* An open circuit lets no further call through to the provider.
THEOREM OpenDrains == Spec => OpenCircuitDrains
<1>. DEFINE Drains ==
       Refusing /\ circuit'.open =>
         \A c \in Callers : pc'[c] = "calling" => pc[c] = "calling"
<1>1. IInv /\ [Next]_vars => [Drains]_vars
  <2>. SUFFICES ASSUME IInv, [Next]_vars, Refusing,
                       NEW c \in Callers, pc'[c] = "calling", pc[c] # "calling"
                PROVE  FALSE
    BY DEF Drains
  <2>1. ASSUME NEW d \in Callers, Begin(d) \/ Progress(d) PROVE FALSE
    BY <2>1 DEF Begin, Progress, GetSemaphore, Acquire, GiveUp, Check, Answer, Retry,
                Reject, HangUp, Normalize, RecordFailure, Audit, Release, Goto, Leave, IInv, TypeOK
  <2>2. CASE SetLimit \/ Tick \/ UNCHANGED vars
    BY <2>2 DEF SetLimit, Tick, vars
  <2>. QED
    BY <2>1, <2>2 DEF Next
<1>. QED
  BY <1>1, GatewayInvariance, PTL DEF Spec, OpenCircuitDrains

-----------------------------------------------------------------------------
(* Why a call ends.                                                        *)

\* The most steps a call has before it.
Remaining(c) ==
  CASE pc[c] = "idle"       -> 0
    [] pc[c] = "leaving"    -> 1
    [] pc[c] = "audit"      -> IF exit[c] = "result" THEN 4 ELSE 2
    [] pc[c] = "failed"     -> 3
    [] pc[c] = "normalize"  -> 5
    [] pc[c] = "calling"    -> 6 + (MaxAttempts - attempts[c])
    [] pc[c] = "check"      -> 7 + MaxAttempts
    [] pc[c] = "waiting"    -> 8 + MaxAttempts
    [] pc[c] = "configured" -> 9 + MaxAttempts

\* A step leaves a call that has begun where it is, or brings it nearer to its end.
CallsRunDown ==
  [][\A c \in Callers : pc[c] # "idle" =>
       \/ pc'[c] = pc[c] /\ attempts'[c] = attempts[c] /\ exit'[c] = exit[c]
       \/ Remaining(c)' < Remaining(c)]_vars

LEMMA RemainingCounts ==
  ASSUME TypeOK, NEW c \in Callers
  PROVE  Remaining(c) \in 0..(9 + MaxAttempts)
<1>1. pc[c] \in PC /\ attempts[c] \in 0..MaxAttempts /\ MaxAttempts \in Nat
  BY GatewayAssumption DEF TypeOK
<1>2. CASE pc[c] = "calling"
  BY <1>1, <1>2 DEF Remaining
<1>3. CASE pc[c] = "check"
  BY <1>1, <1>3 DEF Remaining
<1>4. CASE pc[c] = "waiting"
  BY <1>1, <1>4 DEF Remaining
<1>5. CASE pc[c] = "configured"
  BY <1>1, <1>5 DEF Remaining
<1>6. CASE pc[c] = "idle"
  BY <1>1, <1>6 DEF Remaining
<1>7. CASE pc[c] = "leaving"
  BY <1>1, <1>7 DEF Remaining
<1>8. CASE pc[c] = "audit"
  BY <1>1, <1>8 DEF Remaining
<1>9. CASE pc[c] = "failed"
  BY <1>1, <1>9 DEF Remaining
<1>10. CASE pc[c] = "normalize"
  BY <1>1, <1>10 DEF Remaining
<1>. QED
  BY <1>1, <1>2, <1>3, <1>4, <1>5, <1>6, <1>7, <1>8, <1>9, <1>10 DEF PC

LEMMA CallRunsDown ==
  ASSUME TypeOK, TypeOK', NEW c \in Callers, Progress(c)
  PROVE  Remaining(c)' < Remaining(c)
<1>. DEFINE more == MaxAttempts - attempts[c]
<1>1. /\ MaxAttempts \in Nat /\ attempts[c] \in 0..MaxAttempts /\ attempts'[c] \in 0..MaxAttempts
      /\ pc \in [Callers -> PC] /\ attempts \in [Callers -> 0..MaxAttempts]
      /\ exit \in [Callers -> Exits]
  BY GatewayAssumption DEF TypeOK
<1>2. CASE Retry(c)
  <2>1. /\ pc[c] = "calling" /\ pc'[c] = "calling" /\ attempts'[c] = attempts[c] + 1
    BY <1>1, <1>2 DEF Retry, Goto
  <2>. QED
    BY <1>1, <2>1 DEF Remaining
<1>3. CASE Check(c)
  <2>1. pc[c] = "check" /\ pc'[c] \in {"failed", "calling"}
    BY <1>1, <1>3 DEF Check, Goto
  <2>. QED
    BY <1>1, <2>1 DEF Remaining
<1>4. CASE Answer(c) \/ Reject(c) \/ HangUp(c)
  <2>1. pc[c] = "calling" /\ pc'[c] \in {"normalize", "failed", "leaving"}
    BY <1>1, <1>4 DEF Answer, Reject, HangUp, Goto, Leave
  <2>. QED
    BY <1>1, <2>1 DEF Remaining
<1>5. CASE GetSemaphore(c) \/ Acquire(c) \/ GiveUp(c)
  <2>1. \/ pc[c] = "configured" /\ pc'[c] = "waiting"
        \/ pc[c] = "waiting" /\ pc'[c] \in {"check", "idle"}
    BY <1>1, <1>5 DEF GetSemaphore, Acquire, GiveUp, Goto
  <2>. QED
    BY <1>1, <2>1 DEF Remaining
<1>6. CASE Normalize(c) \/ RecordFailure(c) \/ Audit(c) \/ Release(c)
  <2>1. \/ pc[c] = "normalize" /\ pc'[c] \in {"audit", "failed", "leaving"}
        \/ pc[c] = "failed" /\ pc'[c] = "audit" /\ exit'[c] = "error"
        \/ pc[c] = "audit" /\ pc'[c] = "leaving"
        \/ pc[c] = "audit" /\ exit[c] = "result" /\ pc'[c] = "failed"
        \/ pc[c] = "leaving" /\ pc'[c] = "idle"
    BY <1>1, <1>6 DEF Normalize, RecordFailure, Audit, Release, Goto, Leave
  <2>. QED
    BY <1>1, <2>1 DEF Remaining
<1>. QED
  BY <1>2, <1>3, <1>4, <1>5, <1>6 DEF Progress

\* Nobody's step moves the call of another thread.
LEMMA OthersStay ==
  ASSUME TypeOK, NEW c \in Callers, NEW d \in Callers, c # d, Begin(d) \/ Progress(d)
  PROVE  pc'[c] = pc[c] /\ attempts'[c] = attempts[c] /\ exit'[c] = exit[c]
<1>1. pc'[c] = pc[c]
  BY DEF TypeOK, Begin, Progress, GetSemaphore, Acquire, GiveUp, Check, Answer, Retry,
         Reject, HangUp, Normalize, RecordFailure, Audit, Release, Goto, Leave
<1>2. attempts'[c] = attempts[c]
  BY DEF TypeOK, Begin, Progress, GetSemaphore, Acquire, GiveUp, Check, Answer, Retry,
         Reject, HangUp, Normalize, RecordFailure, Audit, Release, callVars
<1>3. exit'[c] = exit[c]
  BY DEF TypeOK, Begin, Progress, GetSemaphore, Acquire, GiveUp, Check, Answer, Retry,
         Reject, HangUp, Normalize, RecordFailure, Audit, Release, Goto, Leave, callVars
<1>. QED
  BY <1>1, <1>2, <1>3

\* Every step of a call that has begun, whoever holds the permits, whatever the
\* circuit says and the provider answers, lowers a natural number that starts
\* at MaxAttempts + 9, and no other thread raises it: with the fairness of
\* FairSpec, the reason why every call comes to an end.
THEOREM CallsRunDownHolds ==
  Spec => CallsRunDown /\ [](\A c \in Callers : Remaining(c) \in 0..(9 + MaxAttempts))
<1>. DEFINE Down ==
       \A c \in Callers : pc[c] # "idle" =>
         \/ pc'[c] = pc[c] /\ attempts'[c] = attempts[c] /\ exit'[c] = exit[c]
         \/ Remaining(c)' < Remaining(c)
<1>1. IInv /\ IInv' /\ [Next]_vars => [Down]_vars
  <2>. SUFFICES ASSUME IInv, IInv', [Next]_vars, NEW c \in Callers, pc[c] # "idle"
                PROVE  \/ pc'[c] = pc[c] /\ attempts'[c] = attempts[c] /\ exit'[c] = exit[c]
                       \/ Remaining(c)' < Remaining(c)
    BY DEF Down
  <2>1. ASSUME NEW d \in Callers, Begin(d) \/ Progress(d), c # d
        PROVE  pc'[c] = pc[c] /\ attempts'[c] = attempts[c] /\ exit'[c] = exit[c]
    BY <2>1, OthersStay DEF IInv
  <2>2. CASE Begin(c)
    BY <2>2 DEF Begin, Goto
  <2>3. CASE Progress(c)
    BY <2>3, CallRunsDown DEF IInv
  <2>4. CASE SetLimit \/ Tick \/ UNCHANGED vars
    BY <2>4 DEF SetLimit, Tick, vars, callVars
  <2>. QED
    BY <2>1, <2>2, <2>3, <2>4 DEF Next
<1>2. IInv => \A c \in Callers : Remaining(c) \in 0..(9 + MaxAttempts)
  BY RemainingCounts DEF IInv
<1>. QED
  BY <1>1, <1>2, GatewayInvariance, PTL DEF Spec, CallsRunDown
=============================================================================
