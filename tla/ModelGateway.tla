---------------------------- MODULE ModelGateway -----------------------------
(***************************************************************************)
(* One ModelGateway object and the calls of one model configuration that   *)
(* threads make through it: the semaphore that bounds them, the circuit    *)
(* breaker they share, and the attempts of a call.                         *)
(*                                                                         *)
(* A step is what a thread does under the lock of the gateway, between two *)
(* blocking calls.  The provider, an external service, answers as it       *)
(* likes.  Time is the age of the open circuit, in units of which          *)
(* model_circuit_recovery_seconds has Recovery; failures beyond the        *)
(* threshold are not counted, since nothing tells them apart.              *)
(***************************************************************************)
EXTENDS Integers, FiniteSets

CONSTANTS
  Callers,      \* threads that call the model
  MaxLimit,     \* bound on the concurrency_limit of the configuration
  MaxAttempts,  \* model_max_retries + 1
  Threshold,    \* model_circuit_failure_threshold
  Recovery      \* model_circuit_recovery_seconds, in ticks

ASSUME GatewayAssumption ==
  /\ IsFiniteSet(Callers)
  /\ MaxLimit \in Nat \ {0}
  /\ MaxAttempts \in Nat \ {0}
  /\ Threshold \in Nat \ {0}
  /\ Recovery \in Nat \ {0}

VARIABLES
  limit,     \* concurrency_limit as an administrator last set it
  size,      \* the limit the semaphore was created with, 0 before
  permits,   \* permits the semaphore has left
  circuit,   \* the _CircuitState, and the time since opened_at
  pc,        \* pc[c]: where a thread is in _invoke
  asked,     \* asked[c]: the limit in the configuration it read
  attempts,  \* attempts[c]: requests of its call so far
  exit       \* exit[c]: how its last call ended

semVars  == <<limit, size, permits>>
callVars == <<asked, attempts, exit>>
vars == <<limit, size, permits, circuit, pc, asked, attempts, exit>>

PC == {"idle", "configured", "waiting", "check", "calling", "normalize",
       "failed", "audit", "leaving"}

CircuitState == [failures : 0..Threshold, open : BOOLEAN, age : 0..Recovery]

Exits == {"none", "limited", "result", "error", "escaped"}

TypeOK ==
  /\ limit \in 1..MaxLimit
  /\ size \in 0..MaxLimit
  /\ permits \in 0..MaxLimit
  /\ circuit \in CircuitState
  /\ pc \in [Callers -> PC]
  /\ asked \in [Callers -> 0..MaxLimit]
  /\ attempts \in [Callers -> 0..MaxAttempts]
  /\ exit \in [Callers -> Exits]

Closed == [failures |-> 0, open |-> FALSE, age |-> 0]

Init ==
  /\ limit \in 1..MaxLimit
  /\ size = 0
  /\ permits = 0
  /\ circuit = Closed
  /\ pc = [c \in Callers |-> "idle"]
  /\ asked = [c \in Callers |-> 0]
  /\ attempts = [c \in Callers |-> 0]
  /\ exit = [c \in Callers |-> "none"]

-----------------------------------------------------------------------------

Goto(c, from, to) == pc[c] = from /\ pc' = [pc EXCEPT ![c] = to]

\* The call ends in its finally clause, with exit e.
Leave(c, e) ==
  /\ pc' = [pc EXCEPT ![c] = "leaving"]
  /\ exit' = [exit EXCEPT ![c] = e]

\* The window in which calls are refused.
Refusing == circuit.open /\ circuit.age < Recovery

\* A call reads the configuration...
Begin(c) ==
  /\ Goto(c, "idle", "configured")
  /\ asked' = [asked EXCEPT ![c] = limit]
  /\ exit' = [exit EXCEPT ![c] = "none"]
  /\ UNCHANGED <<semVars, circuit, attempts>>

\* ... and gets the semaphore of the model, which the first call creates.
GetSemaphore(c) ==
  /\ Goto(c, "configured", "waiting")
  /\ IF size = 0
       THEN size' = asked[c] /\ permits' = asked[c]
       ELSE UNCHANGED <<size, permits>>
  /\ UNCHANGED <<limit, circuit, callVars>>

Acquire(c) ==
  /\ Goto(c, "waiting", "check")
  /\ permits > 0
  /\ permits' = permits - 1
  /\ UNCHANGED <<limit, size, circuit, callVars>>

\* Mutant of GiveUp: the acquire has no timeout.
NeverGiveUp(c) ==
  /\ Goto(c, "waiting", "idle")
  /\ FALSE
  /\ UNCHANGED <<semVars, circuit, callVars>>

\* MODEL_CONCURRENCY_LIMIT: no permit became free in time.  The call holds
\* none, counts as no failure and leaves no record.
GiveUp(c) ==
  /\ Goto(c, "waiting", "idle")
  /\ permits = 0
  /\ exit' = [exit EXCEPT ![c] = "limited"]
  /\ UNCHANGED <<semVars, circuit, asked, attempts>>

\* Mutant of Check: the circuit is not looked at.
CheckNothing(c) ==
  /\ Goto(c, "check", "calling")
  /\ attempts' = [attempts EXCEPT ![c] = 1]
  /\ UNCHANGED <<semVars, circuit, asked, exit>>

\* _ensure_circuit_closed, once for all attempts of the call.
Check(c) ==
  /\ Goto(c, "check", IF Refusing THEN "failed" ELSE "calling")
  /\ circuit' = IF circuit.open /\ ~Refusing THEN Closed ELSE circuit
  /\ attempts' = [attempts EXCEPT ![c] = IF Refusing THEN 0 ELSE 1]
  /\ UNCHANGED <<semVars, asked, exit>>

\* A valid answer closes the circuit, also one that other calls opened.
Answer(c) ==
  /\ Goto(c, "calling", "normalize")
  /\ circuit' = Closed
  /\ UNCHANGED <<semVars, callVars>>

\* A timeout, a network error or a retryable status, and the sleep.
Retry(c) ==
  /\ Goto(c, "calling", "calling")
  /\ attempts[c] < MaxAttempts
  /\ attempts' = [attempts EXCEPT ![c] = @ + 1]
  /\ UNCHANGED <<semVars, circuit, asked, exit>>

\* The attempts are used up, or the answer is refused, too large or invalid.
Reject(c) ==
  /\ Goto(c, "calling", "failed")
  /\ UNCHANGED <<semVars, circuit, callVars>>

\* A server that hangs up, or an error of the transport that is neither a timeout
\* nor a network error: no clause of _invoke catches it.
HangUp(c) ==
  /\ pc[c] = "calling"
  /\ Leave(c, "escaped")
  /\ UNCHANGED <<semVars, circuit, asked, attempts>>

\* _normalize: the answer has the expected form, a TypeError makes it invalid,
\* and any other exception, as an AttributeError on "choices": [null], goes
\* through _invoke to its caller.
Normalize(c) ==
  /\ pc[c] = "normalize"
  /\ \/ Goto(c, "normalize", "audit") /\ exit' = [exit EXCEPT ![c] = "result"]
     \/ Goto(c, "normalize", "failed") /\ UNCHANGED exit
     \/ Leave(c, "escaped")
  /\ UNCHANGED <<semVars, circuit, asked, attempts>>

\* _record_failure counts every ModelGatewayError raised behind the semaphore,
\* that of a refused call too.
RecordFailure(c) ==
  /\ Goto(c, "failed", "audit")
  /\ LET n == IF circuit.failures < Threshold THEN circuit.failures + 1 ELSE Threshold
     IN circuit' = IF n = Threshold
                     THEN [failures |-> n, open |-> TRUE, age |-> 0]
                     ELSE [circuit EXCEPT !.failures = n]
  /\ exit' = [exit EXCEPT ![c] = "error"]
  /\ UNCHANGED <<semVars, asked, attempts>>

\* record_model_call.  When the store fails, its exception ends the call; only a
\* TypeError or ValueError makes an answer invalid after it was accepted.
Audit(c) ==
  /\ pc[c] = "audit"
  /\ \/ Leave(c, exit[c])
     \/ Leave(c, "escaped")
     \/ exit[c] = "result" /\ Goto(c, "audit", "failed") /\ UNCHANGED exit
  /\ UNCHANGED <<semVars, circuit, asked, attempts>>

\* Mutant of Release: a call that an exception ends keeps its permit.
ReleaseUnlessEscaped(c) ==
  /\ Goto(c, "leaving", "idle")
  /\ permits' = IF exit[c] = "escaped" THEN permits ELSE permits + 1
  /\ attempts' = [attempts EXCEPT ![c] = 0]
  /\ UNCHANGED <<limit, size, circuit, asked, exit>>

\* The finally clause.
Release(c) ==
  /\ Goto(c, "leaving", "idle")
  /\ permits' = permits + 1
  /\ attempts' = [attempts EXCEPT ![c] = 0]
  /\ UNCHANGED <<limit, size, circuit, asked, exit>>

\* An administrator changes the configuration.
SetLimit ==
  /\ limit' \in 1..MaxLimit \ {limit}
  /\ UNCHANGED <<size, permits, circuit, pc, callVars>>

Tick ==
  /\ Refusing
  /\ circuit' = [circuit EXCEPT !.age = @ + 1]
  /\ UNCHANGED <<semVars, pc, callVars>>

-----------------------------------------------------------------------------

\* What a call that has begun does; one of these is always possible.
Progress(c) ==
  \/ GetSemaphore(c) \/ Acquire(c) \/ GiveUp(c) \/ Check(c)
  \/ Answer(c) \/ Retry(c) \/ Reject(c) \/ HangUp(c) \/ Normalize(c)
  \/ RecordFailure(c) \/ Audit(c) \/ Release(c)

Next ==
  \/ \E c \in Callers : Begin(c) \/ Progress(c)
  \/ SetLimit
  \/ Tick

Spec == Init /\ [][Next]_vars

\* Every request has a timeout, so calls go on; and time passes.
FairSpec ==
  /\ Spec
  /\ \A c \in Callers : WF_vars(Progress(c))
  /\ WF_vars(Tick)

-----------------------------------------------------------------------------
(* What the gateway promises.                                              *)

\* The calls that hold a permit.
Holders == {c \in Callers : pc[c] \notin {"idle", "configured", "waiting"}}

\* However a call ends, its permit comes back, and once: what is taken and what
\* is left always make up the limit the semaphore was created with.  So no more
\* calls than that are ever at the provider, and the gateway never runs dry.
PermitsConserved == permits + Cardinality(Holders) = size

\* While the circuit stays open and its window has not passed, no further call
\* reaches the provider: those under way when it opened only become fewer.
OpenCircuitDrains ==
  [][Refusing /\ circuit'.open =>
       \A c \in Callers : pc'[c] = "calling" => pc[c] = "calling"]_vars

\* Every call comes to an end: it waits for a permit no longer than its timeout,
\* and its attempts are bounded.
CallEnds == \A c \in Callers : pc[c] # "idle" ~> pc[c] = "idle"

-----------------------------------------------------------------------------
(* What the documents say and the code does not do.                        *)

\* The "recovery window" of an open circuit ends.
WindowEnds == Refusing ~> ~Refusing

\* The concurrency limit of the configuration bounds the calls: one that gets a
\* permit is not beyond the limit it has read.
ConfiguredLimitHolds ==
  [][\A c \in Callers :
       pc[c] = "waiting" /\ pc'[c] = "check" => Cardinality(Holders') <= asked[c]]_vars

\* A model call ends in a result or in an error of the gateway, which the
\* executor turns into "unable to determine", as long as the store works.
InvalidAnswerIsAnError ==
  [][\A c \in Callers :
       pc[c] = "normalize" /\ pc'[c] = "leaving" => exit'[c] # "escaped"]_vars
=============================================================================
