------------------------------- MODULE FanOut -------------------------------
(***************************************************************************)
(* The fan-out of gathering.Namespaces (pkg/gathering), s3.Gather and      *)
(* s3.Check (pkg/s3): one goroutine per cluster or profile works and sends *)
(* its result on an unbuffered channel, a closer goroutine waits for all   *)
(* of them and closes the channel, and the caller ranges over the channel. *)
(***************************************************************************)
EXTENDS Integers, FiniteSets

CONSTANT Workers          \* the clusters or profiles worked on

ASSUME WorkersAssumption == IsFiniteSet(Workers)

VARIABLES
  pc,                     \* the caller: "start", "range" or "done"
  go,                     \* go[w]: where the goroutine of worker w is
  wg,                     \* the WaitGroup counter
  closer,                 \* the closer goroutine: "none", "waiting", "done"
  closed,                 \* is the results channel closed?
  got                     \* got[w]: results of w the caller received

vars == <<pc, go, wg, closer, closed, got>>

Init ==
  /\ pc = "start"
  /\ go = [w \in Workers |-> "none"]
  /\ wg = 0
  /\ closer = "none"
  /\ closed = FALSE
  /\ got = [w \in Workers |-> 0]

(***************************************************************************)
(* The caller: start the goroutines, then range over the results.          *)
(***************************************************************************)

(* Faulty Spawn: wg.Add is forgotten. *)
SpawnWithoutAdd(w) ==
  /\ pc = "start"
  /\ go[w] = "none"
  /\ go' = [go EXCEPT ![w] = "working"]
  /\ UNCHANGED <<pc, wg, closer, closed, got>>

Spawn(w) ==
  /\ pc = "start"
  /\ go[w] = "none"
  /\ go' = [go EXCEPT ![w] = "working"]
  /\ wg' = wg + 1
  /\ UNCHANGED <<pc, closer, closed, got>>

(* Faulty StartCloser: the caller waits itself before it ranges. *)
WaitBeforeRange ==
  /\ pc = "start"
  /\ \A w \in Workers : go[w] # "none"
  /\ wg = 0
  /\ closer' = "done"
  /\ closed' = TRUE
  /\ pc' = "range"
  /\ UNCHANGED <<go, wg, got>>

StartCloser ==
  /\ pc = "start"
  /\ \A w \in Workers : go[w] # "none"
  /\ closer' = "waiting"
  /\ pc' = "range"
  /\ UNCHANGED <<go, wg, closed, got>>

(* The send and the receive of an unbuffered channel happen together.  A   *)
(* send on a closed channel would panic: CloseIsLast excludes it.          *)
Receive(w) ==
  /\ pc = "range"
  /\ go[w] = "sending"
  /\ ~closed
  /\ go' = [go EXCEPT ![w] = "sent"]
  /\ got' = [got EXCEPT ![w] = @ + 1]
  /\ UNCHANGED <<pc, wg, closer, closed>>

(* Faulty EndRange: the caller is content with its first result. *)
EndRangeEarly ==
  /\ pc = "range"
  /\ closed \/ \E w \in Workers : got[w] = 1
  /\ pc' = "done"
  /\ UNCHANGED <<go, wg, closer, closed, got>>

EndRange ==
  /\ pc = "range"
  /\ closed
  /\ pc' = "done"
  /\ UNCHANGED <<go, wg, closer, closed, got>>

(***************************************************************************)
(* A worker goroutine: gatherCluster, gatherData or checkBucket, the send, *)
(* and the deferred wg.Done.                                               *)
(***************************************************************************)
Work(w) ==
  /\ go[w] = "working"
  /\ go' = [go EXCEPT ![w] = "sending"]
  /\ UNCHANGED <<pc, wg, closer, closed, got>>

Done(w) ==
  /\ go[w] = "sent"
  /\ go' = [go EXCEPT ![w] = "done"]
  /\ wg' = wg - 1
  /\ UNCHANGED <<pc, closer, closed, got>>

(* Faulty Close: the closer does not wait. *)
CloseAtOnce ==
  /\ closer = "waiting"
  /\ closed' = TRUE
  /\ closer' = "done"
  /\ UNCHANGED <<pc, go, wg, got>>

(* The closer goroutine: wg.Wait, then close(results). *)
Close ==
  /\ closer = "waiting"
  /\ wg = 0
  /\ closed' = TRUE
  /\ closer' = "done"
  /\ UNCHANGED <<pc, go, wg, got>>

Caller       == (\E w \in Workers : Spawn(w) \/ Receive(w)) \/ StartCloser \/ EndRange
Goroutine(w) == Work(w) \/ Done(w)

Next == Caller \/ (\E w \in Workers : Goroutine(w)) \/ Close

(* The Go scheduler runs every goroutine, and the work of each ends: it    *)
(* does no more than a bounded number of requests.                         *)
Fairness == WF_vars(Caller) /\ (\A w \in Workers : WF_vars(Goroutine(w))) /\ WF_vars(Close)

Spec == Init /\ [][Next]_vars /\ Fairness
-----------------------------------------------------------------------------
(* Values the variables range over. *)
TypeOK ==
  /\ pc \in {"start", "range", "done"}
  /\ go \in [Workers -> {"none", "working", "sending", "sent", "done"}]
  /\ wg \in 0..Cardinality(Workers)
  /\ closer \in {"none", "waiting", "done"}
  /\ closed \in BOOLEAN
  /\ got \in [Workers -> 0..1]

(* The channel is closed only behind the last result: no goroutine is left *)
(* that could still send, and the caller got one result of each.           *)
CloseIsLast ==
  closed => \A w \in Workers : go[w] = "done" /\ got[w] = 1

(* Nothing is left running: the caller's range ends, and so do the closer  *)
(* and every worker goroutine.                                             *)
NothingLeaks ==
  <>(pc = "done" /\ closer = "done" /\ \A w \in Workers : go[w] = "done")

(* Every result is delivered exactly once, then the range ends. *)
Promise == INSTANCE Delivery WITH delivered <- got, ended <- (pc = "done")

KeepsDelivery == Promise!DSpec
=============================================================================
