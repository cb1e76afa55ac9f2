---------------------------- MODULE FanOutProofs ----------------------------
(***************************************************************************)
(* For any finite set of clusters or profiles: the channel is closed only  *)
(* behind the last result, and every step of the fan-out delivers one      *)
(* result for the first time, ends the delivery, or is invisible to the    *)
(* caller.  The argument: the WaitGroup counts the goroutines that did not *)
(* call wg.Done (WaitInv), so the closer finds them all done, and a done   *)
(* goroutine delivered its result (GotInv).                                *)
(***************************************************************************)
EXTENDS FanOut, FiniteSetTheorems, TLAPS

TypeInv ==
  /\ pc \in {"start", "range", "done"}
  /\ go \in [Workers -> {"none", "working", "sending", "sent", "done"}]
  /\ wg \in Int
  /\ closer \in {"none", "waiting", "done"}
  /\ closed \in BOOLEAN
  /\ got \in [Workers -> Nat]

Live == {w \in Workers : go[w] \in {"working", "sending", "sent"}}

WaitInv == wg = Cardinality(Live)

GotInv == \A w \in Workers : got[w] = IF go[w] \in {"sent", "done"} THEN 1 ELSE 0

CloserInv ==
  /\ pc = "start" <=> closer = "none"
  /\ closer # "none" => \A w \in Workers : go[w] # "none"
  /\ closed <=> closer = "done"
  /\ closed => \A w \in Workers : go[w] = "done"
  /\ pc = "done" => closed

IInv == TypeInv /\ WaitInv /\ GotInv /\ CloserInv

LEMMA LiveFinite == IsFiniteSet(Live) /\ Cardinality(Live) \in 0..Cardinality(Workers)
BY WorkersAssumption, FS_Subset, FS_CardinalityType DEF Live

LEMMA InitIInv == Init => IInv
<1>. SUFFICES ASSUME Init PROVE IInv
  OBVIOUS
<1>1. Live = {} /\ wg = 0
  BY DEF Init, Live
<1>2. WaitInv
  BY <1>1, FS_EmptySet DEF WaitInv
<1>3. closed \in BOOLEAN
  BY DEF Init
<1>4. TypeInv /\ GotInv /\ CloserInv
  BY <1>3 DEF Init, TypeInv, GotInv, CloserInv
<1>. QED
  BY <1>2, <1>4 DEF IInv

LEMMA TypeStep == TypeInv /\ [Next]_vars => TypeInv'
<1>. SUFFICES ASSUME TypeInv, [Next]_vars PROVE TypeInv'
  OBVIOUS
<1>. USE DEF TypeInv
<1>1. ASSUME NEW w \in Workers, Spawn(w) \/ Receive(w) \/ Goroutine(w) PROVE TypeInv'
  BY <1>1 DEF Spawn, Receive, Goroutine, Work, Done
<1>2. CASE StartCloser \/ EndRange \/ Close
  BY <1>2 DEF StartCloser, EndRange, Close
<1>3. CASE UNCHANGED vars
  BY <1>3 DEF vars
<1>. QED
  BY <1>1, <1>2, <1>3 DEF Next, Caller

LEMMA WaitStep == TypeInv /\ WaitInv /\ [Next]_vars => WaitInv'
<1>. SUFFICES ASSUME TypeInv, WaitInv, [Next]_vars PROVE WaitInv'
  OBVIOUS
<1>1. ASSUME NEW w \in Workers, Spawn(w) PROVE WaitInv'
  <2>1. Live' = Live \cup {w} /\ w \notin Live /\ wg' = wg + 1
    BY <1>1 DEF Spawn, Live, TypeInv
  <2>. QED
    BY <2>1, LiveFinite, FS_AddElement DEF WaitInv
<1>2. ASSUME NEW w \in Workers, Receive(w) \/ Work(w) PROVE WaitInv'
  <2>1. Live' = Live /\ wg' = wg
    BY <1>2 DEF Receive, Work, Live, TypeInv
  <2>. QED
    BY <2>1 DEF WaitInv
<1>3. ASSUME NEW w \in Workers, Done(w) PROVE WaitInv'
  <2>1. Live' = Live \ {w} /\ w \in Live /\ wg' = wg - 1
    BY <1>3 DEF Done, Live, TypeInv
  <2>. QED
    BY <2>1, LiveFinite, FS_RemoveElement DEF WaitInv
<1>4. CASE StartCloser \/ EndRange \/ Close \/ UNCHANGED vars
  BY <1>4 DEF StartCloser, EndRange, Close, vars, WaitInv, Live
<1>. QED
  BY <1>1, <1>2, <1>3, <1>4 DEF Next, Caller, Goroutine

LEMMA GotStep == TypeInv /\ GotInv /\ [Next]_vars => GotInv'
<1>. SUFFICES ASSUME TypeInv, GotInv, [Next]_vars PROVE GotInv'
  OBVIOUS
<1>. USE DEF TypeInv, GotInv
<1>1. ASSUME NEW w \in Workers, Spawn(w) \/ Receive(w) \/ Goroutine(w) PROVE GotInv'
  BY <1>1 DEF Spawn, Receive, Goroutine, Work, Done
<1>2. CASE StartCloser \/ EndRange \/ Close \/ UNCHANGED vars
  BY <1>2 DEF StartCloser, EndRange, Close, vars
<1>. QED
  BY <1>1, <1>2 DEF Next, Caller

LEMMA CloserStep == TypeInv /\ WaitInv /\ CloserInv /\ [Next]_vars => CloserInv'
<1>. SUFFICES ASSUME TypeInv, WaitInv, CloserInv, [Next]_vars PROVE CloserInv'
  OBVIOUS
<1>. USE DEF TypeInv, CloserInv
<1>1. ASSUME NEW w \in Workers, Spawn(w) PROVE CloserInv'
  BY <1>1 DEF Spawn
<1>2. ASSUME NEW w \in Workers, Receive(w) \/ Goroutine(w) PROVE CloserInv'
  BY <1>2 DEF Receive, Goroutine, Work, Done
<1>3. CASE StartCloser \/ EndRange
  BY <1>3 DEF StartCloser, EndRange
<1>4. CASE Close
  <2>1. Live = {}
    BY <1>4, LiveFinite, FS_EmptySet DEF Close, WaitInv
  <2>2. \A w \in Workers : go[w] = "done"
    BY <1>4, <2>1 DEF Close, Live
  <2>. QED
    BY <1>4, <2>2 DEF Close
<1>5. CASE UNCHANGED vars
  BY <1>5 DEF vars
<1>. QED
  BY <1>1, <1>2, <1>3, <1>4, <1>5 DEF Next, Caller

(* The WaitGroup, the goroutines, the closer and the caller agree.         *)
THEOREM FanOutConsistent == Spec => []IInv
<1>1. IInv /\ [Next]_vars => IInv'
  BY TypeStep, WaitStep, GotStep, CloserStep DEF IInv
<1>. QED
  BY <1>1, InitIInv, PTL DEF Spec

(* The type invariant: among others, the WaitGroup never becomes negative  *)
(* (which would panic) and no result is received twice.                    *)
THEOREM FanOutTypes == Spec => []TypeOK
<1>1. IInv => TypeOK
  <2>. SUFFICES ASSUME IInv PROVE TypeOK
    OBVIOUS
  <2>1. wg \in 0..Cardinality(Workers)
    BY LiveFinite DEF IInv, WaitInv
  <2>2. got \in [Workers -> 0..1]
    <3>1. \A w \in Workers : got[w] \in 0..1
      BY DEF IInv, GotInv
    <3>. QED
      BY <3>1 DEF IInv, TypeInv
  <2>. QED
    BY <2>1, <2>2 DEF IInv, TypeInv, TypeOK
<1>. QED
  BY <1>1, FanOutConsistent, PTL

(* Nobody can send on the closed channel.  Anchor: the closer goroutines   *)
(* of Namespaces (pkg/gathering), Gather and Check (pkg/s3).               *)
THEOREM ClosesLast == Spec => []CloseIsLast
<1>1. IInv => CloseIsLast
  BY DEF IInv, GotInv, CloserInv, CloseIsLast
<1>. QED
  BY <1>1, FanOutConsistent, PTL

(* The fan-out implements the safety part of Delivery: each result exactly *)
(* once, the end after the last.                                           *)
THEOREM DeliversOnce == Spec => Promise!DInit /\ [][Promise!DNext]_(Promise!dvars)
<1>1. Init => Promise!DInit
  BY DEF Init, Promise!DInit
<1>2. ASSUME IInv, [Next]_vars PROVE [Promise!DNext]_(Promise!dvars)
  <2>. USE DEF IInv, TypeInv, Promise!dvars
  <2>1. ASSUME NEW w \in Workers, Receive(w) PROVE Promise!Deliver(w)
    <3>1. got[w] = 0 /\ got' = [got EXCEPT ![w] = 1]
      <4>1. go[w] = "sending" /\ got' = [got EXCEPT ![w] = got[w] + 1]
        BY <2>1 DEF Receive
      <4>2. got[w] = 0
        BY <1>2, <4>1 DEF GotInv
      <4>. QED
        BY <4>1, <4>2
    <3>2. pc = "range" /\ pc' = "range"
      BY <2>1 DEF Receive
    <3>3. ~(pc = "done") /\ UNCHANGED (pc = "done")
      BY <3>2
    <3>. QED
      BY <3>1, <3>3 DEF Promise!Deliver
  <2>2. CASE EndRange
    <3>1. \A w \in Workers : got[w] = 1
      BY <1>2, <2>2 DEF EndRange, CloserInv, GotInv
    <3>2. Promise!End
      BY <2>2, <3>1 DEF EndRange, Promise!End
    <3>. QED
      BY <3>2 DEF Promise!DNext
  <2>3. ASSUME NEW w \in Workers, Spawn(w) \/ Goroutine(w)
        PROVE  UNCHANGED (Promise!dvars)
    BY <2>3 DEF Spawn, Goroutine, Work, Done
  <2>4. CASE StartCloser \/ Close \/ UNCHANGED vars
    BY <2>4 DEF StartCloser, Close, vars
  <2>. QED
    BY <1>2, <2>1, <2>2, <2>3, <2>4 DEF Next, Caller, Promise!DNext
<1>3. IInv /\ [Next]_vars => [Promise!DNext]_(Promise!dvars)
  BY <1>2
<1>. QED
  BY <1>1, <1>3, FanOutConsistent, PTL DEF Spec
=============================================================================
