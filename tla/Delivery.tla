------------------------------ MODULE Delivery ------------------------------
(***************************************************************************)
(* What gathering.Namespaces, s3.Gather and s3.Check promise their caller: *)
(* one result per cluster or profile, each exactly once, in any order, and *)
(* an end of the results after the last one.                               *)
(***************************************************************************)
EXTENDS Naturals

CONSTANT Workers          \* the clusters or profiles worked on

VARIABLES
  delivered,              \* delivered[w]: results of w the caller received
  ended                   \* did the caller see the end of the results?

dvars == <<delivered, ended>>

DInit ==
  /\ delivered = [w \in Workers |-> 0]
  /\ ended = FALSE

Deliver(w) ==
  /\ ~ended
  /\ delivered[w] = 0
  /\ delivered' = [delivered EXCEPT ![w] = 1]
  /\ UNCHANGED ended

End ==
  /\ ~ended
  /\ \A w \in Workers : delivered[w] = 1
  /\ ended' = TRUE
  /\ UNCHANGED delivered

DNext == (\E w \in Workers : Deliver(w)) \/ End

DSpec == DInit /\ [][DNext]_dvars /\ WF_dvars(DNext)
=============================================================================
