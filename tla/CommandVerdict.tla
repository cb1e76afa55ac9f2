--------------------------- MODULE CommandVerdict ---------------------------
(***************************************************************************)
(* What every command promises of its verdict: it gets worse, never        *)
(* better, while the command runs, and the command answers once, with the  *)
(* verdict it has: nil for "passed", an error for anything else.           *)
(***************************************************************************)
EXTENDS Report

VARIABLES
  verdict,                \* the worst status so far, Unset before any
  answer                  \* "none", then "nil" or "error"

cvars == <<verdict, answer>>

Severity(status) ==
  CASE status = Unset    -> 0
    [] status = Passed   -> 1
    [] status = Failed   -> 2
    [] status = Canceled -> 3

CInit == verdict = Unset /\ answer = "none"

Worsen ==
  /\ answer = "none"
  /\ verdict' \in {Passed, Failed, Canceled}
  /\ Severity(verdict') > Severity(verdict)
  /\ UNCHANGED answer

Answer ==
  /\ answer = "none"
  /\ verdict # Unset
  /\ answer' = IF verdict = Passed THEN "nil" ELSE "error"
  /\ UNCHANGED verdict

CNext == Worsen \/ Answer

CSpec == CInit /\ [][CNext]_cvars /\ WF_cvars(CNext)
=============================================================================
