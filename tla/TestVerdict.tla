---------------------------- MODULE TestVerdict -----------------------------
(***************************************************************************)
(* What `test run` and `test clean` promise, whatever way the tests are    *)
(* scheduled: every test reaches one verdict, independently of the others; *)
(* the command gives up before the first test, or answers once every test  *)
(* has its verdict; the answer is the worst verdict.  A stage after the    *)
(* tests (cleaning the environment) may still spoil a command whose tests  *)
(* all passed.                                                             *)
(***************************************************************************)
EXTENDS Report

CONSTANT Tests            \* the configured tests

VARIABLES
  verdict,                \* verdict[t]: Unset until test t stopped
  answer                  \* what the command answered, Unset while it runs

tvars == <<verdict, answer>>

Verdicts == {Passed, Failed, Canceled}

TVTypeOK ==
  /\ verdict \in [Tests -> Verdicts \cup {Unset}]
  /\ answer \in Verdicts \cup {Unset}

TVInit ==
  /\ verdict = [t \in Tests |-> Unset]
  /\ answer = Unset

(* A test stops, with a verdict it keeps. *)
Stop(t) ==
  /\ answer = Unset
  /\ verdict[t] = Unset
  /\ \E v \in Verdicts : verdict' = [verdict EXCEPT ![t] = v]
  /\ UNCHANGED answer

(* The command stops before any test started. *)
GiveUp ==
  /\ answer = Unset
  /\ \A t \in Tests : verdict[t] = Unset
  /\ answer' \in {Failed, Canceled}
  /\ UNCHANGED verdict

(* The command answers for the tests, or for a later stage if they passed. *)
Answer ==
  /\ answer = Unset
  /\ \A t \in Tests : verdict[t] # Unset
  /\ LET worst == Verdict({Passed} \cup {verdict[t] : t \in Tests})
     IN  answer' \in IF worst = Passed THEN Verdicts ELSE {worst}
  /\ UNCHANGED verdict

TVNext == (\E t \in Tests : Stop(t)) \/ GiveUp \/ Answer

TVSpec == TVInit /\ [][TVNext]_tvars /\ WF_tvars(TVNext)
=============================================================================
