---------------------------- MODULE OutputFiles -----------------------------
(***************************************************************************)
(* How runs of one command share an output directory (pkg/command): a run  *)
(* picks the next free sequence number from the names it finds, opens its  *)
(* log under that number, and later writes its data directory and reports  *)
(* there.  Nothing reserves the number between the two steps.              *)
(*                                                                         *)
(* A file is a pair <<n, ext>>: "test-run.log" is <<1, "log">> and         *)
(* "test-run-3.yaml" is <<3, "yaml">>.                                     *)
(***************************************************************************)
EXTENDS Integers, FiniteSets, FiniteSetsExt

CONSTANTS
  Runs,                   \* runs of the command
  Old,                    \* highest number of the files found at the start
  MaxInt,                 \* the largest int of strconv.Atoi
  GlobMatches,            \* no glob metacharacter in the directory's name?
  Overlap                 \* may two runs overlap in time?

ASSUME OldAssumption == Old \in Nat /\ MaxInt \in Nat /\ Old <= MaxInt
ASSUME RegimeAssumption == GlobMatches \in BOOLEAN /\ Overlap \in BOOLEAN

Exts == {"log", "data", "yaml", "html"}

Earlier == "earlier"      \* the writer of the files found at the start

VARIABLES
  files,                  \* files[f]: the runs whose output file f holds
  pc,                     \* pc[r]: "idle", "opening", "running", "done"
  suffix                  \* suffix[r]: the number run r uses, 0 before

vars == <<files, pc, suffix>>

(* Earlier runs left any set of files: some crashed before their reports,  *)
(* and the user may have deleted files.                                    *)
Init ==
  /\ \E F \in SUBSET ((1..Old) \X {"log", "data", "yaml"}) : files = [f \in F |-> {Earlier}]
  /\ pc = [r \in Runs |-> "idle"]
  /\ suffix = [r \in Runs |-> 0]

-----------------------------------------------------------------------------
(* int addition wraps around. *)
Wrap(n) == IF n > MaxInt THEN n - 2 * (MaxInt + 1) ELSE n

(* Faulty NextNumber: the number of the last run is taken again. *)
NextNumberSame(found) == IF found = {} THEN 1 ELSE Max({f[1] : f \in found} \cup {1})

(* Faulty NextNumber: one number is skipped. *)
NextNumberSkips(found) == Wrap(Max({f[1] : f \in found} \cup {0}) + 2)

(* No file: the base name, number 1; otherwise the highest number plus 1.  *)
NextNumber(found) == Wrap(Max({f[1] : f \in found} \cup {0}) + 1)

(* Faulty Glob: only logs are matched. *)
GlobLogs == IF GlobMatches THEN {f \in DOMAIN files : f[2] = "log"} ELSE {}

(* Glob reads the directory's name as a part of the pattern: a name with a *)
(* metacharacter does not match itself.                                    *)
Glob == IF GlobMatches THEN DOMAIN files ELSE {}

(* findNextSuffix. *)
FindSuffix(r) ==
  /\ pc[r] = "idle"
  /\ Overlap \/ \A q \in Runs : pc[q] \in {"idle", "done"}
  /\ suffix' = [suffix EXCEPT ![r] = NextNumber(Glob)]
  /\ pc' = [pc EXCEPT ![r] = "opening"]
  /\ UNCHANGED files

Put(f, writers) ==
  files' = [g \in DOMAIN files \cup {f} |-> IF g = f THEN writers ELSE files[g]]

Writers(f) == IF f \in DOMAIN files THEN files[f] ELSE {}

(* newLogger opens the log for appending and creates it when there is      *)
(* none.  The run ends at once when the log cannot be opened.              *)
OpenLog(r) ==
  LET f == <<suffix[r], "log">> IN
  /\ pc[r] = "opening"
  /\ \/ /\ pc' = [pc EXCEPT ![r] = "running"]
        /\ Put(f, Writers(f) \cup {r})
     \/ /\ pc' = [pc EXCEPT ![r] = "done"]
        /\ UNCHANGED files
  /\ UNCHANGED suffix

(* Gathering adds files to DataDir, whatever is there. *)
GatherData(r) ==
  LET f == <<suffix[r], "data">> IN
  /\ pc[r] = "running"
  /\ Put(f, Writers(f) \cup {r})
  /\ UNCHANGED <<pc, suffix>>

(* OpenReport: os.Create truncates a report that exists. *)
WriteReport(r, format) ==
  /\ pc[r] = "running"
  /\ Put(<<suffix[r], format>>, {r})
  /\ UNCHANGED <<pc, suffix>>

(* The run returns, fails early (no env) or is killed, wherever it is. *)
Stop(r) ==
  /\ pc[r] \in {"opening", "running"}
  /\ pc' = [pc EXCEPT ![r] = "done"]
  /\ UNCHANGED <<files, suffix>>

Next ==
  \E r \in Runs :
    \/ FindSuffix(r)
    \/ OpenLog(r)
    \/ GatherData(r)
    \/ \E format \in {"yaml", "html"} : WriteReport(r, format)
    \/ Stop(r)

Spec == Init /\ [][Next]_vars
-----------------------------------------------------------------------------
(* Values the variables range over; numbers grow by one per run. *)
TypeOK ==
  /\ DOMAIN files \subseteq (1..(Old + Cardinality(Runs))) \X Exts
  /\ \A f \in DOMAIN files : files[f] \subseteq Runs \cup {Earlier}
  /\ pc \in [Runs -> {"idle", "opening", "running", "done"}]
  /\ suffix \in [Runs -> 0..(Old + Cardinality(Runs))]

(* "We never overwrite an existing file" (findNextSuffix, suffix.go): no   *)
(* output of a run is lost, whatever the runs before it left behind.       *)
NeverOverwrites ==
  [][\A f \in DOMAIN files : files[f] \subseteq files'[f]]_vars

(* Everything under the number of a run is the output of that run alone: a *)
(* reader never finds the log of one run beside the report of another, nor *)
(* two runs in one log.                                                    *)
OutputIsOwn ==
  \A r \in Runs : \A f \in DOMAIN files :
    pc[r] = "running" /\ f[1] = suffix[r] => files[f] = {r}
=============================================================================
