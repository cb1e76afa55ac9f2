------------------------- MODULE OutputFilesProofs --------------------------
(***************************************************************************)
(* For any number of runs that follow one another, and any files left from *)
(* earlier: no run overwrites a file, and all files under the number of a  *)
(* run are its own.  The argument: the numbers in use are bounded (so the  *)
(* largest exists, and none wraps around), the number a run picks is above *)
(* all of them, and as long as the run is active nobody else writes.       *)
(***************************************************************************)
EXTENDS OutputFiles, FiniteSetTheorems, WellFoundedInduction, TLAPS

(* The runs follow one another, in a directory with a plain name, and the  *)
(* numbers stay below the largest integer.                                 *)
Sequential ==
  /\ ~Overlap
  /\ GlobMatches
  /\ IsFiniteSet(Runs)
  /\ Old + Cardinality(Runs) <= MaxInt

(***************************************************************************)
(* Lemmas about numbers.                                                   *)
(***************************************************************************)
(* A set of naturals that is bounded and not empty has a largest element:  *)
(* the distances to the bound have a smallest one.                         *)
LEMMA MaxOfBounded ==
  ASSUME NEW n \in Nat, NEW S \in SUBSET (0..n), S # {}
  PROVE  Max(S) \in S /\ \A y \in S : y <= Max(S)
<1>. DEFINE D == {n - x : x \in S}
<1>1. \A x \in S : x \in Int /\ 0 <= x /\ x <= n
  OBVIOUS
<1>2. \A e \in D : e \in Nat
  BY <1>1
<1>3. PICK d \in D : \A y \in D : ~ (<<y, d>> \in OpToRel(<, Nat))
  <2>1. PICK z : z \in S
    OBVIOUS
  <2>2. n - z \in D
    BY <2>1
  <2>3. D \subseteq Nat /\ D # {}
    BY <1>2, <2>2
  <2>. QED
    BY <2>3, NatLessThanWellFounded, WFMin
<1>4. \A y \in D : ~ (y < d)
  BY <1>2, <1>3 DEF OpToRel
<1>5. PICK m \in S : d = n - m
  OBVIOUS
<1>6. \A y \in S : m >= y
  <2>. TAKE y \in S
  <2>1. n - y \in D
    OBVIOUS
  <2>2. ~(n - y < n - m)
    BY <2>1, <1>4, <1>5
  <2>. QED
    BY <2>2, <1>1
<1>. QED
  BY <1>1, <1>5, <1>6 DEF Max

(* The next number is above all that are found.  Anchor: findNextSuffix    *)
(* (pkg/command/suffix.go).                                                *)
LEMMA NextNumberAbove ==
  ASSUME OldAssumption,
         NEW n \in Nat, n < MaxInt,
         NEW F, \A f \in F : f[1] \in 0..n
  PROVE  /\ NextNumber(F) \in 1..(n + 1)
         /\ \A f \in F : f[1] < NextNumber(F)
<1>. DEFINE S == {f[1] : f \in F} \cup {0}
<1>1. S \in SUBSET (0..n) /\ S # {}
  OBVIOUS
<1>2. Max(S) \in S /\ \A y \in S : y <= Max(S)
  BY <1>1, MaxOfBounded
<1>3. Max(S) \in 0..n
  BY <1>1, <1>2
<1>4. NextNumber(F) = Max(S) + 1
  BY <1>3 DEF OldAssumption, NextNumber, Wrap
<1>5. ASSUME NEW f \in F PROVE f[1] < Max(S) + 1
  <2>1. f[1] \in S
    OBVIOUS
  <2>. HIDE DEF S
  <2>. QED
    BY <2>1, <1>2, <1>3
<1>. HIDE DEF S
<1>. QED
  BY <1>3, <1>4, <1>5

(***************************************************************************)
(* The invariant.                                                          *)
(***************************************************************************)
Started == {r \in Runs : pc[r] # "idle"}

Active(r) == pc[r] \in {"opening", "running"}

(* The largest number that may be in use: each run adds at most one. *)
Bound == Old + Cardinality(Started)

TypeInv ==
  /\ pc \in [Runs -> {"idle", "opening", "running", "done"}]
  /\ suffix \in [Runs -> 0..Bound]
  /\ DOMAIN files \subseteq (0..Bound) \X Exts

(* One run at a time. *)
OneInv == \A r, q \in Runs : Active(r) /\ Active(q) => r = q

(* The number of a run that opens its log is above all others. *)
FreshInv ==
  \A r \in Runs : pc[r] = "opening" => \A f \in DOMAIN files : f[1] < suffix[r]

(* The files with the number of a running run are its own, and the others  *)
(* have a smaller one.                                                     *)
OwnInv ==
  \A r \in Runs : pc[r] = "running" =>
    \A f \in DOMAIN files : f[1] < suffix[r] \/ (f[1] = suffix[r] /\ files[f] = {r})

IInv == TypeInv /\ OneInv /\ FreshInv /\ OwnInv

LEMMA BoundType ==
  ASSUME OldAssumption, Sequential
  PROVE  /\ IsFiniteSet(Started)
         /\ Cardinality(Started) \in Nat
         /\ Bound \in Nat
         /\ Bound <= Old + Cardinality(Runs)
BY FS_Subset, FS_CardinalityType DEF OldAssumption, Sequential, Started, Bound

LEMMA InitIInv == OldAssumption /\ Sequential /\ Init => IInv
<1>. SUFFICES ASSUME OldAssumption, Sequential, Init PROVE IInv
  OBVIOUS
<1>1. Bound = Old /\ Old \in Nat
  <2>1. Started = {}
    BY DEF Init, Started
  <2>. QED
    BY <2>1, FS_EmptySet DEF Bound, OldAssumption
<1>2. DOMAIN files \subseteq (1..Old) \X {"log", "data", "yaml"}
  BY DEF Init
<1>3. TypeInv
  BY <1>1, <1>2 DEF Init, TypeInv, Exts
<1>. QED
  BY <1>3 DEF Init, IInv, OneInv, FreshInv, OwnInv, Active

(***************************************************************************)
(* The steps.                                                              *)
(***************************************************************************)
(* A run picks its number: no other run is active. *)
LEMMA FindSuffixStep ==
  ASSUME OldAssumption, Sequential, IInv, NEW r \in Runs, FindSuffix(r)
  PROVE  IInv'
<1>. USE DEF IInv
<1>1. /\ pc \in [Runs -> {"idle", "opening", "running", "done"}]
      /\ suffix \in [Runs -> 0..Bound]
      /\ DOMAIN files \subseteq (0..Bound) \X Exts
  BY DEF TypeInv
<1>2. /\ pc[r] = "idle"
      /\ pc' = [pc EXCEPT ![r] = "opening"]
      /\ suffix' = [suffix EXCEPT ![r] = NextNumber(DOMAIN files)]
      /\ files' = files
      /\ \A q \in Runs : pc[q] \in {"idle", "done"}
  BY DEF FindSuffix, Sequential, Glob
<1>3. Bound \in Nat /\ Bound < MaxInt /\ Bound' = Bound + 1
  <2>1. Started' = Started \cup {r} /\ r \notin Started
    BY <1>1, <1>2 DEF Started
  <2>2. IsFiniteSet(Started) /\ Cardinality(Started) \in Nat
    BY BoundType
  <2>3. Cardinality(Started \cup {r}) = Cardinality(Started) + 1
    BY <2>1, <2>2, FS_AddElement
  <2>4. Cardinality(Started \cup {r}) <= Cardinality(Runs) /\ Cardinality(Runs) \in Nat
    BY FS_Subset, FS_CardinalityType DEF Sequential, Started
  <2>5. Cardinality(Started)' = Cardinality(Started) + 1
    BY <2>1, <2>3
  <2>. QED
    BY <2>2, <2>3, <2>4, <2>5 DEF Bound, OldAssumption, Sequential
<1>4. \A f \in DOMAIN files : f[1] \in 0..Bound
  BY <1>1
<1>5. /\ NextNumber(DOMAIN files) \in 1..(Bound + 1)
      /\ \A f \in DOMAIN files : f[1] < NextNumber(DOMAIN files)
  BY <1>3, <1>4, NextNumberAbove
<1>6. /\ pc'[r] = "opening"
      /\ suffix'[r] = NextNumber(DOMAIN files)
      /\ \A q \in Runs \ {r} : pc'[q] \in {"idle", "done"}
  BY <1>1, <1>2
<1>7. TypeInv'
  <2>1. suffix' \in [Runs -> 0..Bound']
    BY <1>1, <1>2, <1>3, <1>5
  <2>2. DOMAIN files' \subseteq (0..Bound') \X Exts
    BY <1>1, <1>2, <1>3
  <2>. QED
    BY <1>1, <1>2, <2>1, <2>2 DEF TypeInv
<1>8. OneInv'
  BY <1>6 DEF OneInv, Active
<1>9. FreshInv'
  BY <1>2, <1>5, <1>6 DEF FreshInv
<1>10. OwnInv'
  BY <1>6 DEF OwnInv
<1>. QED
  BY <1>7, <1>8, <1>9, <1>10

(* A run that goes on keeps the bound and leaves the others alone. *)
LEMMA BoundKept ==
  ASSUME TypeInv, NEW r \in Runs, pc[r] # "idle",
         \/ pc' = pc
         \/ \E s \in {"running", "done"} : pc' = [pc EXCEPT ![r] = s]
  PROVE  /\ Bound' = Bound
         /\ pc' \in [Runs -> {"idle", "opening", "running", "done"}]
         /\ \A q \in Runs : q # r => pc'[q] = pc[q]
<1>1. /\ pc' \in [Runs -> {"idle", "opening", "running", "done"}]
      /\ pc'[r] # "idle"
      /\ \A q \in Runs : q # r => pc'[q] = pc[q]
  BY DEF TypeInv
<1>2. Started' = Started
  BY <1>1 DEF Started
<1>. QED
  BY <1>1, <1>2 DEF Bound

(* Writing a file of one's own keeps every file one's own: a file under    *)
(* the number of an active run is new, or its own.                         *)
LEMMA PutOwn ==
  ASSUME IInv, NEW r \in Runs, Active(r), NEW ext \in Exts,
         NEW W, Put(<<suffix[r], ext>>, W),
         W = {r}, suffix' = suffix,
         pc' = pc \/ pc' = [pc EXCEPT ![r] = "running"], pc'[r] = "running"
  PROVE  IInv'
<1>. USE DEF IInv
<1>1. DEFINE f == <<suffix[r], ext>>
<1>2. /\ pc \in [Runs -> {"idle", "opening", "running", "done"}]
      /\ suffix \in [Runs -> 0..Bound]
      /\ DOMAIN files \subseteq (0..Bound) \X Exts
  BY DEF TypeInv
<1>3. /\ DOMAIN files' = DOMAIN files \cup {f}
      /\ files'[f] = {r}
      /\ \A g \in DOMAIN files : g # f => files'[g] = files[g]
  BY DEF Put
<1>4. /\ Bound' = Bound
      /\ pc' \in [Runs -> {"idle", "opening", "running", "done"}]
      /\ \A q \in Runs : q # r => pc'[q] = pc[q]
  BY BoundKept DEF Active
<1>5. f \in (0..Bound) \X Exts /\ f[1] = suffix[r]
  BY <1>2
<1>. HIDE DEF f
<1>6. TypeInv'
  BY <1>2, <1>3, <1>4, <1>5 DEF TypeInv
<1>7. \A q \in Runs : q # r => ~Active(q) /\ ~Active(q)'
  BY <1>4 DEF OneInv, Active
<1>8. OneInv'
  BY <1>7 DEF OneInv
<1>9. FreshInv'
  BY <1>7 DEF FreshInv, Active
<1>10. \A g \in DOMAIN files' : g[1] < suffix'[r] \/ (g[1] = suffix'[r] /\ files'[g] = {r})
  <2>1. \A g \in DOMAIN files :
          g[1] < suffix[r] \/ (g[1] = suffix[r] /\ files[g] = {r})
    BY DEF FreshInv, OwnInv, Active
  <2>. QED
    BY <2>1, <1>3, <1>5
<1>11. OwnInv'
  BY <1>7, <1>10 DEF OwnInv, Active
<1>. QED
  BY <1>6, <1>8, <1>9, <1>11

(* A run ends. *)
LEMMA EndStep ==
  ASSUME IInv, NEW r \in Runs, Active(r),
         pc' = [pc EXCEPT ![r] = "done"], files' = files, suffix' = suffix
  PROVE  IInv'
<1>. USE DEF IInv
<1>1. /\ Bound' = Bound
      /\ pc' \in [Runs -> {"idle", "opening", "running", "done"}]
      /\ \A q \in Runs : q # r => pc'[q] = pc[q]
  BY BoundKept DEF Active
<1>2. pc'[r] = "done"
  BY DEF TypeInv
<1>3. TypeInv'
  BY <1>1 DEF TypeInv
<1>4. OneInv'
  BY <1>1, <1>2 DEF OneInv, Active
<1>5. FreshInv' /\ OwnInv'
  BY <1>1, <1>2 DEF FreshInv, OwnInv
<1>. QED
  BY <1>3, <1>4, <1>5

(* Every step of a run is one of three: it picks a number, it writes a     *)
(* file of its own, or it ends.                                            *)
Ends(r) ==
  /\ Active(r)
  /\ pc' = [pc EXCEPT ![r] = "done"]
  /\ UNCHANGED <<files, suffix>>

Writes(r, ext) ==
  /\ Active(r)
  /\ Put(<<suffix[r], ext>>, {r})
  /\ pc' = pc \/ pc' = [pc EXCEPT ![r] = "running"]
  /\ pc'[r] = "running"
  /\ suffix' = suffix

LEMMA StepKinds ==
  ASSUME IInv, [Next]_vars
  PROVE  \/ UNCHANGED vars
         \/ \E r \in Runs : FindSuffix(r) \/ Ends(r) \/ \E ext \in Exts : Writes(r, ext)
<1>1. pc \in [Runs -> {"idle", "opening", "running", "done"}]
  BY DEF IInv, TypeInv
<1>2. ASSUME NEW r \in Runs, OpenLog(r)
      PROVE  Ends(r) \/ Writes(r, "log")
  <2>1. pc[r] = "opening" /\ suffix' = suffix
    BY <1>2 DEF OpenLog
  <2>2. CASE pc' = [pc EXCEPT ![r] = "done"] /\ UNCHANGED files
    BY <2>1, <2>2 DEF Ends, Active
  <2>3. CASE /\ pc' = [pc EXCEPT ![r] = "running"]
             /\ Put(<<suffix[r], "log">>, Writers(<<suffix[r], "log">>) \cup {r})
    <3>. DEFINE f == <<suffix[r], "log">>
    <3>1. f \notin DOMAIN files
      <4>1. SUFFICES ASSUME f \in DOMAIN files PROVE FALSE
        OBVIOUS
      <4>2. f[1] < suffix[r] /\ f[1] = suffix[r]
        BY <2>1, <4>1 DEF IInv, FreshInv
      <4>3. suffix[r] \in Int
        BY <4>1 DEF IInv, TypeInv
      <4>. QED
        BY <4>2, <4>3
    <3>2. Writers(f) \cup {r} = {r}
      BY <3>1 DEF Writers
    <3>3. Put(f, {r})
      BY <2>3, <3>2
    <3>4. pc'[r] = "running"
      BY <1>1, <2>3
    <3>. QED
      BY <2>1, <2>3, <3>3, <3>4 DEF Writes, Active
  <2>. QED
    BY <1>2, <2>2, <2>3 DEF OpenLog
<1>3. ASSUME NEW r \in Runs, GatherData(r)
      PROVE  Writes(r, "data")
  <2>. DEFINE f == <<suffix[r], "data">>
  <2>1. pc[r] = "running" /\ pc' = pc /\ suffix' = suffix /\ Put(f, Writers(f) \cup {r})
    BY <1>3 DEF GatherData
  <2>2. f \in DOMAIN files => files[f] = {r}
    <3>1. SUFFICES ASSUME f \in DOMAIN files PROVE files[f] = {r}
      OBVIOUS
    <3>2. f[1] < suffix[r] \/ files[f] = {r}
      BY <2>1, <3>1 DEF IInv, OwnInv
    <3>3. f[1] = suffix[r] /\ suffix[r] \in Int
      BY <3>1 DEF IInv, TypeInv
    <3>. QED
      BY <3>2, <3>3
  <2>3. Writers(f) \cup {r} = {r}
    BY <2>2 DEF Writers
  <2>4. Put(f, {r})
    BY <2>1, <2>3
  <2>. QED
    BY <2>1, <2>4 DEF Writes, Active
<1>4. ASSUME NEW r \in Runs, NEW format \in {"yaml", "html"}, WriteReport(r, format)
      PROVE  Writes(r, format)
  BY <1>4 DEF WriteReport, Writes, Active
<1>5. ASSUME NEW r \in Runs, Stop(r)
      PROVE  Ends(r)
  BY <1>5 DEF Stop, Ends, Active
<1>. QED
  BY <1>2, <1>3, <1>4, <1>5 DEF Next, Exts

LEMMA NextStep == OldAssumption /\ Sequential /\ IInv /\ [Next]_vars => IInv'
<1>. SUFFICES ASSUME OldAssumption, Sequential, IInv, [Next]_vars PROVE IInv'
  OBVIOUS
<1>1. CASE UNCHANGED vars
  BY <1>1 DEF vars, IInv, TypeInv, OneInv, FreshInv, OwnInv, Active, Bound, Started
<1>2. ASSUME NEW r \in Runs, FindSuffix(r) PROVE IInv'
  BY <1>2, FindSuffixStep
<1>3. ASSUME NEW r \in Runs, Ends(r) PROVE IInv'
  BY <1>3, EndStep DEF Ends
<1>4. ASSUME NEW r \in Runs, NEW ext \in Exts, Writes(r, ext) PROVE IInv'
  BY <1>4, PutOwn DEF Writes
<1>. QED
  BY <1>1, <1>2, <1>3, <1>4, StepKinds

(* A file that is written is new or was the writer's own already. *)
LEMMA NothingLost ==
  ASSUME IInv, [Next]_vars
  PROVE  \A f \in DOMAIN files : files[f] \subseteq files'[f]
<1>1. CASE files' = files
  BY <1>1
<1>2. ASSUME NEW r \in Runs, NEW ext \in Exts, Writes(r, ext), NEW f \in DOMAIN files
      PROVE  files[f] \subseteq files'[f]
  <2>1. files' = [g \in DOMAIN files \cup {<<suffix[r], ext>>} |->
                    IF g = <<suffix[r], ext>> THEN {r} ELSE files[g]]
    BY <1>2 DEF Writes, Put
  <2>2. CASE f # <<suffix[r], ext>>
    BY <2>1, <2>2
  <2>3. CASE f = <<suffix[r], ext>>
    <3>1. f[1] = suffix[r] /\ suffix[r] \in Int
      BY <2>3 DEF IInv, TypeInv
    <3>2. f[1] < suffix[r] \/ files[f] = {r}
      BY <1>2 DEF Writes, Active, IInv, FreshInv, OwnInv
    <3>3. files[f] = {r}
      BY <3>1, <3>2
    <3>. QED
      BY <2>1, <2>3, <3>3
  <2>. QED
    BY <2>2, <2>3
<1>. QED
  BY <1>1, <1>2, StepKinds DEF vars, FindSuffix, Ends

(***************************************************************************)
(* The theorems.                                                           *)
(***************************************************************************)
(* The strengthening holds in every state of every execution whose runs    *)
(* follow one another.  Anchor: command.New, findNextSuffix, newLogger.    *)
THEOREM Inductive == Sequential => (Spec => []IInv)
<1>. SUFFICES ASSUME Sequential PROVE Spec => []IInv
  OBVIOUS
<1>1. Init => IInv
  BY OldAssumption, InitIInv
<1>2. IInv /\ [Next]_vars => IInv'
  BY OldAssumption, NextStep
<1>. QED
  BY <1>1, <1>2, PTL DEF Spec

(* Every file under the number of a running run is the output of that run  *)
(* alone, for any number of runs that follow one another and any files     *)
(* left from earlier.  Anchor: findNextSuffix (pkg/command/suffix.go).     *)
THEOREM OutputIsOwnHolds == Sequential => (Spec => []OutputIsOwn)
<1>. SUFFICES ASSUME Sequential PROVE Spec => []OutputIsOwn
  OBVIOUS
<1>1. IInv => OutputIsOwn
  <2>. SUFFICES ASSUME IInv,
                       NEW r \in Runs, NEW f \in DOMAIN files,
                       pc[r] = "running", f[1] = suffix[r]
                PROVE  files[f] = {r}
    BY DEF OutputIsOwn
  <2>1. f[1] < suffix[r] \/ files[f] = {r}
    BY DEF IInv, OwnInv
  <2>2. suffix[r] \in Int
    BY BoundType, OldAssumption DEF IInv, TypeInv
  <2>. QED
    BY <2>1, <2>2
<1>2. Spec => []IInv
  BY Inductive
<1>. QED
  BY <1>1, <1>2, PTL

(* No step removes what a run wrote, for any number of runs that follow    *)
(* one another.  Anchor: "We never overwrite an existing file",            *)
(* findNextSuffix (pkg/command/suffix.go).                                 *)
THEOREM NeverOverwritesHolds == Sequential => (Spec => NeverOverwrites)
<1>. SUFFICES ASSUME Sequential PROVE Spec => NeverOverwrites
  OBVIOUS
<1>1. IInv /\ [Next]_vars => [\A f \in DOMAIN files : files[f] \subseteq files'[f]]_vars
  BY NothingLost
<1>2. Spec => []IInv
  BY Inductive
<1>. QED
  BY <1>1, <1>2, PTL DEF Spec, NeverOverwrites

(***************************************************************************)
(* Numbers start at 1, and only runs write files.                          *)
(***************************************************************************)
NumberInv ==
  /\ \A r \in Runs : Active(r) => suffix[r] >= 1
  /\ \A f \in DOMAIN files : f[1] >= 1 /\ files[f] \subseteq Runs \cup {Earlier}

LEMMA NumberInit == OldAssumption /\ Init => NumberInv
<1>. SUFFICES ASSUME OldAssumption, Init PROVE NumberInv
  OBVIOUS
<1>1. PICK F \in SUBSET ((1..Old) \X {"log", "data", "yaml"}) : files = [f \in F |-> {Earlier}]
  BY DEF Init
<1>2. \A f \in F : f[1] \in 1..Old
  OBVIOUS
<1>. QED
  BY <1>1, <1>2 DEF Init, NumberInv, Active, OldAssumption

(* A run that has not started leaves a number below the largest one. *)
LEMMA StartBelow ==
  ASSUME OldAssumption, Sequential, NEW r \in Runs, pc[r] = "idle"
  PROVE  Bound \in Nat /\ Bound < MaxInt
<1>1. Started \subseteq Runs \ {r}
  BY DEF Started
<1>2. /\ IsFiniteSet(Runs \ {r}) /\ Cardinality(Runs \ {r}) = Cardinality(Runs) - 1
      /\ Cardinality(Runs) \in Nat
  BY FS_RemoveElement, FS_CardinalityType DEF Sequential
<1>3. Cardinality(Started) <= Cardinality(Runs) - 1
  BY <1>1, <1>2, FS_Subset
<1>. QED
  BY <1>2, <1>3, BoundType DEF Bound, OldAssumption, Sequential

(* A step keeps it. *)
LEMMA NumberStep ==
  OldAssumption /\ Sequential /\ IInv /\ NumberInv /\ [Next]_vars => NumberInv'
<1>. SUFFICES ASSUME OldAssumption, Sequential, IInv, NumberInv, [Next]_vars PROVE NumberInv'
  OBVIOUS
<1>1. /\ pc \in [Runs -> {"idle", "opening", "running", "done"}]
      /\ suffix \in [Runs -> 0..Bound]
      /\ DOMAIN files \subseteq (0..Bound) \X Exts
  BY DEF IInv, TypeInv
<1>2. CASE UNCHANGED vars
  BY <1>2 DEF vars, NumberInv, Active
<1>3. ASSUME NEW r \in Runs, FindSuffix(r) PROVE NumberInv'
  <2>1. \A f \in DOMAIN files : f[1] \in 0..Bound
    BY <1>1
  <2>2. Bound \in Nat /\ Bound < MaxInt
    BY <1>1, <1>3, StartBelow DEF FindSuffix
  <2>3. NextNumber(DOMAIN files) \in 1..(Bound + 1)
    BY <2>1, <2>2, NextNumberAbove
  <2>4. suffix' = [suffix EXCEPT ![r] = NextNumber(DOMAIN files)] /\ files' = files
        /\ pc' = [pc EXCEPT ![r] = "opening"]
    BY <1>3 DEF FindSuffix, Sequential, Glob
  <2>5. \A q \in Runs : Active(q)' => suffix'[q] >= 1
    BY <1>1, <2>2, <2>3, <2>4 DEF NumberInv, Active
  <2>. QED
    BY <2>4, <2>5 DEF NumberInv
<1>4. ASSUME NEW r \in Runs, Ends(r) PROVE NumberInv'
  BY <1>1, <1>4 DEF Ends, NumberInv, Active
<1>5. ASSUME NEW r \in Runs, NEW ext \in Exts, Writes(r, ext) PROVE NumberInv'
  <2>1. files' = [g \in DOMAIN files \cup {<<suffix[r], ext>>} |->
                    IF g = <<suffix[r], ext>> THEN {r} ELSE files[g]]
    BY <1>5 DEF Writes, Put
  <2>2. suffix[r] >= 1 /\ suffix' = suffix
    BY <1>5 DEF Writes, NumberInv
  <2>3. \A q \in Runs : Active(q)' => Active(q)
    BY <1>1, <1>5 DEF Writes, Active
  <2>4. \A f \in DOMAIN files' : f[1] >= 1 /\ files'[f] \subseteq Runs \cup {Earlier}
    <3>. TAKE f \in DOMAIN files'
    <3>1. CASE f = <<suffix[r], ext>>
      BY <2>1, <2>2, <3>1
    <3>2. CASE f # <<suffix[r], ext>>
      BY <2>1, <3>2 DEF NumberInv
    <3>. QED
      BY <3>1, <3>2
  <2>. QED
    BY <2>2, <2>3, <2>4 DEF NumberInv
<1>. QED
  BY <1>2, <1>3, <1>4, <1>5, StepKinds

(* The variables keep their types when runs follow one another: the        *)
(* numbers start at 1 and grow by at most one with each run.  Anchor:      *)
(* findNextSuffix (pkg/command/suffix.go).                                 *)
THEOREM TypeOKHolds == Sequential => (Spec => []TypeOK)
<1>. SUFFICES ASSUME Sequential PROVE Spec => []TypeOK
  OBVIOUS
<1>1. ASSUME IInv, NumberInv PROVE TypeOK
  <2>1. /\ Bound \in Nat /\ Old + Cardinality(Runs) \in Nat
        /\ Bound <= Old + Cardinality(Runs)
    BY OldAssumption, BoundType, FS_CardinalityType DEF Sequential, OldAssumption
  <2>2. suffix \in [Runs -> 0..(Old + Cardinality(Runs))]
    BY <1>1, <2>1 DEF IInv, TypeInv
  <2>3. DOMAIN files \subseteq (1..(Old + Cardinality(Runs))) \X Exts
    <3>. SUFFICES ASSUME NEW f \in DOMAIN files
                  PROVE  f \in (1..(Old + Cardinality(Runs))) \X Exts
      OBVIOUS
    <3>1. f \in (0..Bound) \X Exts /\ f[1] >= 1
      BY <1>1 DEF IInv, TypeInv, NumberInv
    <3>. QED
      BY <2>1, <3>1
  <2>. QED
    BY <1>1, <2>2, <2>3 DEF IInv, TypeInv, NumberInv, TypeOK
<1>2. Spec => []IInv
  BY Inductive
<1>3. Init => NumberInv
  BY OldAssumption, NumberInit
<1>4. IInv /\ NumberInv /\ [Next]_vars => NumberInv'
  BY OldAssumption, NumberStep
<1>. QED
  BY <1>1, <1>2, <1>3, <1>4, PTL DEF Spec
=============================================================================
