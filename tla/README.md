# Formal model of ramenctl

`ramenctl` is a command line tool for RamenDR disaster recovery. It tests a
setup (`test run`, `test clean`), collects data of an application
(`gather application`) and validates an application or the clusters
(`validate application`, `validate clusters`). Each command runs once, talks to
a hub and two managed clusters and to S3 stores, writes its output under one
directory and answers with an exit status.

This directory holds TLA+ modules translated from the code under `src/pkg`, TLC
configurations that check them on small instances, and TLAPS proofs for every
number of tests, clusters and profiles. Paths below are relative to `src/pkg`.

    tlc -config TestCommand.cfg TestCommand.tla      # check a model
    tlapm TestCommandProofs.tla                      # check the proofs

## 1. The system

| Component | State | Operations | Interacts with |
|---|---|---|---|
| `test/` (`test run`, `test clean`) | `Report`, `Current` step, one `Test` per configured test, `WaitGroup` | validate, setup, one goroutine per test (deploy .. undeploy), collect, gather after a failure, cleanup, report | e2e library, `gathering`, `s3`, `report` |
| `gather/` | `Report`, `Current` | validate config, inspect application, gather namespaces, inspect and gather S3 | `gathering`, `s3`, `report` |
| `validate/command` | `Report`, `Current`, context | config, `GatherNamespaces`, step bookkeeping, YAML and HTML reports | `gathering`, `report` |
| `validate/application` | `ApplicationStatus`, `Summary`, `S3Results` | DRPC, VRG, PVC, delay and S3 validations | data read back from the output directory |
| `validate/clusters` | `ClustersStatus`, `Summary`, `S3Results` | DRPolicy, DRCluster, ramen, S3 profile and secret validations | the same, live hub for S3 secrets |
| `gathering/`, `s3/` | result channel, `WaitGroup` | one goroutine per cluster or profile, a goroutine that closes the channel | range loop of the caller |
| `s3/` (one profile) | counters of a prefix, paginator, files of the profile's directory | list a page, get an object, write its file | S3 store, file system |
| `command/` | suffix, log, context | find the next number, open the log, handle Ctrl-C, write the YAML report | file system |
| `report/` | tree of steps, status, summary | `AddStep`, `Error`, `Summary.Add` | every command |
| `config/`, `validation/` | shared `Config`, a context with a timeout | check the file, detect the distribution, check the cluster set | the clusters; called by the stages |
| `report/html`, templates | none | aggregate the states of a section, open it or not, leave fields out | the report of a validation |
| `ramen/`, `core/` | none | read and interpret gathered objects | validations |
| `console/`, `logging/`, `time/`, `sets/`, `build/`, `cmd/`, `helpers/` | none that outlives a call | parsing, printing, dispatch, fixtures | - |

What is hard in it:

- **Concurrency.** Tests, clusters and profiles each run in a goroutine. The
  main goroutine reads what test goroutines wrote without a lock, after
  `wg.Wait`; the other fan-outs hand results over a channel that a third
  goroutine closes.
- **Cancellation.** Ctrl-C cancels one context. Every operation under way may
  still succeed, fail, time out or say that it was canceled, each on its own.
- **Three records of one fact.** Control follows booleans, the report follows
  `AddStep`, the validations follow a summary. The answer must be true in all
  of them, although some stages return true "even if there were errors".
- **Partial failure.** Objects are missing (a problem to report) or unreadable
  (an error), a cluster of three cannot be gathered, an S3 profile of two fails.
- **Files.** Runs share a directory and find their number by a glob. Files of
  downloaded objects are named by keys that may collide or block each other.
- **A world that moves.** Objects come and go while a bucket is listed, the
  cluster set changes between two requests, a server may never answer.
- **Comparisons** by name, by count, by fingerprint of sanitized secrets, and by
  thresholds on times.

What makes the components correct is stated as properties in section 3; the
hazards, each at its line and with its properties, are in `PROJECT.json`.

## 2. The modules

Report ------------- TestCommand ------------ TestCommandProofs |
\--> TestVerdict (abstract) | \---- Stages --+-- GatherApplication ---\ +--
ValidateData          \ |     +-- ValidateApplication -- DataCommands --
DataCommandsProofs |     +-- ValidateClusters ----/    \--> CommandVerdict
(abstract)

    FanOut ---> Delivery (abstract)        FanOut -- FanOutProofs
    OutputFiles -- OutputFilesProofs
    ConfigValidation -- ConfigValidationProofs
    S3Download --+-- S3DownloadProofs
                 \-- MCS3Download
    ClustersStatus -----\-- ClustersHTML -----+-- ClustersStatusProofs
    Sections -----------<                     \-- MCClustersStatus
    ApplicationStatus --/-- ApplicationHTML --+-- ApplicationStatusProofs
                                              \-- MCApplicationStatus

- **Report**: steps and their statuses. `AddStep` translates both `AddStep`
  methods of `report/report.go`: canceled beats failed beats passed.
- **TestCommand**: a run of `test run` or `test clean`. `pc` is the stage of the
  main goroutine, `go[t]` that of a test's goroutine, `test[t]` its `Test`,
  `wg` the `WaitGroup`; `Interrupt` is the Ctrl-C. One action per stage and one
  per operation of a test. **TestVerdict** is what a user is promised: every
  test gets a verdict once, the answer is the worst one and comes last.
- **Stages, GatherApplication, ValidateData, ValidateApplication,
  ValidateClusters, DataCommands**: the other three commands. `Stages` holds
  what they share, the next three modules the actions that differ (which error
  stops which command), `DataCommands` chooses a command and states what all
  three promise. **CommandVerdict** is the abstract command: a verdict that
  only gets worse, answered once.
- **FanOut**: the goroutines and the channel behind `gathering.Namespaces`,
  `s3.Gather` and `s3.Check`, one action per step between two synchronizations
  (spawn, work, send with its rendezvous, `Done`, close, end of range).
  **Delivery**: every result arrives once, then the delivery ends.
- **S3Download**: what one goroutine of `s3.Gather` does, which is the step
  `Work` of `FanOut` and the outcome of a profile in `Stages`. `NextPage` is one
  turn of the paginator, `GetObject` and `WriteObject` are `downloadObject`,
  `page` is the set of keys of the page that are left and `Object` the first of
  them. Keys are numbers in the order of a
  listing; `Keys` gives each its path, suffix and encoding. `Change` is the rest
  of the world writing to the bucket.
- **ConfigValidation**: `config.ReadConfig` and then `Validate` of the backend
  with the context of `ValidateConfig`. `config` is the shared configuration,
  `detected` and `probed` the locals of `detectDistro`; `Expire`, `Interrupt`
  and `ChangeClusterSet` come from outside. It is the outcome of the first stage
  in `Stages` and `TestCommand`.
- **OutputFiles**: runs one after the other, or overlapping, in one directory;
  a file is a number and an extension, with the set of runs that wrote it. A run
  may stop or die at any action.
- **ClustersStatus**: the validations of `validate clusters` on gathered data.
  A validation is a field of the report with a state; `counted` is the summary,
  `shown` is what the report keeps. Strings, certificates and secrets are
  values; sanitizing and fingerprints are modelled by what they do (equal
  values of one salt stay equal).
- **ApplicationStatus**: the validations of `validate application`: the DRPC,
  the VRGs on the clusters its action selects, PVCs, delays. Times are numbers.
- **Sections, ClustersHTML, ApplicationHTML**: what the HTML page makes of the
  `shown` validations. `Sections` is `significantState` and its fold;
  `SectionState` follows the `AggregateState` methods of the report's types,
  `SectionsOf` and `Rendered` the templates.

What was gathered is the constant `Inputs` of the last two components.
`InputsAssumption` says what the types of the gathered objects give anyway (lists,
finite sets of conditions, numbers), and that no condition has the name of a
field of the report (`Fields`), with which it shares a section: types of
conditions are capitalized, fields are not.

The MC modules define gathered data: a sound configuration and the ways it
deviates from it. They are the only modules that hold data for TLC alone.

## 3. What the runs check

| Run | Distinct states | Properties |
|---|---|---|
| `test_command` | 104,715 | `TypeOK`, `AnswerIsTrue`, `CollectedIsFinal`, `FlowExplainsVerdict`, `GatherAfterTests`, `SummaryAccounts`, `Answers`, `KeepsPromise` |
| `data_commands` | 87,235 | `TypeOK`, `AnswerIsTrue`, `NilIsComplete`, `CancelStops`, `ValidatesGathered`, `KeepsVerdict` |
| `fan_out` | all interleavings of 4 workers | `TypeOK`, `CloseIsLast`, `NothingLeaks`, `KeepsDelivery` |
| `output_files` | all starts with 2 numbers | `TypeOK`, `OutputIsOwn`, `NeverOverwrites` |
| `s3_download` | 111,340 | `TypeOK`, `NilIsComplete`, `FailuresAreLocal`, `Ends` |
| `config_validation` | 31,808 | `TypeOK`, `AllOrNothing`, `PassedMeansMembers`, `Ends` |
| `clusters_status` | 21,276 | `TypeOK`, `PassedMeansAgree`, `OnlyFaultyBlamed`, `SummaryIsShown`, `PassedMeansRead`, `IssuesAreOpen` |
| `application_status` | 11,735 | `TypeOK`, `PassedMeansStable`, `PassedMeansFresh`, `SoundHasNoIssue`, `IssuesAreOpen` |
| `output_race` | violated | `NeverOverwrites` |
| `output_glob` | violated | `NeverOverwrites` |
| `aborted_s3` | violated | `AbortSkipsValidation` |
| `repeated_profile` | violated | `NeverPanics` |

**test_command.** Three tests, three clusters, two profiles, one Ctrl-C at any
time. The command answers nil exactly when the report passed and every test
passed all of its operations; otherwise its error says what the report says.
What is collected of a test is final. Data is gathered for the failed tests only
and never when a test was canceled. From the tests step on, and in a canceled run
as well, the summary counts each test once by its verdict, a run that gave up
before counts none, and the report says the worst verdict counted
(`SummaryAccounts`). The command always answers.

**data_commands.** The three commands, each operation succeeding, failing or
canceled, results in any order. `AnswerIsTrue` and `NilIsComplete` tie answer,
report and summary; `CancelStops` says that a recorded cancellation stops the
command before any validation; `ValidatesGathered` that nothing is validated
and no HTML report written unless all clusters were gathered. `KeepsVerdict` is
the refinement of `CommandVerdict`.

**fan_out.** No send on a closed channel, no goroutine left over, each result
once, and the refinement of `Delivery`.

**output_files.** With runs that follow each other, a run never writes a file
of an earlier one, whatever files earlier runs left behind.

**s3_download.** A download that answers nil has every object on the disk that
was in the bucket all the time, on whatever page it was listed, and no torn
file. A download that fails, fails only where something failed: an object that
cannot be read, a prefix that cannot be listed or a file in the way cost no other
object. `FailuresAreLocal` names the ways to lose an object without a failed
request of its own: another key of one file name that failed (`WritersOf`), the
key of a folder whose file blocks the folder, and a file whose name is a folder
of another key (`InTheWay`). The proof showed that the file name of the whole
object is not enough for the first: an object whose read breaks off at once keeps
its suffix `.gz`, so that the torn copy of a compressed `a.gz` may overwrite the
file of another key with that path, such as the folder's key `a.gz/`, which a
complete `a` would not. The download ends.

**config_validation.** The shared configuration is the user's or what all
clusters agree on, a passive hub included, and never what the first of them has.
A configuration that passes had a cluster set that existed and, at one moment
then or later, both managed clusters in it. The set and its clusters are read in
two requests; `existed` and `met` are history variables that record what was true
on the hub, since the set may be gone at the second request, so that no moment
need have had both. The validation ends although a server may never answer.

**clusters_status, application_status.** Two directions each. What passes is
right: managed clusters agree with the hub in what their secrets and profiles
really hold, the application is on the cluster its action selects and nowhere
else, and synchronized within two intervals of its policy. What is right passes:
no cluster is blamed for another one, and what a failover leaves behind on the
old primary is not an issue. `OnlyFaultyBlamed` asks nothing of the hub but that
it has no two profiles of one name: a fault of the hub alone is never shown for
a managed cluster that is sound and has the same profiles. The properties
compare gathered values; the model, like the code, compares fingerprints, first
matches by name, counts and each VRG's own interval. `IssuesAreOpen` is about
the page a user looks at: a section is open exactly when a validation in it is
an issue, and no issue is left out. It found one exception: when the secret of a
hub profile cannot be read, the list of profiles has no state and the page
leaves out the section, with the issues of the profiles that were read.

**The four violated runs** are disagreements between the code and its own
comments or tests, described under `findings`: two overlapping runs take one
number; a directory name with a glob metacharacter hides earlier files; an S3
request cut short by Ctrl-C loses its cause and the validation goes on; a hub
configmap that lists one profile name twice makes `AddStep` panic.

### Bounds, and why they are enough

- Three tests show one that passed, one that failed and one still running at
  once; the verdict of a set depends on which statuses occur, of which there are
  three. The theorems hold for any number.
- Three clusters are what an environment has; two profiles show one that failed
  next to one that did not. Four workers in `FanOut`; the theorems hold for any
  finite set.
- Three runs after two numbers of old files: a run reads names only, and the
  largest matters only. `MaxInt = 100` is never reached, so the wrap in `Wrap`
  does not happen in these runs.
- Gathered data: each object deviates in every way the code distinguishes, on
  the hub, on a managed cluster, on both, alike or differently. Two faults in
  one object are combined only where the code combines them (the deployment and
  the configmap both tell the controller type).
- There is one Ctrl-C: a second one finds the context canceled already.
- The bucket: five keys are the fewest with a second page, a folder's key, two
  keys of one file name, a deeper one and a second prefix. The counters and the
  paginator start anew with each prefix, so two prefixes show what one leaves to
  the next. One change puts or deletes any key at any time.
- Three or four clusters of two distributions, the file with each of its errors;
  the cluster set may change at any time and any number of times.

### Deadlock and fairness

The runs set `CHECK_DEADLOCK FALSE` because a command ends. That it does end is
checked as a property (`Answers`, `NothingLeaks`, and the refinements).

`TestCommand`, `DataCommands` and `FanOut` assume weak fairness of the main
goroutine, of each worker and of the closing goroutine: the Go scheduler runs
every goroutine, and each operation returns, since requests have a timeout or
follow the context. Gathering has neither; that it ends is an assumption about
the gathering library. `S3Download` assumes it of the goroutine: each of its
requests ends, with an answer or an error. `ConfigValidation` assumes less: the
program's own steps, the timer, and that a request ends once its context is
done; a server need never answer, which is why the timeout must reach every
request. (The discovery behind the probe of a distribution takes no context: it may
still answer, or fail, when the context is done. That it ends is left to the
client library, whose discovery has a timeout of its own.) Nobody is assumed to press Ctrl-C. The other modules state no liveness
and no fairness.

## 4. What is proved

TLAPS proves, with no unproved step, for every value of the constants (the
assumptions are the named `ASSUME`s of the modules, which TLC evaluates, and two
hypotheses that the theorems state):

- `NTests \in Nat`; for the fan-out a finite set of workers; for a configuration,
  and for the clusters that are validated, that the clusters differ;
- `S3Assumption`: keys are a sequence, each with a path that is not empty and a
  prefix; there is a prefix, and pages have at least one key;
- `InputsAssumption` of `ClustersStatus` and `ApplicationStatus` (section 2):
  nothing is assumed of what the clusters say, how many profiles, policies or
  PVCs there are, or whether anything agrees;
- `Distinct`, for the data commands: finitely many profiles whose names differ
  from each other, from the clusters' and from the operations';
- `Sequential`, with `OldAssumption`, for the output files: finitely many runs
  that follow one another, in a directory whose name has no glob metacharacter,
  with numbers below the largest integer.

| Theorem | Says |
|---|---|
| `TestCommandProofs!TypesHold` | types of all variables |
| `TestCommandProofs!FlowExplains` | `FlowExplainsVerdict` |
| `TestCommandProofs!CollectedStaysFinal` | `CollectedIsFinal` |
| `TestCommandProofs!AnswersTruly` | `AnswerIsTrue` |
| `TestCommandProofs!GathersAfterTests` | `GatherAfterTests` |
| `TestCommandProofs!Consistent` | the inductive invariant itself |
| `TestCommandProofs!SummaryAccountsHolds` | `SummaryAccounts` |
| `TestCommandProofs!TypeOKHolds` | `TypeOK`, with the shape of the whole report |
| `TestCommandProofs!VerdictsPromised` | each step is a step of `TestVerdict` or a stutter |
| `DataCommandsProofs!DataTypes` | `Distinct` implies `TypeOK` |
| `DataCommandsProofs!DataAnswersTruly` | `Distinct` implies `AnswerIsTrue` |
| `DataCommandsProofs!NilStandsForAll` | `Distinct` implies `NilIsComplete` |
| `DataCommandsProofs!CancelStopsHolds` | `Distinct` implies `CancelStops` |
| `DataCommandsProofs!ValidatesGatheredHolds` | `Distinct` implies `ValidatesGathered` |
| `DataCommandsProofs!DataVerdictKept` | each step is a step of `CommandVerdict` or a stutter |
| `DataCommandsProofs!DataConsistent` | the inductive invariant itself |
| `FanOutProofs!FanOutTypes`, `ClosesLast` | `TypeOK`, `CloseIsLast` |
| `FanOutProofs!DeliversOnce` | each step is a step of `Delivery` or a stutter |
| `ConfigValidationProofs!TypesHold` | types of all variables |
| `ConfigValidationProofs!AllOrNothingHolds` | `AllOrNothing` |
| `ConfigValidationProofs!PassedMeansMembersHolds` | `PassedMeansMembers` |
| `ConfigValidationProofs!Validated` | the inductive invariant itself |
| `OutputFilesProofs!TypeOKHolds` | `Sequential` implies `TypeOK` |
| `OutputFilesProofs!OutputIsOwnHolds` | `Sequential` implies `OutputIsOwn` |
| `OutputFilesProofs!NeverOverwritesHolds` | `Sequential` implies `NeverOverwrites` |
| `S3DownloadProofs!S3Types` | `TypeOK` |
| `S3DownloadProofs!NilMissesNothing` | `NilIsComplete` |
| `S3DownloadProofs!FailuresStayLocal` | `FailuresAreLocal` |
| `S3DownloadProofs!S3Consistent` | the inductive invariant itself |
| `ClustersStatusProofs!ClustersTypes` | `TypeOK` |
| `ClustersStatusProofs!ClustersRead` | `PassedMeansRead` |
| `ClustersStatusProofs!ClustersAgree` | `PassedMeansAgree` |
| `ClustersStatusProofs!ClustersBlame` | `OnlyFaultyBlamed` |
| `ClustersStatusProofs!ClustersSummary` | `SummaryIsShown` |
| `ClustersStatusProofs!ClustersIssuesAreOpen` | `IssuesAreOpen` |
| `ClustersStatusProofs!ClustersConsistent` | what the report shows at each stage |
| `ApplicationStatusProofs!ApplicationTypes` | `TypeOK` |
| `ApplicationStatusProofs!PassedIsStable` | `PassedMeansStable` |
| `ApplicationStatusProofs!PassedIsFresh` | `PassedMeansFresh` |
| `ApplicationStatusProofs!SoundIsQuiet` | `SoundHasNoIssue` |
| `ApplicationStatusProofs!ApplicationIssuesAreOpen` | `IssuesAreOpen` |
| `ApplicationStatusProofs!ApplicationConsistent` | what the report shows at each stage |

**The argument for TestCommand.** `AnswerIsTrue` is not inductive: it says
nothing about the states before the answer. `IInv` is the conjunction of

- `TypeInv`: types, with the shape of the report's steps;
- `FlowInv`: a test's steps explain its status, at every point of its goroutine;
- `WaitInv`: `wg` is the number of goroutines that are started and not done.
  With it `wg = 0` means that no goroutine runs. This is the fact that makes
  reading tests without a lock safe;
- `PhaseInv`: behind `Wait` no goroutine is left, before `spawn` there is none;
- `CollectInv`: the tests step is the image of the tests collected so far, and
  its status is their verdict;
- `ReportInv` and `AnswerInv`: what the report must look like at each stage, and
  which stages lead to which answer.

Each part has a lemma that `Init` implies it and one that a step keeps it, with
one case per action. Lemmas on `AddStep` (`AddStatusIsVerdict`: folding statuses
in any order gives the worst one) carry the report's part.

For the summary and the refinement there are two more invariants. `SummaryInv`:
the tests step is reported once, when all tests are done; the summary is empty
before and is then the number of tests of each verdict; and a command that fails
without that step never started a test. `WorstInv`: a report with the tests step
says the worst of the verdicts, unless all tests passed and a later stage failed.
`SummaryAccounts` follows from the two. With them every step of the
command refines `TestVerdict`: a test gets its verdict where its goroutine
stops, the answer comes with `Return`, and all other steps stutter.

**The argument for DataCommands.** A stage tells its caller with a boolean, and
the report with `AddStep`; the properties say that the two agree in the end. The
invariant says what the current step holds at each stage:

- `StepsInv`: which clusters and profiles have a sub step and with which status,
  those pending none; what `finish passed` and a nil stand for (`Complete`);
- `CurrentInv`: status and error of the current step as far as each stage knows
  them; at `finish` they agree (`StepError`), also where the error stands only
  in the last sub step;
- `ReportInv`, `AnswerInv`: the report and the answer follow the current step;
- `SummaryInv`, `CancelInv`, `SecretInv`: what is validated and when, that a
  canceled sub step leaves only the ways out, and that no profile passes without
  its secret.

`SubStepAdded` is the lemma on `AddStep` all parts use: a new name changes the
statuses of that name only. It is why `Distinct` is needed, and
`repeated_profile` shows what happens without. `GetsWorse` carries the
refinement: a sub step never makes the worse of report and current step better.

**The argument for FanOut** has the same core: `wg` counts live goroutines
(`WaitInv`), a goroutine past its send has been received (`GotInv`), and the
channel is closed only when no goroutine is live (`CloserInv`).

**The argument for OutputFiles.** The numbers in use are at most `Old` plus the
number of runs that started (`TypeInv`), so that the largest one exists
(`MaxOfBounded`) and the next one does not wrap. The number a run picks is above
all others until it opens its log (`FreshInv`), because no other run is active
(`OneInv`); from then on all files with that number are its own (`OwnInv`). The
runs `output_race` and `output_glob` show that the hypotheses are needed.

**The argument for ConfigValidation.** While clusters are probed, those that
were probed all have the distribution detected and the configuration has none
(`ProbeInv`). The configuration is set behind the last cluster, so that it is the
distribution of all of them (`ConfigInv`), and no later step changes it. `MetInv`:
clusters are listed only behind a request that found the set, and what is
true of it now is recorded, whatever happens to the cluster set. The proof
does not use how many clusters there are, only that there is one.

**The argument for S3Download.** `NilIsComplete` speaks of the end; the invariant
says what the download owes at any time. An object is `Visited` when its prefix is
done, or when its key is at most `last` and no longer on the page; it is `Steady`
when the world neither put nor deleted it.

- `LoopInv`: when there are no more pages, no steady object of the prefix is
  behind `last`; it is about whole pages, so that neither their size nor what
  changes between two of them matters (`PageIsFirst`, `PageListed`);
- `CountInv`: `total` and what is left of the page are at most the keys listed;
- `DiskInv`: files and directories come from objects that existed, and no file
  is where a directory is;
- `CleanInv`: while nothing failed, every steady object that was visited is on
  the disk and no file is torn. `NilIsComplete` is this at the end;
- `LocalInv`: a steady object that was visited is on the disk or `Excused` by
  what failed or by a key in its way. `FailuresAreLocal` is this at the end.

The core is `FileWritten`: a write that is not blocked leaves every other
file as it was, and its own one whole; and `BlockedIsInTheWay`: a write that
is blocked is blocked by an object that existed.

**The argument for ClustersStatus and ApplicationStatus.** Parts are validated
in one order, so that what the report shows in front of each of them is a
function of the gathered data (`StageInv`, with the managed clusters of the loop
as `Upto(k)` and `Done(k)`). Everything else are facts about that function, one
lemma for each kind of object, in three groups:

- *Shape.* Which fields an object gets, and that each has one state
  (`ListShape`, `ProfileShape`, `RamenShape`; `DRPCShape`, `VRGShape`,
  `PVCShape`). From it `TypeOK`, and `SummaryIsShown` through `CountInv`: each
  part is finite and disjoint from what is shown, so that counting it adds what
  is added, except in the part that fails, which is counted and dropped.
- *Meaning.* A passed validation read every object (`PassedIsOk`); two profiles
  that are shown as ok have equal strings, certificates and keys (`SameKeys`,
  `SameCertificates`: equal fingerprints of one salt are equal values); the
  lookup by name finds the first profile of that name (`LookupFirst`). The code
  compares the number of profiles and looks up each one of the managed cluster
  on the hub. That no profile of the hub is missing needs a counting argument:
  where the managed names differ, the lookup is an injection between lists of
  one length, and so it is onto (`AllProfilesAgree`). The other direction shows
  for each field why a sound object has no issue there (`SoundProfileInOrder`,
  `SoundVRG`, `SoundDRPC`).
- *The page.* The state of a section is a fold over a set of states in an order
  that the code leaves open. By well-founded induction on subsets the fold
  yields the most significant one whatever the order (`AggregateIsWorst`), so
  that a section is an issue exactly when one of its validations is
  (`AggregateIssue`). `ProfilesListed` is the exception for a hub profile
  without a secret.

Only model-checked: liveness (`Answers`, both `Ends`, the end in `NothingLeaks`)
and the fairness part of the three refinements `KeepsPromise`, `KeepsVerdict` and
`KeepsDelivery`, which are out of the prover's reach; their steps are proved.
The two fold lemmas stand in both proof modules of the validations.

## 5. What is not modelled

- Parsing, wording and layout: `console/`, the text of HTML and YAML, the sample
  file and the environment file of `config/`.
- Equality of reports, which only tests use.
- What one gathering does inside, and what the e2e library does inside an
  operation of a test: each is one outcome. So are the parts of `S3Download` and
  `ConfigValidation` in the models of the commands, where only their outcomes
  matter; composing them would multiply the states and show nothing new.
- In `S3Download`: retries inside the SDK, an object that is overwritten while it
  is downloaded (a put of a key that is there changes nothing), and which of two
  objects of one file survives. Profiles have directories of their own.
- In `ConfigValidation`: a second file or a change of the file, and the DRPC that
  gives an application's namespaces.
- In `ClustersStatus`, the secrets of the live hub, with which S3 is accessed: the
  outcome of the S3 check is part of the data, unrelated to the gathered secrets.
- A Ctrl-C during a gathering, which takes no context, is not recorded by it. What
  follows depends on the answers of later requests, all of which are allowed.
- The clusters themselves. Gathered objects may be combined in any way, since
  nothing makes the three gatherings one snapshot.
- In `ClustersStatus`, the case of a hub that repeats a profile name: the
  command has panicked before (`repeated_profile`). A managed configmap that
  repeats one hides a missing profile, which `PassedMeansAgree` says.
- In `ApplicationStatus`, a delay that cannot be judged (no cluster time, or no
  interval) has no state; `PassedMeansFresh` leaves these cases out by `Late`.

## 6. Plan

Written so far: all components of section 2, with a proof of every safety
property their runs check. Next:

1. The links between the modules: that the outcome of `S3Download` is the one
   `Stages` gives a profile, that of `ConfigValidation` the one of the first
   stage, and that of a validation the summary of `ValidateData`.
2. For `OutputFiles`, what is left of `OutputIsOwn` when runs overlap: that only
   runs which look for a number at the same time can share one.
3. The lemmas on the fold of states stand twice, in `ClustersStatusProofs` and
   `ApplicationStatusProofs`; stated about `Sections` for any set of states they
   would serve both.
