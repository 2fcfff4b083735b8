# A TLA+ verification of devflow-k8s-deploy

`devflow-k8s-deploy` turns a JVM, Go or Python project into a Dockerfile and
Kubernetes manifests, checks what it generated and publishes it in an output
directory. This directory holds TLA+ models of it, TLC runs that check them on
small instances, and TLAPS proofs for all instances. Paths of the form
`atomic_writer.py:168` are relative to `scripts/` of the repository.

## 1. The system

A command line run is one operating-system process and one thread.
`main` builds the components, `SkillPipeline.run` drives five steps:

| Step | Code | What happens |
|---|---|---|
| setup | `orchestrator.py:899` | the configuration is loaded, the components are built |
| 1 | `:445` | inputs: from the configuration on the command line, by prompts for an embedding caller |
| 2 | `:639` | the project is analysed: stack, module, statefulness |
| 3 | `:652` | Dockerfile and manifests are generated into a staging directory |
| 4 | `:775` | the gate: validator, kubectl dry run, optional container build, each in a retry loop |
| 5 | `:868` | `summary.json` and `rationale.md` are written; the staging directory is committed |

Steps 3 to 5 run inside `with AtomicWriter(...)`. What makes the program hard is
not inside one run but around it: several runs (CI jobs, a user at a terminal)
may use one output directory; a signal or a kill may strike anywhere; and a
failed run has to leave evidence without disturbing what was there.

### Inventory

| Component | State | Operations | Interacts through | Hard behaviour | What makes it correct |
|---|---|---|---|---|---|
| AtomicWriter (`atomic_writer.py`) | staging directory, flags `_committed`, `_bailed_out`, previous signal handlers | enter, commit, bailout_commit, exit, signal handler, orphan collection | the parent directory, shared with other runs | races between runs, signals, crashes, failing calls | published results are whole and attributed to one run; nothing is left behind or taken away |
| Retry loop (`_shared/retry.py`, `pipeline/retry_loop.py`) | attempt number, attempt log | retry_with_fix and its three callers | callbacks: operation, success predicate, fix | exceptions, limits, a fix that did nothing | retries follow fixes; the verdict is the last attempt's |
| Orchestrator (`pipeline/orchestrator.py`) | step, results of the checks | run, main | all the others | what is published when something fails | gate before publication; exit code agrees with the files |
| STEP 4 adapters (`kubectl_dry_runner.py`, `pipeline/build_runner.py`) | none | dry_run, build | subprocesses | missing tools, time limits | a skip is told; everything ends |
| OutputPackager (`output_packager.py`) | files in staging | write, write_troubleshoot | staging directory | order with respect to the rename | the files tell what happened |
| ConfigLoader (`config_loader.py`) | layers, merged dict, source map | load, resolve_namespace, stack_decision, resolve_stack_config, resolve_cluster_config | configuration files, read twice per run | partial sections, plain values in place of sections, blank overrides, unusable files | the value used is the one the layers' order gives, and its source is named |
| ProjectAnalyzer, stacks (`project_analyzer.py`, `stacks/`) | detection gaps | detect, select a module, plan build and probes | project files, the prompt for a module | detection order, fallback after a failure, several modules, several commands | what is chosen is asked for or unambiguous, and what was passed over is told |
| ManifestGenerator (`manifest_generator.py`), templates | none | generate_deployment, -_statefulset, -_service, -_serviceaccount, -_networkpolicy | inputs, analysis, configuration | documents rendered one by one from their own arguments | ports, names, mounts and volumes agree; what it writes passes the validator |
| Validators (`validators/`, `validate_k8s.py`) | rule registry | validate, exit code | the manifests' files: the run's, or edited ones | pod and container settings that override each other, files that do not parse | a verdict without FAIL means hardened workloads |
| Rendering, `_shared/` text helpers | none | pure functions | - | normalisation of text | - |
| Help catalogue, messages | none | look-ups | prompts | - | - |

`PROJECT.json` lists the hazards of this code, each at its line, with the
properties that cover it or the reason why none does.

## 2. The modules

There are two stories of one run. `Pipeline` tells its control: outcomes, retries,
signals, rivals, with the files as opaque contents. `Generation` tells its data:
what is read, decided, written and validated, with one run undisturbed. Each step
of the code is in the one where its effect can be seen.

| Module | Models | Notes |
|---|---|---|
| `AtomicWriter` | `atomic_writer.py`, n processes | the detailed specification |
| `OutputDir` | - | what readers and callers may rely on: the abstract specification of the writer |
| `RetryLoop` | `_shared/retry.py`, predicates of `pipeline/retry_loop.py` | |
| `Pipeline` | `main`, `run`, the gate, the adapters' outcomes, the packager's order | composes `AtomicWriter` and `RetryLoop` |
| `Release` | - | what the caller of one run may rely on: the abstract specification of the pipeline |
| `Vocabulary` | what the patterns of `_shared/` let pass | sets of strings as constants |
| `ConfigLoader` | `config_loader.py` | operators on documents |
| `Stacks` | `stacks/jvm.py`, `go.py`, `python.py` | operators on directories |
| `ProjectAnalyzer` | `project_analyzer.py`, `stacks/__init__.py` | extends `Stacks` and `ConfigLoader` |
| `Manifests` | `manifest_generator.py` and the templates' fields | refusals and documents |
| `Validators` | `validators/` | rules, report, exit code |
| `Generation` | the data of `main`, `run` and its five steps, `validate_k8s.py` | one action per step; composes the five above |
| `MCAtomicWriter`, `MCGeneration` | - | symmetry; the files, projects and users TLC tries |
| `AtomicWriter_proofs`, `AtomicWriter_refinement`, `RetryLoop_proofs`, `Pipeline_proofs`, `Pipeline_refinement`, `ConfigLoader_proofs`, `Generation_proofs`, `Generation_data_proofs` | - | theorems and proofs |

### AtomicWriter

A step is what runs between two points at which another process or a signal
handler can intervene: one file system call, one `signal.signal`, one flag
assignment. `pc[w]` is where process `w` is; its labels are the calls.

| Variable | In the code |
|---|---|
| `entry` | the directory entries `{output_dir}`, `{output_dir}-{minute}[-n]`, `{output_dir}-failed-{minute}[-n]`: what they hold and which run wrote it |
| `staging` | what `.tmp-{uuid}` of each process holds |
| `aged` | staging directories with an mtime seven days old |
| `mode` | `on_exists`; `no_callback` is `prompt` with `prompt_callback=None` |
| `target` | `candidate`, then `final_path` |
| `victim` | whose directory an `rmtree` has opened |
| `collect` | what `_gc_orphans` still has to remove |
| `exc` | the exception that is propagating |
| `handlers`, `committed`, `bailedOut` | the installed handlers and the two flags |

`Enter`, `Commit`, `BailoutCommit` and `Leave` group the actions of the method of
that name; `Body` is what `run` does inside the block, and in addition leaving
it without a commit, which the class allows. `rmtree` of `output_dir` is three
steps (opened, emptied, removed) because a rival may rename onto the empty
directory in between. `os.replace` renames onto nothing or onto an empty
directory, as rename(2) does. The environment can signal a process anywhere
(the handler runs where the process is, and `AfterSignal` says which `except`
and `finally` clauses its `SystemExit` meets), kill it, age what it left behind
and advance the clock.

### OutputDir

Runs publish at most one whole result each, under a name that was free or that
an overwrite is clearing; they report success or a bail-out only after that.
`ImplementsOutputDir` states that `AtomicWriter` implements it: `Shown` maps a
half-removed directory to "removing", `StatusOf` maps labels, flags and
exceptions to what a caller can tell.

### RetryLoop

One action per branch point: `Operate` (the operation and the predicate),
`TryFix` (the fix and its answer). An outcome keeps what the callers
distinguish: ok, warn (exit code 2 counts as success), skipped (a missing tool
counts as success), failed, error (an exception), abort (`UserAbort`, not
caught).

### Pipeline

`Self` is the run of `main`; other members of `Writers` are other runs on the
same directory, as `AtomicWriter` processes. `Writer!WriteFiles`, `CallCommit`,
`BodyBailsOut` and `BodyRaises` are conjoined with the pipeline's steps, so the
composition decides when the writer's body moves. The fix of every check is the
stub of `orchestrator.py:277-300`, whose only answer is `not_applied`. `engine`
stands for the build section: `known` and `unlimited` (no time limit) run a
build, `unknown` is a name that is not in the allowed list, for which `main`
gives the runner `skip` while the gate still asks for a build.

### Release

One run, seen by whoever called it: the requested checks are let through one
after the other or one gives up; a result is shown after the last, evidence
after one gave up; then the exit code. Writer, staging directory, retries and
rivals are hidden; what is left of a rival is that it may overwrite the result.
`ImplementsRelease` states that `Pipeline` implements it: `Seen` is what the
parent directory holds of this run, `RunStatus` what its labels and exceptions
come to.

### ConfigLoader

A YAML document is a function from the paths of its keys to nodes (a kind, what
`str()` makes of it, what `int()` makes of it); the root is the path `<<>>`. The
recursive `_deep_merge` becomes one definition without recursion: a path of the
lower layer survives unless the upper one has put something other than a dict at
or above it. `HighestLayerWins` says independently what the merge of three layers
must give at every path, and which layer the source map may name. A layer's file
is absent, usable, malformed, too large or unreadable, and may be a link inside
or out of the project. The namespace is looked up in the layers' own files, not in
the merge, as in `config_loader.py:145`.

### Stacks and ProjectAnalyzer

A project is described by what the code's patterns find in its files: for the JVM
the build files in their order with the version, the frameworks and dependencies
they mention, and the application files with their ports; for Go `go.mod`, the
root's `main.go` and the commands; for Python the manifests' core and optional
dependencies, `uv.lock` and the files an entrypoint may be in. On these records
`detect`, `build_plan`, `probe_plan`, `defaults` and `dockerfile_context` are
translated with their orders and exceptions. `ProjectAnalyzer` has the stages of
`analyze`: the first stack that matches, the failures that let the next one be
tried, the modules of a settings file, detecting again in the module, statefulness,
and the configuration's overrides.

### Manifests and Validators

A manifest is a record of the fields that the validator, or another manifest,
reads. Each generator has an operator for what it refuses and one for the document
it renders. `Validators` has every rule of `validators/rules/` on these fields, the
report as the set of rule and level, and the exit code. Messages, counts and
`initContainers` are left out.

### Generation

| Actions | Code |
|---|---|
| `LoadForRunner` | `_build_default_dependencies`: the first load, for the build runner |
| `EditConfig` | somebody saves the project's configuration before the second load |
| `CollectInputs` | the second load and STEP 1, with a prompt callback or without |
| `ChooseStack`, `ChooseModule`, `SingleModule`, `MakePlan` | STEP 2 |
| `WriteDockerfile`, `WriteWorkload`, `WriteService`, `WriteServiceAccount`, `WriteNetworkPolicy` | STEP 3 |
| `ValidateFiles`, `BuildImage` | STEP 4, and the publication of STEP 5 |
| `EditManifests`, `AuditManifests` | the user edits the published files and runs `validate_k8s.py` |

`main` gives neither prompt a callback, so the command line's runs are those with
`replies = Unasked` and the answer `Nobody`; the others are those of an embedding
caller. `answer` records what the prompt for the module returned: a chosen
module has to be the one it names, or the gaps have to name the module taken
(`ModuleIsAskedOrTold`). `BuildImage` stands for a gate that asks the runner's engine as it was
configured at the first load.

## 3. The runs

| Run | Checks | Instance |
|---|---|---|
| `writer_race` | types, no leftovers, live staging kept, published results whole, commit publishes, evidence kept, distinct results, handlers restored, a run gives up only when the names are taken, only overwrites destroy, runs count down | 2 processes, every pair of modes, cap 3, 2 minutes, 0 or 1 slots taken before, failing enter, rmtree, replace: 2,663,530 distinct states |
| `writer_promise` | refinement of `OutputDir`, termination, orphans reclaimed | 2 processes in `prompt` mode, cap 3, 1 slot taken, failing replace |
| `retry_loop` | types, retries follow fixes, verdict earned, attempts run out | 4 attempts |
| `pipeline` | types, gate before publication, exit code, skips told, evidence explains, the refinement of `Release`, the run counts down, the run ends | one run and one rival, modes overwrite and suffix, cap 2, failing replace: 1,899,088 distinct states |
| `generate` | types; precedence of the layers, warnings for unusable files, answers kept, build only if both loads ask; gaps told of fallbacks and modules, Go commands never guessed, StatefulSets by evidence; ports, names, mounts agree; valid tags at the gate, generated files pass, no run all clear; audits sound, ports not compared; started servers declared | 11 project files x 4 organisation files x 17 projects x 3 directory names x 4 users x 6 answers about the module, one edit of the configuration, two of the manifests: 698,641 distinct states |
| `overwrite_interrupted` | violated: an interrupted overwrite leaves neither result | 1 process |
| `slot_cap` | violated: the scan aborts with a name under its cap free | 1 process, cap 4 |
| `enter_signal` | violated: a signal between the two registrations leaves a handler behind | 1 process |
| `stale_summary` | violated: the CI script reads an earlier run's summary | one run |
| `volume_names` | violated: a volume of a Python workload is named `app-.cache` | as `generate`, no edits |
| `inferred_port` | violated: the port of a Spring project is in its application file, container and Service have 8080 | as `generate`, no edits |
| `documented_call` | violated: `--project-dir .` without a namespace fails | as `generate`, no edits |

Bounds. Two processes show every pairwise race: each shared entry is written by
a rename or an `rmtree`, and no property mentions more than the process that
lost a directory and the one that took it; the proofs are for any number. Cap 3
gives a scan that finds its first, its second and no name; the code's 100 only
lengthens it. One minute tick separates a candidate computed before from an
entry taken after. `prompt` mode includes the branches of `overwrite`, `suffix`
and cancellation, so `writer_promise` needs no other. `pipeline` leaves out
`no_callback`, whose only effect is one more abort, as a full set of suffixes
gives. There the clock stands still: the minute matters to the writer alone, whose
own runs move it. The rival can be anywhere but is not interrupted itself, which
`writer_race` covers. `"cleanup"` among `Faults` (an `rmtree` of a staging directory
that silently fails) is left to the proofs; `NoLeftovers` excludes it.

In `generate` the instances are states of files, so each is there for a branch: the
configuration files are absent, unusable in each way, partial, blank, and with a
plain value where another layer has a section; one refuses a timeout, one the
replicas, one the stack, one the image, the probe path and the Go entrypoint, one
the storage class and the peers. The projects take each way through
detection: each framework and version rule, a broken file with and without a later
stack, directories that cannot be listed, one, several and no commands, four ways
of installing Python dependencies, and a multi-module build whose settings name
modules outside, absolute, nested and broken. Three projects make detection raise what it
does not declare: a `pom.xml` with entities, which the parser forbids, a `cmd/` that
cannot be listed, a poetry section that is no table. Of the users one
is not asked; the others give usable texts (a port that differs from the configured ones
among them), blank ones, and a word or a value that is no text where a number is asked,
at once or after asking for help. `EditConfig` replaces any
project file by any other. Two edits are needed for the overriding of pod by container
settings, which `AuditSound` is about, and no rule relates three fields; the eight
edits cover a field of each rule's kind. `MaxModules` is 4 where the code has
`_MAX_MODULES`, so that a settings file reaches it. Strings are in
`Vocabulary`'s sets or not; one of each side is enough for a membership test.

Deadlock is not checked: every run comes to rest when its processes are gone, or
when the audit is done.

Fairness. A running process keeps running: `WF_vars(Run(w))` per process, as the
operating system schedules it. A user's answer, signals, crashes, time and ageing are
never promised; that is why `Terminates` stops at a prompt. In `Pipeline` a single fairness
condition on the run's steps leaves out the one that may really never come: a
build whose `build_timeout_seconds` is 0 (`build_runner.py:208`). Every other
external call has a time limit or works on local files. `Generation` has no
fairness: all its properties are safety.

Assumptions. One `AtomicWriter` per process, which its docstring demands. uuid4
names do not collide. A run lasts less than seven days: the orphan collection
of another run would take the staging directory of an older one. Files and
directories are on one POSIX file system. Nobody else renames or removes the
entries modelled.

## 4. What the documentation says and the code does not do

Seven runs are expected to be violated; each finding in `PROJECT.json` quotes the
line. Three concern the writer (the previous state of `output_dir` is not kept
by an overwrite; the cap of 100 is off by one; `__enter__` does not restore the
handlers in every case), one the pipeline (the summary
that the README's CI script reads), three the data: a volume's name is said to be a
DNS-1123 label and is `app-.cache` for the Python stack
(`manifest_generator.py:62`); a container port that is not configured is said to be
inferred from `application.yml` (`.devflow-k8s-deploy.yml.sample:17`) and is 8080,
while the probes ask the inferred one (`orchestrator.py:471`, `stacks/jvm.py:220`);
and the documented call with `--project-dir .` has no
namespace when no configuration file sets one, since the name of `.` is empty
(`config_loader.py:186`).

Noted while modelling, without a run of their own:

- `troubleshoot.md` says "failed after 3 attempts" (`orchestrator.py:802`, `:820`,
  `:859`) where one was made, as no fix function applies anything; the list of
  attempts in it is right (`EvidenceExplains`);
- the sections `image`, `resources` and `service` and the key `app.module` of the
  sample configuration (`README.md:127-169`) are read by nothing. In particular
  `service.port: 80` has no effect: the Service's port is the container's
  (`PortsAgree`); `kubectl.dry_run` and `base_images` of
  `.devflow-k8s-deploy.yml.sample` are read by nothing either, nor is the
  `SERVER_PORT` of `SKILL.md:128`;
- detection raises exceptions its docstrings do not declare: python's says
  "Raises: none" (`stacks/python.py:540`), and an unlistable directory and a poetry section
  that is no table end the run; so does a `pom.xml` with entities, which the JVM's
  `except ParseError` (`stacks/jvm.py:508`) does not catch;
- the help text's `if [ $? -le 2 ]` treats exit code 1 as a pass
  (`orchestrator.py:1014`);
- exit code 0, "all passed", is never returned: no template sets a grace period and
  LIFE-W01 warns (`NeverAllClear`);
- the gate's skip of a build for an invalid tag (`orchestrator.py:834`) cannot be
  reached, STEP 3 has refused the tag (`TagIsValidAtTheGate`);
- an image with a digest and no tag is let into the files and then fails the run by
  IMG-001 (the exception in `GeneratedPasses`);
- a StatefulSet lacks the JVM's `/var/log`, which `README.md:108-116` shows as
  mounted (`MountsHaveVolumes` asks it of a Deployment only);
- SVC-002 has nothing to compare, as each document is in a file of its own
  (`PortsAreNotCompared`);
- a `uv.lock` without `pyproject.toml` keeps `requirements.txt` from being read
  while the server it declares is started (the exception in
  `StartedServerIsDeclared`).

## 5. What is proved

All proofs are for arbitrary constants that satisfy the named assumptions of the
modules; TLC evaluates these on each run.

**AtomicWriter.** The safety properties are not inductive: that a published
directory is whole depends on what is staged when the rename happens, that
depends on where the process is and on nobody having removed its staging
directory, and that on orphan collection only touching ended processes. `IInv`
collects these: `AgedInv` (only ended processes' directories are collected),
`HandlerInv`, `StagingInv` (the label tells whether a staging directory exists),
`AimInv` (what is staged and the kind of its target), `OwnerInv`, `ResultInv` (a
result in place stays, or was overwritten at `output_dir`) and
`PublishedIsWhole` itself. One lemma per conjunct shows that every action
preserves it; `EntryChanges` reduces the actions to the ways in which a
directory entry can change. The theorems follow: type correctness, every
invariant of `writer_race`, and `OnlyOverwriteDestroys` for every step.

Two more are about the scan for a free name, whose probes of several runs
interleave. `NamesAreInOrder`: the names of a kind and a minute are numbered without
a gap. `GivingUpIsEarned` (`GivesUpWhenFull`): a run that ends for want of a name has
found all of them taken, but for the last one under the cap, which the code
never tries. Neither is inductive; `ScanInv` adds that all names below the one a run
is looking at are taken (`Below`), which holds on because nothing ever removes a
suffixed directory (`SlotsStay`).

**RetryLoop.** `LoopInv` relates the log's length to the attempt and the phase;
type correctness, `RetriesAreFixed`, `VerdictIsEarned` and `AttemptsRunOut` follow.

**Pipeline.** `UsesWriter` and `UsesLoop`: every behaviour of the pipeline is,
its other variables hidden, a behaviour of the component as specified, so the
components' theorems apply to it. `GateHolds`: no result is published unless
every requested check let it through, for any rivals, modes, engines and
faults. Its invariant `GateInv` says which checks lie behind each step, that the
staging directory is complete only past the gate, and that the tag is valid from
STEP 4 on (otherwise a requested build would be skipped silently); `Harmless` is
what any other step, of this process or another, may do to it.

`PipelineTypes`, `ExitCodeIsTrue`, `SkipsAreTold` and `EvidenceIsExplained` are the
other invariants of the run. `SelfInv` is about its own writer: no exception,
result or flag before the rename, a commit behind every exit without an exception,
and evidence only on the way through `bailout_commit`. `TaleInv` is about its
story: evidence is explained by `troubleshoot.md` and the one attempt it tells
(`OnceInv`: no fix is ever applied, so the loop logs once), a result by `summary.json`, no
check runs after the one that gave up, and the exit code is decided when nothing of
the run moves any more. The types of the writer's and the loop's variables come
from the instances of their proof modules.

**The refinement.** `WriterImplementsOutputDir`: `Spec => ImplementsOutputDir`, for
any number of runs, caps, modes and faults. `QuietInv` (no exception before a
process leaves) makes a process before its rename count as running;
`StatusAdvances` shows that every step but the two renames leaves `StatusOf` or
advances it in one of three ways, and one lemma each maps the steps on the
directory: opening `output_dir`, removing it, and renaming onto a name that
`PublishedIsWhole` and `CanReplace` say is free.

`RunImplementsRelease`: `Spec => ImplementsRelease`, for any rivals, engines, modes,
faults and caps. Three invariants are added to those of the run: `WayInv`
(`troubleshoot.md` exists exactly on the way out through `bailout_commit`, and what
`commit` is about to rename is complete and aimed at a result's name), `OutcomeInv`
(the loop holds an answer of the check it runs), and `KnownInv`, their conjunction
with `TypeOK`, `GateInv`, `SelfInv`, `TaleInv` and `ReturnInv`. `OwnMoves` says how
`RunStatus` moves and `OwnShows`, `RivalShows` how `Seen` does; the renames,
`PassCheck`, `BailOut`, `EarlyError` and `Return` each map to a step of `Release`,
everything else to a status change or to none.

Composition. `PipelineImplementsOutputDir` and `PipelineKeepsWritersPromises` carry
the writer's refinement and its seven safety properties over to the writers as the
pipeline drives them: `UsesProvedWriter` shows that each behaviour of the pipeline
is one of the instance of `AtomicWriter_refinement`, and `SamePromise` and
`SameProperties` that this instance and `Pipeline`'s `Writer` say the same.

**Counting down.** Termination needs fairness and `ENABLED`; the part of it that is
about the code can be proved: that a run cannot go round in circles.
`RunsCountDown` (`CountsDown`): every call of a writer, every signal and every crash
takes it to a label of lower `Rank`, or lowers `Left`, the work at its label (names
to try, files to write, directories to collect; finite, as only processes that
have died leave directories, `FiniteInv`), and `OthersStay` shows that no rival,
orphan collection or clock raises either. `LoopAttemptsRunOut` (`AttemptsRunOut`):
a call of the loop makes at most 2 * `MaxAttempts` steps. `PipelineCountsDown`
(`RunCountsDown`) puts them together in a measure of five parts, compared from the
left: whether the exit code is open, the writer's `Rank`, the step, the loop's
`Remaining` and the writer's `Left`; each step lowers the first part it touches. A
check whose process does not return is outside of it, since nothing steps then:
`Ends` is about that.

**ConfigLoader.** `MergeIsDocument` (a dict stands above each key),
`ThreeLayers` and `LoadPrecedence`: whatever the three documents are, `load`
gives each path the value of the highest layer that decides it. The merge being
one definition on paths, no induction is needed.

**Generation.** Every passing invariant holds for all files, projects,
users and edits. Each is carried by an invariant that ties a variable to the
operators and the inputs it was computed from:

| Invariant | Says | Theorems |
|---|---|---|
| `ConfigInv` | `config` is a load of an organisation's and a project's file, of the present ones once the inputs are collected; the engine is the first load's | `SettingsHavePrecedence`, `UnusableIsWarned` |
| `RunInv`, `RestInv` | step, error and exit code belong together; flags and counters have their types | `TypesHold` |
| `AnsweredInv` | `inputs` are those of `config` and `replies` | `AnswersHold` |
| `AcceptedInv` | once a workload is written its generator has not refused inputs and image; what is built was asked for | `GateSeesValidTags`, `BuildsAreAskedFor` |
| `ChoiceInv` | `choice` is what the registry's order gives for the root | `FallbackIsTold` |
| `DirsInv` | the second directory is a listed module inside the project, the one that `answer` names, or named in the gaps when it names none | `ModuleIsExplained` |
| `PlanInv`, `DetectionInv` | `analysis` is the plan for what was detected, and that is what the directory `Source` holds | `GoIsNeverGuessed`, with `FilesInv` also `StatefulNeedsEvidence` and `PortsAreTheSame` |
| `FilesInv`, `DockerInv` | the files are the generators' documents for these inputs and this analysis | `FilesAgreeOnNames`, `MountsAreBacked`, `ServerIsDeclared` |
| `ReportInv`, `AuditInv`, `InputsInv`, `ErrorInv` | the gate's report has no failure but IMG-001 and always a warning; an audit is of the files as they are | `GeneratedFilesPass`, `RunsAreNeverAllClear`, `AuditIsSound` |

`AuditIsSound` does not need to know the edits: it is a property of the rules, for
any documents. `PortsStayUncompared` (`PortsAreNotCompared`) is about what edits
cannot bring about: each of the five kinds of edit changes a document or breaks a
file, none adds a document to one. `SingleInv` keeps one document in each file through
any number of edits, so a Service never meets its workload. `GeneratedFilesPass` goes through every
rule for every document. Three properties are conjunctions of parts that have theorems
of their own: `FilesAgree` (`FilesAreOneSet`), `GateVerdict` (`GateWarnsAtMost`) and
`GapsAreTold` (`GapsTellAll`).

Assumptions. Besides the constants' ranges: `_sanitize_dns1123_label` yields a
label and leaves labels alone (`LabelOfAssumption`); configuration files hold YAML
documents (`DocumentsAssumption`); directories have finitely many commands and
their lists are indexed by numbers (`ProjectsAssumption`); a label followed by
`-sa` is not the empty string (`SuffixAssumption`; strings are not taken apart);
the marker for an ambiguous Go program is no entrypoint (`AmbiguousAssumption`);
the built-in defaults are a document (`BuiltinAssumption`, evaluated by TLC); an
edit is of one of the five kinds that `EditManifests` knows (`EditsAssumption`). `Pipeline`
repeats those of the modules it instantiates.

Model-checked only: the liveness properties (`Terminates`, `OrphanReclaimed`,
`Ends`), which need fairness and `ENABLED` and are beyond the prover;
the count-down theorems leave them the question whether a run is always
scheduled and always has a step. And the violated properties.

## 6. Not modelled

- The text of Dockerfiles, manifests, reports and rationales, and its
  normalisation: no state, and a golden-file test compares it better. What a
  Dockerfile exposes, installs and starts is modelled.
- The patterns that read project files and check strings, and the parsing of
  YAML, XML and TOML: what they find is part of a project's description. A model
  would repeat the regular expressions character by character.
- Language versions and base images: tables from a version to an image name that
  no other decision reads.
- The command lines and output of kubectl and the container tools: their
  outcomes are modelled, with any failure possibly taken for a skip
  (`kubectl_dry_runner.py:132`), so no property depends on the text.
- `initContainers`, which the templates do not render; an audit of a file in
  which a user added some would need them.
- The prompts for the output directory, help catalogue, messages, redaction of secrets in
  logs, argument parsing: constant look-ups and formatting.
- Runs of more than seven days, whose staging directory another run would
  collect: `Age` touches ended processes only.

## 7. Running it

    tlc -workers 2 -config writer_race.cfg MCAtomicWriter
    tlc -workers 2 -config pipeline.cfg Pipeline
    tlc -workers 2 -config generate.cfg MCGeneration
    tlapm AtomicWriter_refinement.tla
    tlapm Pipeline_proofs.tla
    tlapm Pipeline_refinement.tla
    tlapm Generation_data_proofs.tla

Each proof module proves its own theorems and cites those of the modules it
extends, so all eight have to be run for the whole.
