--------------------------- MODULE ProjectAnalyzer ---------------------------
(***************************************************************************)
(* scripts/project_analyzer.py: which stack, which module, what state, and *)
(* the plans of the stack with the configuration's overrides.              *)
(*                                                                         *)
(* A project is [root, settings]: its root directory, and what its         *)
(* settings.gradle.kts, settings.gradle and pom.xml list as modules (empty *)
(* for a file that is absent, unreadable or malformed).  A module listed   *)
(* is [absolute, colons, name, inside, dir]: its name as the sequence of   *)
(* segments after leading colons, whether the directory stays in the       *)
(* project, and what is in it.                                             *)
(***************************************************************************)
EXTENDS ConfigLoader, Stacks

CONSTANT MaxModules   \* _MAX_MODULES

ASSUME MaxModulesAssumption == MaxModules \in Nat \ {0}

None == "none"   \* no error

-----------------------------------------------------------------------------
(* The stack.                                                              *)

\* Mutant of FallsBack: a directory that cannot be listed is passed over.
FallsBackOnAny == {"JvmDetectionError", "GoDetectionError", "OSError"}

\* The exceptions of detect() that fall back to the next stack.
FallsBack == {"JvmDetectionError", "GoDetectionError"}

\* The first stack of the registry that is found, or that fails otherwise.
Deciding(dir) ==
  {i \in DOMAIN StackRegistry :
     Detect(StackRegistry[i], dir).outcome \notin {"none"} \cup FallsBack}

DetectStack(dir) ==
  LET deciding == Deciding(dir)
      last == IF deciding = {} THEN Len(StackRegistry) ELSE Least(deciding)
      stack == StackRegistry[last]
      tried == Detect(stack, dir)
  IN  [error |-> IF tried.outcome = "found" THEN None
                 ELSE IF deciding = {} THEN "UnknownStackError"
                 ELSE tried.outcome,
       stack |-> stack,
       detected |-> tried.result,
       gaps |-> {<<"stack", StackRegistry[i]>> :
                   i \in {j \in 1 .. last :
                            Detect(StackRegistry[j], dir).outcome \in FallsBack}}]

ForcedStack(dir, stack) ==
  LET tried == Detect(stack, dir) IN
  [error |-> CASE tried.outcome = "found" -> None
               [] tried.outcome = "none" -> "UnknownStackError"
               [] OTHER -> tried.outcome,
   stack |-> stack, detected |-> tried.result, gaps |-> {}]

SelectStack(dir, decision) ==
  CASE decision = Unsupported ->
         [error |-> "UnsupportedStackError", stack |-> "jvm",
          detected |-> Without("none").result, gaps |-> {}]
    [] decision = "auto" -> DetectStack(dir)
    [] OTHER -> ForcedStack(dir, decision)

-----------------------------------------------------------------------------
(* The module.                                                             *)

\* ":api" is "api"; a nested ":a:b", an absolute path and ".." are refused.
ValidModuleName(m) ==
  /\ ~ m.absolute
  /\ m.colons \in {"none", "leading"}
  /\ m.name # <<>>
  /\ \A i \in DOMAIN m.name : m.name[i] \in ModuleSegments

\* The modules that can be used, at their places in the list.
ModuleInfos(names) ==
  [i \in {i \in DOMAIN names : /\ i <= MaxModules
                               /\ ValidModuleName(names[i]) /\ names[i].inside}
     |-> names[i]]
FirstOf(modules) == modules[Least(DOMAIN modules)]

\* The first list with a module that can be used; only the JVM has modules.
DetectMultiModules(project, stack) ==
  LET lists == {i \in DOMAIN project.settings :
                  ModuleInfos(project.settings[i]) # <<>>}
  IN  IF stack # "jvm" \/ lists = {} THEN <<>>
      ELSE ModuleInfos(project.settings[Least(lists)])

\* What the prompt callback answers; Nobody: there is none, as in main.
Nobody == <<>>
Aborting == {<<"cancel">>, <<"not a string">>, <<"too long">>}

ChosenModule(modules, answer) ==
  LET named == {i \in DOMAIN modules : modules[i].name = answer}
  IN  IF answer = Nobody \/ named = {} THEN FirstOf(modules)
                                       ELSE modules[Least(named)]

ModuleGaps(modules, answer) ==
  IF \E i \in DOMAIN modules : modules[i].name = answer THEN {}
  ELSE {<<"module", FirstOf(modules).name>>}

\* Detection is repeated in the module; without a result the parent's stays.
Redetect(stack, dir, detected) ==
  LET again == Detect(stack, dir) IN
  IF again.outcome = "found" THEN again.result ELSE detected

RedetectError(stack, dir) ==
  LET outcome == Detect(stack, dir).outcome IN
  IF outcome \in {"found", "none"} THEN None ELSE outcome

-----------------------------------------------------------------------------
(* Statefulness: dependencies named in any build file of the root or the   *)
(* module, and a datasource in the module's or else the root's files.      *)

HighSignals == {"jpa", "hibernate", "mybatis", "jdbc", "r2dbc", "jooq"}
MediumSignals == {"kafka", "amqp", "redis", "hazelcast", "caffeine", "ehcache",
                  "mongodb", "cassandra", "elasticsearch"}

BuildFileDeps(dir) ==
  UNION {dir.builds[i].deps : i \in {j \in DOMAIN dir.builds :
                                       dir.builds[j].state # "unreadable"}}

\* A datasource in a profile's .properties or .yaml file is not seen.
HasDatasource(dir) ==
  \E i \in DOMAIN dir.spring :
    /\ dir.spring[i].ok /\ dir.spring[i].datasource
    /\ ~ (dir.spring[i].profile /\ dir.spring[i].ext \in {"yaml", "properties"})

\* Mutant of Statefulness: every signal counts alike.
StatefulnessOfAnySignal(dirs) ==
  LET deps == UNION {BuildFileDeps(d) : d \in dirs}
      high == (deps \cap HighSignals # {}) \/ (\E d \in dirs : HasDatasource(d))
  IN  [isStateful |-> high \/ deps \cap MediumSignals # {}, confidence |-> "high"]

Statefulness(dirs) ==
  LET deps == UNION {BuildFileDeps(d) : d \in dirs}
      high == (deps \cap HighSignals # {}) \/ (\E d \in dirs : HasDatasource(d))
      medium == deps \cap MediumSignals # {}
  IN  [isStateful |-> high \/ medium,
       confidence |-> IF medium /\ ~ high THEN "medium" ELSE "high"]

-----------------------------------------------------------------------------
(* Overrides and plans.                                                    *)

Given(setting) == setting.kind = "text" /\ setting.text # ""

EntrypointRefused(config, stack) ==
  LET setting == StackSetting(config, stack, <<"entrypoint">>)
  IN  /\ Given(setting)
      /\ setting.text \notin IF stack = "python" THEN PythonEntrypoints
                                                 ELSE GoEntrypoints

ApplyStackOverrides(config, stack, detected) ==
  LET setting == StackSetting(config, stack, <<"entrypoint">>)
  IN  IF Given(setting) THEN [detected EXCEPT !.entrypoint = setting.text]
                        ELSE detected

\* Mutant of FillPort: each stack goes on with its own default.
LeavePort(detected, port) == detected

\* A port the stack cannot infer is the one of the inputs.
FillPort(detected, port) ==
  IF detected.port = NoPort THEN [detected EXCEPT !.port = port] ELSE detected

ProbePathRefused(config, stack) ==
  LET setting == StackSetting(config, stack, <<"probe", "path">>)
  IN  Given(setting) /\ setting.text \notin ProbePaths

ApplyProbeOverrides(config, stack, probes) ==
  LET setting == StackSetting(config, stack, <<"probe", "path">>)
      override(probe) == IF Given(setting) /\ probe.kind = "http"
                         THEN [probe EXCEPT !.path = setting.text] ELSE probe
  IN  Probes(override(probes.liveness), override(probes.readiness))

PlanError(config, stack, detected, inputs) ==
  CASE EntrypointRefused(config, stack) -> "ValueError"
    [] ~ EntrypointRefused(config, stack)
         /\ PlanFails(stack, ApplyStackOverrides(config, stack, detected),
                      inputs.appName) -> "GoBuildPlanError"
    [] OTHER -> IF ProbePathRefused(config, stack) THEN "ValueError" ELSE None

Plan(config, stack, detected, dirs, inputs) ==
  LET settled == FillPort(ApplyStackOverrides(config, stack, detected),
                          inputs.port)
  IN  [stack |-> stack,
       detected |-> settled,
       build |-> BuildPlan(stack, settled, inputs.appName),
       probes |-> ApplyProbeOverrides(config, stack, ProbePlan(stack, settled)),
       defaults |-> Defaults(stack, inputs.resourceHint),
       statefulness |-> Statefulness(dirs)]
=============================================================================
