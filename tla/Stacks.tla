------------------------------- MODULE Stacks -------------------------------
(***************************************************************************)
(* scripts/stacks/jvm.py, go.py and python.py: what each stack module      *)
(* recognises in a directory, and what it plans from that: build, probes,  *)
(* resources, Dockerfile.                                                  *)
(*                                                                         *)
(* A directory is a record of what the modules look for in it.  A build    *)
(* file, a Spring configuration file or a dependency manifest is what the  *)
(* patterns find in its text.  Paths are sequences of segments.            *)
(***************************************************************************)
EXTENDS Integers, Sequences, FiniteSets, Vocabulary

NoPort == -1
Least(S) == CHOOSE i \in S : \A j \in S : i <= j

Detected(port, entrypoint, framework, major, buildSystem, actuator, cmds) ==
  [port |-> port, entrypoint |-> entrypoint, framework |-> framework,
   major |-> major, buildSystem |-> buildSystem, actuator |-> actuator,
   cmds |-> cmds]

IsDirectory(dir) == DOMAIN dir.spring \subseteq Nat /\ IsFiniteSet(dir.cmds)

Found(result) == [outcome |-> "found", result |-> result]
Without(outcome) ==   \* "none", or the exception detect() raises
  [outcome |-> outcome, result |-> Detected(NoPort, "", "", 0, "", FALSE, {})]

-----------------------------------------------------------------------------
(* JVM.  builds is the sequence of build files in the order                *)
(* build.gradle.kts, build.gradle, pom.xml: [name, state, boot, mentions,  *)
(* deps], boot the major version of a stated Spring Boot version or 0, and *)
(* state "text", "unreadable" or, of a pom.xml, "malformed" or "entities". *)
(* spring is the sequence of application files, by name: [profile, ext,    *)
(* ok, port, exposes, datasource].                                         *)

JvmDefaultPort == 8080

\* Reading it ends the search with JvmDetectionError.
Breaks(build) == \/ build.name = "gradle" /\ build.state = "unreadable"
                 \/ build.name = "pom" /\ build.state = "malformed"

\* Parsing it ends detect() with EntitiesForbidden, which nothing there catches.
Forbidden(build) == build.state = "entities"

\* The files that settle the search for a Spring Boot version.
Settling(builds) ==
  {i \in DOMAIN builds :
     \/ Breaks(builds[i]) \/ Forbidden(builds[i])
     \/ builds[i].state = "text" /\ builds[i].boot # 0}

\* Without a version: the first file that mentions a framework.  Ktor is not
\* looked for in a pom.xml.
Mentioned(build) ==
  IF build.state = "unreadable" THEN {}
  ELSE build.mentions \ (IF build.name = "pom" THEN {"ktor"} ELSE {})

FirstMentioned(builds) ==
  LET files == {i \in DOMAIN builds : Mentioned(builds[i]) # {}}
      names == Mentioned(builds[Least(files)])
  IN  CASE files = {} -> "jvm-generic"
        [] files # {} /\ "spring-boot" \in names -> "spring-boot"
        [] files # {} /\ "spring-boot" \notin names /\ "ktor" \in names -> "ktor"
        [] OTHER -> "micronaut"

\* The order in which the port is looked for; application-*.yaml is not read.
PortRank(file) ==
  CASE file.profile /\ file.ext = "yml" -> 1
    [] file.profile /\ file.ext = "properties" -> 2
    [] ~ file.profile /\ file.ext = "yml" -> 3
    [] ~ file.profile /\ file.ext = "yaml" -> 4
    [] ~ file.profile /\ file.ext = "properties" -> 5
    [] OTHER -> 0

GivesPort(file) == file.ok /\ PortRank(file) > 0 /\ file.port \in Ports

DetectPort(spring) ==
  LET giving == {i \in DOMAIN spring : GivesPort(spring[i])}
      rank == Least({PortRank(spring[i]) : i \in giving})
  IN  IF giving = {} THEN JvmDefaultPort
      ELSE spring[Least({i \in giving : PortRank(spring[i]) = rank})].port

ExposesHealth(spring) == \E i \in DOMAIN spring : spring[i].ok /\ spring[i].exposes

NamesActuator(build) == build.state = "text" /\ "actuator" \in build.deps

\* The search for the actuator, after a version was found in a Gradle file,
\* parses a pom.xml unless an earlier file names the actuator.
ActuatorForbidden(builds) ==
  \E i \in DOMAIN builds : /\ Forbidden(builds[i])
                           /\ \A j \in 1 .. i - 1 : ~ NamesActuator(builds[j])

\* Boot 3 exposes health without being told; an unknown version is taken for 2.
DetectActuator(dir, major) ==
  /\ \E i \in DOMAIN dir.builds : NamesActuator(dir.builds[i])
  /\ ExposesHealth(dir.spring) \/ major >= 3

JvmDetect(dir) ==
  LET settling == Settling(dir.builds)
      settler == dir.builds[Least(settling)]
      framework == IF settling = {} THEN FirstMentioned(dir.builds)
                                    ELSE "spring-boot"
      major == IF settling = {} THEN 2 ELSE settler.boot
      system == IF dir.builds[1].name = "pom" THEN "maven" ELSE "gradle"
  IN  CASE dir.builds = <<>> -> Without("none")
        [] dir.builds # <<>> /\ settling # {} /\ Breaks(settler) ->
             Without("JvmDetectionError")
        [] /\ dir.builds # <<>> /\ settling # {} /\ ~ Breaks(settler)
           /\ Forbidden(settler) \/ ActuatorForbidden(dir.builds) ->
             Without("EntitiesForbidden")
        [] OTHER ->
             Found(Detected(DetectPort(dir.spring), "", framework, major, system,
                            framework = "spring-boot"
                              /\ DetectActuator(dir, major), {}))

JvmBuildPlan(detected) ==
  [builder |-> detected.buildSystem, runner |-> "jre",
   target |-> "",
   artifact |-> IF detected.buildSystem = "maven"
                THEN <<"target">> ELSE <<"build", "libs">>]

-----------------------------------------------------------------------------
(* Go.  goMod is "absent", "unreadable", "nameless" or "ok"; goDirect and  *)
(* goSum are the frameworks its require lines and go.sum name; cmds are    *)
(* the directories cmd/<name> with a main.go; cmdDenied, that cmd/ is      *)
(* there and cannot be listed.                                             *)

OnlyOne(names, otherwise) ==
  IF Cardinality(names) = 1 THEN CHOOSE n \in names : TRUE ELSE otherwise

\* Direct dependencies win; go.sum is asked only when they name none.
GoFramework(dir) ==
  OnlyOne(IF dir.goDirect # {} THEN dir.goDirect ELSE dir.goSum, "go-generic")

\* cmd/ is listed without a guard, unless the root has a main.go.
CmdDenied(dir) == ~ dir.rootMain /\ dir.cmdDenied

GoDetect(dir) ==
  CASE dir.goMod = "absent" -> Without("none")
    [] dir.goMod \in {"unreadable", "nameless"} -> Without("GoDetectionError")
    [] dir.goMod = "ok" /\ CmdDenied(dir) -> Without("OSError")
    [] OTHER ->
         Found(Detected(NoPort, IF dir.rootMain THEN "." ELSE "",
                        GoFramework(dir), 0, "", FALSE,
                        IF dir.rootMain THEN {} ELSE dir.cmds))

CmdPath(name) == "./cmd/" \o name
Ambiguous == "ambiguous"   \* GoBuildPlanError

ASSUME AmbiguousAssumption == Ambiguous \notin GoEntrypoints

\* Mutant of ResolveEntrypoint: of several commands it takes one.
ResolveAnyEntrypoint(detected, appName) ==
  CASE detected.entrypoint # "" -> detected.entrypoint
    [] detected.entrypoint = "" /\ detected.cmds = {} -> "."
    [] OTHER -> CmdPath(IF appName \in detected.cmds THEN appName
                        ELSE CHOOSE n \in detected.cmds : TRUE)

ResolveEntrypoint(detected, appName) ==
  CASE detected.entrypoint # "" -> detected.entrypoint
    [] detected.entrypoint = "" /\ detected.cmds = {} -> "."
    [] detected.entrypoint = "" /\ appName \in detected.cmds -> CmdPath(appName)
    [] detected.entrypoint = "" /\ appName \notin detected.cmds
         /\ detected.cmds # {} ->
         IF Cardinality(detected.cmds) = 1
         THEN CmdPath(CHOOSE n \in detected.cmds : TRUE) ELSE Ambiguous

GoPlanFails(detected, appName) ==
  \/ appName \notin Labels
  \/ ResolveEntrypoint(detected, appName) \notin GoEntrypoints

GoBuildPlan(detected, appName) ==
  [builder |-> "golang", runner |-> "distroless",
   target |-> ResolveEntrypoint(detected, appName),
   artifact |-> <<appName>>]

-----------------------------------------------------------------------------
(* Python.  pyproject and requirements are [there, readable, core, extras]: *)
(* what is declared, and what only an optional group declares.  oddPoetry: *)
(* [tool.poetry] is no table, and no requires-python is stated.  manage    *)
(* and wsgi are manage.py and the directories with a wsgi.py; listable,    *)
(* that the project directory can be listed.                               *)

PythonFrameworks == {"django", "fastapi", "flask"}

Declared(manifest) ==
  IF manifest.there /\ manifest.readable
  THEN manifest.core \cup manifest.extras ELSE {}

DirectDeps(dir) == Declared(dir.pyproject) \cup Declared(dir.requirements)

PythonFramework(dir) ==
  OnlyOne(DirectDeps(dir) \cap PythonFrameworks, "python-generic")

\* "" when nothing can be inferred.  Of several wsgi.py the first by name.
InferEntrypoint(framework, dir) ==
  CASE framework = "django" ->
         IF dir.manage /\ dir.wsgi # <<>> THEN dir.wsgi[1] \o ".wsgi:application"
                                          ELSE ""
    [] framework \in {"flask", "fastapi"} ->
         IF "main.py" \in dir.files THEN "main:app"
         ELSE IF "app.py" \in dir.files THEN "app:app" ELSE ""
    [] OTHER -> ""

\* The project directory is listed without a guard when manage.py is there.
ListingDenied(dir) ==
  PythonFramework(dir) = "django" /\ dir.manage /\ ~ dir.listable

\* The version is looked for before the entrypoint, in what is no table.
VersionFails(dir) ==
  dir.pyproject.there /\ dir.pyproject.readable /\ dir.oddPoetry

PythonDetect(dir) ==
  CASE ~ dir.pyproject.there /\ ~ dir.requirements.there -> Without("none")
    [] dir.pyproject.there \/ dir.requirements.there ->
         IF VersionFails(dir) THEN Without("AttributeError")
         ELSE IF ListingDenied(dir) THEN Without("OSError")
         ELSE Found(Detected(NoPort, InferEntrypoint(PythonFramework(dir), dir),
                             PythonFramework(dir), 0, "", FALSE, {}))

PythonBuildPlan ==
  [builder |-> "uv", runner |-> "slim", target |-> "",
   artifact |-> <<"app", ".venv">>]

\* The lock file, else pyproject.toml, else requirements.txt: one of them.
UvSync(dir) == CASE dir.uvLock -> "frozen"
                 [] ~ dir.uvLock /\ dir.pyproject.there -> "non-frozen-warning"
                 [] ~ dir.uvLock /\ ~ dir.pyproject.there
                      /\ dir.requirements.there -> "requirements-txt"
                 [] OTHER -> "none"

ServerPackage(framework) == CASE framework \in {"django", "flask"} -> "gunicorn"
                              [] framework = "fastapi" -> "uvicorn"
                              [] OTHER -> ""

NoCommand == [server |-> "", entrypoint |-> "", port |-> NoPort]

\* Mutant of ServerCommand: an entrypoint is enough.
StartAnyServer(dir, detected, port) ==
  LET server == ServerPackage(PythonFramework(dir))
      entrypoint == IF detected.entrypoint # "" THEN detected.entrypoint
                    ELSE InferEntrypoint(PythonFramework(dir), dir)
  IN  IF server # "" /\ entrypoint # ""
      THEN [server |-> server, entrypoint |-> entrypoint, port |-> port]
      ELSE NoCommand

\* The server is started only if it is a declared dependency and there is an
\* entrypoint for it; otherwise the Dockerfile has no CMD, only the reason.
ServerCommand(dir, detected, port) ==
  LET server == ServerPackage(PythonFramework(dir))
      entrypoint == IF detected.entrypoint # "" THEN detected.entrypoint
                    ELSE InferEntrypoint(PythonFramework(dir), dir)
  IN  IF server # "" /\ server \in DirectDeps(dir) /\ entrypoint # ""
      THEN [server |-> server, entrypoint |-> entrypoint, port |-> port]
      ELSE NoCommand

-----------------------------------------------------------------------------
(* The three modules behind their common protocol.                         *)

StackRegistry == <<"jvm", "go", "python">>

Detect(stack, dir) == CASE stack = "jvm" -> JvmDetect(dir)
                        [] stack = "go" -> GoDetect(dir)
                        [] stack = "python" -> PythonDetect(dir)

PlanFails(stack, detected, appName) ==
  stack = "go" /\ GoPlanFails(detected, appName)

BuildPlan(stack, detected, appName) ==
  CASE stack = "jvm" -> JvmBuildPlan(detected)
    [] stack = "go" -> GoBuildPlan(detected, appName)
    [] stack = "python" -> PythonBuildPlan

Probe(kind, path, port) == [kind |-> kind, path |-> path, port |-> port]
Probes(liveness, readiness) == [liveness |-> liveness, readiness |-> readiness]

PortOr(detected, default) ==
  IF detected.port \in {NoPort, 0} THEN default ELSE detected.port

JvmProbePlan(detected) ==
  LET port == PortOr(detected, JvmDefaultPort)
      tcp == Probe("tcp", "", port)
      health(path) == Probe("http", path, port)
  IN  CASE detected.framework # "spring-boot" \/ ~ detected.actuator ->
             Probes(tcp, tcp)
        [] detected.framework = "spring-boot" /\ detected.actuator
             /\ detected.major >= 3 ->
             Probes(health("/actuator/health/liveness"),
                    health("/actuator/health/readiness"))
        [] OTHER -> Probes(health("/actuator/health"), health("/actuator/health"))

\* A framework known by name answers /health, a generic program /healthz.
HealthProbePlan(detected, default) ==
  LET path == IF detected.framework \in {"gin", "echo", "fiber"} \cup PythonFrameworks
              THEN "/health" ELSE "/healthz"
      probe == Probe("http", path, PortOr(detected, default))
  IN  Probes(probe, probe)

ProbePlan(stack, detected) ==
  CASE stack = "jvm" -> JvmProbePlan(detected)
    [] stack = "go" -> HealthProbePlan(detected, 8080)
    [] stack = "python" -> HealthProbePlan(detected, 8000)

\* CPU request and limit, in milli-CPU; memory is in step with them.
CpuTiers ==
  [jvm |-> [small |-> <<125, 500>>, medium |-> <<100, 1000>>, large |-> <<250, 2000>>],
   go |-> [small |-> <<50, 250>>, medium |-> <<100, 500>>, large |-> <<250, 1000>>],
   python |-> [small |-> <<100, 250>>, medium |-> <<250, 500>>, large |-> <<500, 1000>>]]

WritablePaths == [jvm |-> {<<"tmp">>, <<"var", "log">>},
                  go |-> {<<"tmp">>},
                  python |-> {<<"tmp">>, <<"app", ".cache">>}]

RunAsUser == [jvm |-> 1000, go |-> 65532, python |-> 10001]

Defaults(stack, hint) ==
  [cpuRequest |-> CpuTiers[stack][hint][1], cpuLimit |-> CpuTiers[stack][hint][2],
   writablePaths |-> WritablePaths[stack], runAsUser |-> RunAsUser[stack]]

\* What the Dockerfile says: EXPOSE, how dependencies are installed, what is
\* started.  Only python's CMD names a port or is left out.
Dockerfile(stack, plan, detected, dir, port) ==
  [builder |-> plan.builder, target |-> plan.target, artifact |-> plan.artifact,
   expose |-> port,
   install |-> IF stack = "python" THEN UvSync(dir) ELSE "none",
   command |-> IF stack = "python" THEN ServerCommand(dir, detected, port)
                                   ELSE NoCommand]
=============================================================================
