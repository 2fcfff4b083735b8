---------------------------- MODULE Generation ----------------------------
(***************************************************************************)
(* scripts/pipeline/orchestrator.py, the data of one run: configuration,   *)
(* inputs (STEP 1), analysis (STEP 2), the files of STEP 3, the validator  *)
(* of STEP 4, and the build it asks for.  Then the files belong to the     *)
(* user, who may edit them and run scripts/validate_k8s.py on them.        *)
(*                                                                         *)
(* Pipeline models the same run's control: the writer, the retry loops and *)
(* their outcomes.  Here every step computes what the code computes.       *)
(***************************************************************************)
EXTENDS ProjectAnalyzer, Manifests, Validators

CONSTANTS
  DirNames,       \* values of project_dir.name; "" for --project-dir .
  LabelOf,        \* what _sanitize_dns1123_label makes of each
  OrgFiles,       \* states of ~/.claude/devflow-k8s-deploy.yml
  ProjectFiles,   \* states of .devflow-k8s-deploy.yml in the project
  Projects,       \* what the project holds
  Replies,        \* what a prompt callback answers; main has none: Unasked
  Answers,        \* the same for the module; main has none: Nobody
  Edits,          \* what the user may do to the published manifests
  MaxEdits        \* bound: edits before the audit

\* _sanitize_dns1123_label: a label, whatever the name; a label is unchanged.
ASSUME LabelOfAssumption ==
  /\ LabelOf \in [DirNames -> Labels]
  /\ \A name \in DirNames \cap Labels : LabelOf[name] = name
ASSUME MaxEditsAssumption == MaxEdits \in Nat
ASSUME EditsAssumption ==
  \A e \in Edits : e.what \in {"container", "pod", "workload", "service", "broken"}
ASSUME DocumentsAssumption ==
  \A file \in OrgFiles \cup ProjectFiles :
    file.state \in FileStates /\ IsDocument(file.doc)
ASSUME ProjectsAssumption ==
  \A p \in Projects :
    /\ IsDirectory(p.root)
    /\ DOMAIN p.settings \subseteq Nat
    /\ \A i \in DOMAIN p.settings :
         /\ DOMAIN p.settings[i] \subseteq Nat
         /\ \A j \in DOMAIN p.settings[i] : IsDirectory(p.settings[i][j].dir)

VARIABLES
  dirName, project,      \* what the command names
  org, local,            \* the two configuration files as they are now
  step,                  \* where the run is
  error,                 \* the exception that ended it, or None
  runnerEngine,          \* the BuildRunner's engine, from the first load
  config,                \* ResolvedConfig, as loaded last
  edited,                \* the project's file changed between the loads
  replies,               \* the prompt callback of STEP 1
  inputs,                \* UserInputs
  answer,                \* what the module callback said, or Nobody
  choice,                \* stack, detection result and gaps
  dirs,                  \* the root, then the selected module if any
  analysis,              \* AnalysisResult
  dockerfile,            \* what the Dockerfile says
  manifests,             \* the files under manifests/
  report,                \* of K8sValidator in STEP 4
  built,                 \* the image was built
  exitCode,              \* of the run
  edits, audit           \* the user's edits, the report of validate_k8s.py

request == <<dirName, project>>
settings == <<org, local, edited, runnerEngine, config>>
asked == <<replies, inputs>>
plans == <<answer, choice, dirs, analysis>>
output == <<dockerfile, manifests>>
verdict == <<report, built>>
aftermath == <<edits, audit>>
vars == <<request, settings, step, error, exitCode, asked, plans, output,
          verdict, aftermath>>

-----------------------------------------------------------------------------
(* STEP 1: what is read from the configuration and asked of the user.      *)

AppSetting(c, key, default) == GetOr(c.raw, <<"app", key>>, default)

\* str(): of these values only a boolean's text is no number.
AsText(v) == Node("text", v.text, IF v.kind = "flag" THEN NoNumber ELSE v.number)

\* What the user is asked has one reply, or the reply to the help text after
\* a "?".  A reply that is not usable text (kind "unusable") is the default.
Unasked == [asks |-> FALSE]

\* Mutant of PromptField: who asked for help is not asked again.
PromptFieldOnce(reply, default) ==
  IF reply[1].kind = "text" /\ reply[1].text \notin {"", "?"}
  THEN reply[1] ELSE AsText(default)

PromptField(reply, default) ==
  LET said == IF reply[1].text = "?" THEN reply[2] ELSE reply[1]
  IN  IF reply[1].kind = "text" /\ said.kind = "text" /\ said.text # ""
      THEN said ELSE AsText(default)

Ask(r, field, default) ==
  IF r.asks THEN PromptField(r[field], default) ELSE default

Coerce(value, allowed, default) ==
  IF value.text \in allowed THEN value.text ELSE default

\* Only without a prompt is the name of the directory made a label.
AppName(c, name, r) ==
  IF r.asks
  THEN PromptField(r.app_name, AppSetting(c, "name", Text(name))).text
  ELSE IF Truthy(c.raw, <<"app", "name">>)
       THEN c.raw[<<"app", "name">>].text ELSE LabelOf[name]

\* int() of a reply that is no number is the default, of a setting an error.
Port(c, r) ==
  LET setting == AppSetting(c, "port", Number(8080, "8080"))
      said == Ask(r, "port", setting).number
  IN  IF r.asks /\ said = NoNumber THEN 8080 ELSE said

Namespace(c, name, r) ==
  LET unasked == ResolveNamespace(c, Missing, name).value
      said == Ask(r, "namespace", Text(unasked))
  IN  ResolveNamespace(c, IF r.asks THEN said ELSE Missing, name).value

Replicas(c) == AppSetting(c, "replicas", Number(2, "2")).number

Inputs(c, name, r) ==
  [appName |-> AppName(c, name, r),
   port |-> Port(c, r),
   exposure |-> Coerce(Ask(r, "exposure",
                           AppSetting(c, "exposure", Text("ClusterIP"))),
                       Exposures, "ClusterIP"),
   namespace |-> Namespace(c, name, r),
   resourceHint |-> Coerce(Ask(r, "resource_hint",
                               AppSetting(c, "resource_hint", Text("medium"))),
                           {"small", "medium", "large"}, "medium"),
   replicas |-> Replicas(c)]

\* int() raises, or fewer than one replica.
InputsRefused(c, r) == Port(c, r) = NoNumber \/ Replicas(c) < 1

-----------------------------------------------------------------------------
(* What the later steps read from the configuration.                       *)

Engine(c) == GetOr(c.raw, <<"build", "engine">>, Text("skip"))
Engines == {"skip", "auto", "docker", "podman", "nerdctl"}

\* Nothing, or 0 for no limit, or a number of seconds.
BuildTimeout(c) ==
  GetOr(c.raw, <<"build", "build_timeout_seconds">>, Number(600, "600")).number

ImageTag(c) == IF Truthy(c.raw, <<"build", "image_tag">>)
               THEN c.raw[<<"build", "image_tag">>].text ELSE "app:0.2.0"

PeerList(c, key) == IF Truthy(c.raw, <<"network", key>>)
                    THEN c.raw[<<"network", key>>] ELSE Null
Ingress(c) == PeerList(c, "allow_ingress_from")
Egress(c) == PeerList(c, "allow_egress_to")

WantsStatefulSet(a) ==
  a.statefulness.isStateful /\ a.statefulness.confidence = "high"

-----------------------------------------------------------------------------

NoReport == [results |-> {}, exitCode |-> -1]
NoInputs == [appName |-> "", port |-> NoPort, exposure |-> "", namespace |-> "",
             resourceHint |-> "", replicas |-> 0]
NoChoice == [error |-> None, stack |-> "", detected |-> Without("none").result,
             gaps |-> {}]
NoPlan == [stack |-> ""]

Init ==
  /\ dirName \in DirNames /\ project \in Projects
  /\ org \in OrgFiles /\ local \in ProjectFiles /\ edited = FALSE
  /\ runnerEngine = "skip" /\ config = Load(org, local)
  /\ step = "setup" /\ error = None /\ exitCode = -1
  /\ replies = Unasked /\ inputs = NoInputs
  /\ answer = Nobody /\ choice = NoChoice
  /\ dirs = <<project.root>> /\ analysis = NoPlan
  /\ dockerfile = NoPlan /\ manifests = <<>>
  /\ report = NoReport /\ built = FALSE
  /\ edits = 0 /\ audit = NoReport

\* main: any exception ends the run with 1.
Fail(e) == step' = "end" /\ error' = e /\ exitCode' = 1
Continue(next) == step' = next /\ UNCHANGED <<error, exitCode>>
Proceed(e, next) == IF e = None THEN Continue(next) ELSE Fail(e)
When(refused) == IF refused THEN "ValueError" ELSE None

\* _build_default_dependencies reads the configuration for the BuildRunner.
LoadForRunner ==
  /\ step = "setup"
  /\ config' = Load(org, local)
  /\ runnerEngine' = Coerce(Engine(config'), Engines, "skip")
  /\ Proceed(When(BuildTimeout(config') < 0), "inputs")
  /\ UNCHANGED <<request, org, local, edited, asked, plans, output, verdict,
                 aftermath>>

\* Somebody saves the project's file while the run is between its two loads.
EditConfig ==
  /\ step = "inputs" /\ ~ edited
  /\ local' \in ProjectFiles \ {local}
  /\ edited' = TRUE
  /\ UNCHANGED <<request, org, runnerEngine, config, step, error, exitCode,
                 asked, plans, output, verdict, aftermath>>

CollectInputs ==
  /\ step = "inputs"
  /\ config' = Load(org, local)
  /\ replies' \in Replies
  /\ IF InputsRefused(config', replies')
     THEN Fail("ValueError") /\ UNCHANGED inputs
     ELSE Continue("stack") /\ inputs' = Inputs(config', dirName, replies')
  /\ UNCHANGED <<request, org, local, edited, runnerEngine, plans, output,
                 verdict, aftermath>>

-----------------------------------------------------------------------------
(* STEP 2.                                                                 *)

ChooseStack ==
  /\ step = "stack"
  /\ choice' = SelectStack(project.root, StackDecision(config))
  /\ Proceed(choice'.error, "module")
  /\ UNCHANGED <<request, settings, asked, answer, dirs, analysis, output,
                 verdict, aftermath>>

ChooseModule ==
  LET modules == DetectMultiModules(project, choice.stack) IN
  /\ step = "module"
  /\ modules # <<>>
  /\ answer' \in Answers
  /\ LET module == ChosenModule(modules, answer').dir IN
     IF answer' \in Aborting
     THEN Fail("MultiModuleAbort") /\ UNCHANGED <<choice, dirs>>
     ELSE /\ Proceed(RedetectError(choice.stack, module), "plan")
          /\ choice' = [choice EXCEPT
                          !.detected = Redetect(choice.stack, module, @),
                          !.gaps = @ \cup ModuleGaps(modules, answer')]
          /\ dirs' = <<project.root, module>>
  /\ UNCHANGED <<request, settings, asked, analysis, output, verdict, aftermath>>

SingleModule ==
  /\ step = "module"
  /\ DetectMultiModules(project, choice.stack) = <<>>
  /\ Continue("plan")
  /\ UNCHANGED <<request, settings, asked, plans, output, verdict, aftermath>>

MakePlan ==
  LET e == PlanError(config, choice.stack, choice.detected, inputs) IN
  /\ step = "plan"
  /\ Proceed(e, "dockerfile")
  /\ analysis' = IF e # None THEN analysis
                 ELSE Plan(config, choice.stack, choice.detected,
                           {dirs[i] : i \in DOMAIN dirs}, inputs)
  /\ UNCHANGED <<request, settings, asked, answer, choice, dirs, output,
                 verdict, aftermath>>

-----------------------------------------------------------------------------
(* STEP 3: one file after the other, each document in a file of its own.   *)

WriteDockerfile ==
  /\ step = "dockerfile"
  /\ dockerfile' = Dockerfile(analysis.stack, analysis.build,
                              analysis.detected, project.root, inputs.port)
  /\ Continue("workload")
  /\ UNCHANGED <<request, settings, asked, plans, manifests, verdict, aftermath>>

File(name, doc) == [name |-> name, parses |-> TRUE, docs |-> <<doc>>]

\* A document, unless the generator refuses it.
Write(refused, file, next) ==
  /\ Proceed(When(refused), next)
  /\ manifests' = IF refused THEN manifests ELSE Append(manifests, file)
  /\ UNCHANGED <<request, settings, asked, plans, dockerfile, verdict, aftermath>>

WriteWorkload ==
  LET image == ImageTag(config)
      cluster == ResolveClusterConfig(config)
  IN  /\ step = "workload"
      /\ IF WantsStatefulSet(analysis)
         THEN Write(StatefulSetRefused(inputs, image, cluster),
                    File("statefulset.yaml",
                         StatefulSet(inputs, analysis, image)), "service")
         ELSE Write(DeploymentRefused(inputs, image),
                    File("deployment.yaml",
                         Deployment(inputs, analysis, image)), "service")

WriteService ==
  /\ step = "service"
  /\ Write(ServiceRefused(inputs), File("service.yaml", Service(inputs)),
           "serviceaccount")

WriteServiceAccount ==
  /\ step = "serviceaccount"
  /\ Write(NameRefused(inputs),
           File("serviceaccount.yaml", ServiceAccount(inputs)),
           IF ResolveClusterConfig(config).networkPolicy THEN "networkpolicy"
                                                         ELSE "gate")

WriteNetworkPolicy ==
  /\ step = "networkpolicy"
  /\ Write(NetworkPolicyRefused(inputs, Ingress(config), Egress(config)),
           File("networkpolicy.yaml",
                NetworkPolicy(inputs, Ingress(config), Egress(config))),
           "gate")

-----------------------------------------------------------------------------
(* STEP 4: the validator, then the image if both the gate's configuration  *)
(* and the BuildRunner's ask for it.  STEP 5 publishes.                    *)

ValidateFiles ==
  /\ step = "gate"
  /\ report' = Validate(manifests)
  /\ Proceed(IF report'.exitCode = 1 THEN "BailOutError" ELSE None, "build")
  /\ UNCHANGED <<request, settings, asked, plans, output, built, aftermath>>

Publish == /\ step' = "published" /\ exitCode' = report.exitCode
           /\ UNCHANGED error

\* The gate's own check of the tag, and its "build.image_tag" warning.
TagRefusedAtGate(c) == ~ ValidImageReference(ImageTag(c))

\* Mutant of Builds: only the gate's configuration is asked.
BuildsIfGateAsks(c, engine) == Engine(c) # Text("skip") /\ ~ TagRefusedAtGate(c)

Builds(c, engine) ==
  Engine(c) # Text("skip") /\ ~ TagRefusedAtGate(c) /\ engine # "skip"

BuildImage ==
  /\ step = "build"
  /\ \/ ~ Builds(config, runnerEngine) /\ Publish /\ UNCHANGED built
     \/ Builds(config, runnerEngine) /\ Publish /\ built' = TRUE
     \/ Builds(config, runnerEngine) /\ Fail("BailOutError") /\ UNCHANGED built
  /\ UNCHANGED <<request, settings, asked, plans, output, report, aftermath>>

-----------------------------------------------------------------------------
(* The published files.  The workload's file is the first, the Service's   *)
(* the second.                                                             *)

Edited(files, e) ==
  CASE e.what = "container" ->
         [files EXCEPT ![1].docs[1].containers[1][e.field] = e.value]
    [] e.what = "pod" -> [files EXCEPT ![1].docs[1].security[e.field] = e.value]
    [] e.what = "workload" -> [files EXCEPT ![1].docs[1][e.field] = e.value]
    [] e.what = "service" -> [files EXCEPT ![2].docs[1][e.field] = e.value]
    [] e.what = "broken" -> [files EXCEPT ![1].parses = FALSE]

EditManifests ==
  /\ step = "published" /\ edits < MaxEdits
  /\ \E e \in Edits : manifests' = Edited(manifests, e)
  /\ edits' = edits + 1
  /\ UNCHANGED <<request, settings, step, error, exitCode, asked, plans,
                 dockerfile, verdict, audit>>

AuditManifests ==
  /\ step = "published"
  /\ audit' = Validate(manifests)
  /\ Continue("audited")
  /\ UNCHANGED <<request, settings, asked, plans, output, verdict, edits>>

Next ==
  \/ LoadForRunner \/ EditConfig \/ CollectInputs
  \/ ChooseStack \/ ChooseModule \/ SingleModule \/ MakePlan
  \/ WriteDockerfile \/ WriteWorkload \/ WriteService \/ WriteServiceAccount
  \/ WriteNetworkPolicy
  \/ ValidateFiles \/ BuildImage
  \/ EditManifests \/ AuditManifests

Spec == Init /\ [][Next]_vars

-----------------------------------------------------------------------------
(* Properties.                                                             *)

Steps == {"setup", "inputs", "stack", "module", "plan", "dockerfile", "workload",
          "service", "serviceaccount", "networkpolicy", "gate", "build",
          "published", "audited", "end"}
Errors == {None, "ValueError", "UnsupportedStackError", "UnknownStackError",
           "JvmDetectionError", "GoDetectionError", "OSError",
           "EntitiesForbidden", "AttributeError", "GoBuildPlanError", "MultiModuleAbort", "BailOutError"}

\* The types: a run that ended has an exit code, one that failed an error; the
\* merged configuration is a YAML document again (_deep_merge, load).
TypeOK ==
  /\ step \in Steps /\ error \in Errors /\ exitCode \in -1 .. 2
  /\ step = "end" <=> error # None
  /\ step \in {"published", "audited", "end"} <=> exitCode # -1
  /\ IsDocument(config.raw)
  /\ runnerEngine \in Engines
  /\ edited \in BOOLEAN /\ built \in BOOLEAN /\ edits \in 0 .. MaxEdits
  /\ dirs # <<>>

\* Precedence: every setting, however deep, is that of the highest layer which
\* decides it, project over organisation over built-in defaults: neither a
\* partial section nor a plain value in place of a section lets a lower layer
\* win (_deep_merge, load); and the source map names the layer a plain top level
\* value came from (_build_source_map).
Precedence == HighestLayerWins(config)

Loaded == step \notin {"setup", "inputs"}

\* A configuration file that is there but was not used, malformed, too large,
\* unreadable or a link out of the project, is in the warnings, and none of its
\* settings is in force (load, _load_layer).
UnusableLayerIsWarned ==
  Loaded =>
    /\ org.state \notin {"absent", "ok"} =>
         /\ \E w \in config.warnings : w[1] = "org"
         /\ config.layers.org_config = Empty
    /\ local.state \notin {"absent", "ok"} \/ Outside(local) =>
         /\ \E w \in config.warnings : w[1] = "project"
         /\ config.layers.project_config = Empty

\* The application's name and port are what the user answered, if asked and if
\* the answer is of use; so is the namespace, unless a configuration file sets
\* one: a blank one there counts for nothing and hides nothing
\* (_collect_inputs_step1, _prompt_field, resolve_namespace).
AnswersAreKept ==
  LET said(field) == IF replies[field][1].text = "?" THEN replies[field][2]
                                                    ELSE replies[field][1]
      useful(field) == /\ replies[field][1].kind = "text"
                       /\ said(field).kind = "text" /\ said(field).text # ""
      layer(l) == Get(config.layers[l], <<"namespace">>)
      set == {l \in {"project_config", "org_config"} : Present(layer(l))}
  IN  Loaded /\ error = None =>
        /\ replies.asks /\ useful("app_name") => inputs.appName = said("app_name").text
        /\ replies.asks /\ useful("port") /\ said("port").number # NoNumber
             => inputs.port = said("port").number
        /\ set # {} => inputs.namespace \in {layer(l).text : l \in set}
        /\ "project_config" \in set => inputs.namespace = layer("project_config").text
        /\ set = {} /\ replies.asks /\ useful("namespace")
             => inputs.namespace = said("namespace").text
        /\ set = {} /\ ~ replies.asks => inputs.namespace = dirName

\* The configuration is read twice.  An image is built only if both readings ask
\* for it: an edit in between can prevent the build, never cause it; without one
\* a run that publishes has built what was asked for
\* (_build_default_dependencies, _validate_gate_step4).
BuildsOnlyIfBothAsk ==
  /\ built => runnerEngine # "skip" /\ Engine(config) # Text("skip")
  /\ step = "published" /\ ~ edited =>
       (built <=> Coerce(Engine(config), Engines, "skip") # "skip")

Chosen == choice.error = None /\ choice.stack # ""

\* A stack that was passed over was either not there or its failure is in the
\* gaps, and only a failure detect() declares is passed over; a forced stack is
\* taken whatever else is there (_detect_stack, _analyze_impl).
NoSilentFallback ==
  Chosen =>
    LET decision == StackDecision(config)
        outcome(i) == Detect(StackRegistry[i], project.root).outcome
    IN  /\ decision # "auto" => choice.stack = decision /\ decision # Unsupported
        /\ decision = "auto" =>
             \E last \in DOMAIN StackRegistry :
               /\ StackRegistry[last] = choice.stack /\ outcome(last) = "found"
               /\ \A i \in 1 .. last - 1 :
                    \/ outcome(i) = "none"
                    \/ /\ outcome(i) \in {"JvmDetectionError", "GoDetectionError"}
                       /\ <<"stack", StackRegistry[i]>> \in choice.gaps

\* The module analysed is one the project lists, inside the project, and the one
\* the user named; if nobody was asked, or the answer names no module that can be
\* used, the gaps name it (_detect_multi_modules, _select_module).
ModuleIsAskedOrTold ==
  LET usable == DetectMultiModules(project, choice.stack)
      named == {i \in DOMAIN usable : usable[i].name = answer}
  IN  Len(dirs) = 2 =>
        \E i \in DOMAIN project.settings : \E j \in DOMAIN project.settings[i] :
          LET m == project.settings[i][j] IN
          /\ m.dir = dirs[2] /\ m.inside /\ ~ m.absolute /\ m.name # <<>>
          /\ \/ m.name = answer
             \/ named = {} /\ <<"module", m.name>> \in choice.gaps

\* What detection could not take as it was asked for is told: the stacks passed
\* over and the module nobody chose.
GapsAreTold == NoSilentFallback /\ ModuleIsAskedOrTold

\* A Go program with several commands is never guessed at: what is built is its
\* only command, the one of the application's name, or a configured one
\* (_resolve_entrypoint, _apply_stack_overrides).
GoNeverGuesses ==
  analysis.stack = "go" =>
    LET target == analysis.build.target
        cmds == analysis.detected.cmds
    IN  /\ target \in GoEntrypoints
        /\ \/ target = StackSetting(config, "go", <<"entrypoint">>).text
           \/ target = "." /\ cmds = {}
           \/ cmds # {} /\ target = CmdPath(inputs.appName)
           \/ \E only \in cmds : cmds = {only} /\ target = CmdPath(only)

Workload0 == manifests[1].docs[1]
Complete == step \in {"gate", "build"}

\* The directory the detection that counts is from: the chosen module, or the
\* root if there is none or it has no build file.
Source == LET module == dirs[Len(dirs)] IN
          IF module.builds = <<>> THEN project.root ELSE module

\* A workload is a StatefulSet exactly if a readable build file of the root or
\* the module names a database library or a Spring file names a data source: a
\* message broker or a cache alone does not do, nor does a stack other than the
\* JVM's without such files (_detect_statefulness, _generate_artifacts_step3).
StatefulMeansEvidence ==
  Complete =>
    LET names(d) == \E i \in DOMAIN d.builds :
                      /\ d.builds[i].state # "unreadable"
                      /\ d.builds[i].deps \cap HighSignals # {}
    IN  Workload0.kind = "StatefulSet"
          <=> \E i \in DOMAIN dirs : names(dirs[i]) \/ HasDatasource(dirs[i])

\* The ports of the set: the Service reaches the container's port, which the
\* Dockerfile exposes and a python server binds.  A probe asks that port, too,
\* but the JVM's probes ask the port that the project's Spring files give,
\* which is not the container's unless it was configured so: PortIsInferred.
\* (analyze, generate_deployment, generate_service, dockerfile_context)
PortsAgree ==
  Complete =>
    LET port == Workload0.containers[1].port
        probes == Workload0.containers[1].probes
        service == manifests[2].docs[1]
    IN  /\ service.targetPort = port /\ service.port = port
        /\ dockerfile.expose = port
        /\ dockerfile.command # NoCommand => dockerfile.command.port = port
        /\ {probes.liveness.port, probes.readiness.port}
             = IF analysis.stack = "jvm" THEN {DetectPort(Source.spring)}
                                         ELSE {port}

\* The names of the set: one namespace; the Service and the network policy
\* select the workload's pods; the pods' service account is the one generated
\* (generate_deployment ... generate_networkpolicy).
DocumentsAgree ==
  Complete =>
    LET docs == UNION {DocsOf(manifests[i]) : i \in DOMAIN manifests}
        pods == Workload0
    IN  /\ \A doc \in docs : doc.namespace = inputs.namespace
        /\ \A doc \in docs : doc.kind \in {"Service", "NetworkPolicy"}
             => doc.selector = pods.labels
        /\ pods.selector = pods.labels
        /\ \E doc \in docs : /\ doc.kind = "ServiceAccount"
                            /\ doc.name = pods.serviceAccount
                            /\ doc.automount = "false"

\* With a read-only root, every mount has a volume or a claim to it, and a
\* Deployment mounts every path its stack writes to.  A StatefulSet mounts /tmp
\* and /data only (generate_deployment, generate_statefulset).
MountsHaveVolumes ==
  Complete =>
    LET mounts == Workload0.containers[1].mounts
        paths == {m.path : m \in mounts}
    IN  /\ {m.name : m \in mounts} = Workload0.volumes \cup Workload0.claims
        /\ Cardinality(paths) = Cardinality({m.name : m \in mounts})
        /\ <<"tmp">> \in paths
        /\ Workload0.kind = "Deployment" => paths = WritablePaths[analysis.stack]

\* The generated files, rendered one by one, are one set: their ports, their
\* names, and their mounts and volumes agree.
FilesAgree == PortsAgree /\ DocumentsAgree /\ MountsHaveVolumes

\* Once files are written, the image in them is one the gate accepts too: its
\* own refusal, a warning and no build, is never taken
\* (_validate_gate_step4, generate_deployment).
TagIsValidAtTheGate == Complete => ~ TagRefusedAtGate(config)

Gated == step \in {"build", "published", "audited"} \/ error = "BailOutError"

\* What the generator writes passes the validator, with one exception: an image
\* with a digest and no tag is let into the files and then fails the run
\* (validate, validate_image_reference, rule_img_001).
GeneratedPasses ==
  Gated => \A r \in report.results :
             r.level = "FAIL" => /\ r.rule = "IMG-001"
                                 /\ Images[ImageTag(config)].tag = ""

\* No run says "all passed": a template sets no grace period, so the best exit
\* code is 2 (rule_life_w01, _compute_exit_code, main).
NeverAllClear ==
  /\ exitCode # 0
  /\ Gated => [rule |-> "LIFE-W01", level |-> "WARN"] \in report.results

\* What the gate may say of generated files: no failure, with one exception,
\* and never nothing.
GateVerdict == GeneratedPasses /\ NeverAllClear

\* Kubernetes' reading of a pod: a container's own setting goes before the
\* pod's.
Exposed(c, pod) ==
  \/ c.runAsNonRoot = "false" \/ (c.runAsNonRoot = "unset" /\ pod.runAsNonRoot # "true")
  \/ c.runAsUser = 0 \/ (c.runAsUser = Unset /\ ~ pod.runAsUser > 0)
  \/ c.privileged = "true" \/ c.escalation # "false" \/ c.readOnlyRoot # "true"
  \/ "ALL" \notin c.drop

\* Whatever the user edits, an audit without FAIL means that every file parses
\* and every workload of a kind the validator knows is still hardened, no
\* container undoing what its pod sets (validate, the SEC and SA rules).
AuditSound ==
  step = "audited" /\ audit.exitCode # 1 =>
    \A i \in DOMAIN manifests :
      /\ manifests[i].parses
      /\ \A doc \in DocsOf(manifests[i]) : doc.kind \in WorkloadKinds =>
           /\ doc.automount = "false" /\ doc.serviceAccount # ""
           /\ doc.security.seccomp \in {"RuntimeDefault", "Localhost"}
           /\ \A j \in DOMAIN doc.containers :
                ~ Exposed(doc.containers[j], doc.security)

\* Ports are never compared: with one document in each file SVC-002 has nothing
\* to compare a Service with, and a Service whose port an edit took off the
\* container's is not reported (validate, rule_svc_002).
PortsAreNotCompared ==
  step = "audited" =>
    \A r \in audit.results : r.rule # "SVC-002"

\* The server a python image starts is a dependency somebody declared, and it
\* is installed, except where a pyproject.toml or a uv.lock keeps
\* requirements.txt from being read or the server is in an optional group only
\* (_detect_server_command, _detect_uv_sync_mode).
StartedServerIsDeclared ==
  dockerfile # NoPlan /\ dockerfile.command # NoCommand =>
    LET root == project.root
        server == dockerfile.command.server
        installed == IF dockerfile.install = "requirements-txt"
                     THEN root.requirements.core ELSE root.pyproject.core
    IN  /\ server \in DirectDeps(root)
        /\ \/ server \in installed
           \/ /\ root.pyproject.there \/ root.uvLock
              /\ server \in root.requirements.core
           \/ server \in root.pyproject.extras \cup root.requirements.extras

\* README.md: --project-dir . is how the pipeline is called; a JVM project
\* without modules then gets its files without a configuration.
DocumentedCallPublishes ==
  (/\ dirName = "" /\ org.state = "absent" /\ local.state = "absent"
   /\ ~ edited /\ replies = Unasked
   /\ Chosen /\ choice.stack = "jvm"
   /\ DetectMultiModules(project, "jvm") = <<>>)
    => error = None

\* .devflow-k8s-deploy.yml.sample on app.port: a port that is not set is inferred
\* from application.yml, or is 8080; SKILL.md says so of the JVM.  main asks
\* nobody (_collect_inputs_step1, _detect_port).
PortIsInferred ==
  (/\ Complete /\ replies = Unasked /\ analysis.stack = "jvm"
   /\ \A l \in {"org_config", "project_config"} :
        Get(config.layers[l], <<"app", "port">>) = Missing)
    => Workload0.containers[1].port = DetectPort(Source.spring)

\* _volume_name_for_path: a volume's name is a DNS-1123 label.  (Labels joined
\* by dashes are a label.)
VolumeNamesAreLabels ==
  Complete => \A v \in Workload0.volumes : \A i \in DOMAIN v : v[i] \in Labels
=============================================================================
