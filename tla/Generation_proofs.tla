-------------------------- MODULE Generation_proofs --------------------------
(***************************************************************************)
(* Theorems about one run, whatever the files, the project and the user    *)
(* are: every constant is arbitrary but for the assumptions of Generation. *)
(***************************************************************************)
EXTENDS Generation, ConfigLoader_proofs, SequenceTheorems

(* The actions after the inputs. *)
Analysing == ChooseStack \/ ChooseModule \/ SingleModule \/ MakePlan
Writing == \/ WriteDockerfile \/ WriteWorkload \/ WriteService
           \/ WriteServiceAccount \/ WriteNetworkPolicy
Gating == ValidateFiles \/ BuildImage
Publishing == EditManifests \/ AuditManifests
Later == Analysing \/ Writing \/ Gating \/ Publishing

\* The three kinds of steps: of the configuration and inputs, later ones, none.
LEMMA NextCases ==
  ASSUME [Next]_vars
  PROVE  LoadForRunner \/ EditConfig \/ CollectInputs \/ Later \/ UNCHANGED vars
BY DEF Next, Later, Analysing, Writing, Gating, Publishing

(* They leave the settings alone, and no run goes back to the inputs. *)
LEMMA LaterKeepsSettings ==
  ASSUME Later
  PROVE  /\ UNCHANGED <<request, settings, asked>>
         /\ Loaded /\ Loaded'
<1>1. CASE Analysing
  BY <1>1 DEF Analysing, ChooseStack, ChooseModule, SingleModule, MakePlan,
              Proceed, Continue, Fail, Loaded
<1>2. CASE Writing
  BY <1>2 DEF Writing, WriteDockerfile, WriteWorkload, WriteService,
              WriteServiceAccount, WriteNetworkPolicy, Write, When,
              Proceed, Continue, Fail, Loaded
<1>3. CASE Gating
  BY <1>3 DEF Gating, ValidateFiles, BuildImage, Publish,
              Proceed, Continue, Fail, Loaded
<1>4. CASE Publishing
  BY <1>4 DEF Publishing, EditManifests, AuditManifests, Continue, Loaded
<1> QED
  BY <1>1, <1>2, <1>3, <1>4 DEF Later

-----------------------------------------------------------------------------
(* The configuration is always that of some pair of files, and from the    *)
(* inputs on that of the files as they are.                                *)
ConfigInv ==
  /\ org \in OrgFiles /\ local \in ProjectFiles
  /\ \E o \in OrgFiles, l \in ProjectFiles : config = Load(o, l)
  /\ Loaded => config = Load(org, local)
  /\ step # "setup" /\ ~ edited =>
       runnerEngine = Coerce(Engine(Load(org, local)), Engines, "skip")
  /\ runnerEngine \in Engines

\* A value out of the allowed ones becomes the default.
LEMMA CoerceInto ==
  ASSUME NEW v, NEW S, NEW d \in S
  PROVE  Coerce(v, S, d) \in S
BY DEF Coerce

\* The configuration is always that of the files, as they were when it was
\* read last (load), and the engine that of the first reading.
THEOREM ConfigCorrect == Spec => []ConfigInv
<1>0. "skip" \in Engines
  BY DEF Engines
<1>1. Init => ConfigInv
  BY <1>0 DEF Init, ConfigInv, Loaded
<1>2. ConfigInv /\ [Next]_vars => ConfigInv'
  <2> SUFFICES ASSUME ConfigInv, [Next]_vars PROVE ConfigInv'
    OBVIOUS
  <2>1. CASE LoadForRunner
    <3>1. /\ UNCHANGED <<org, local, edited>>
          /\ config' = Load(org, local)
          /\ runnerEngine' = Coerce(Engine(config'), Engines, "skip")
      BY <2>1 DEF LoadForRunner
    <3>2. runnerEngine' \in Engines
      BY <3>1, <1>0, CoerceInto
    <3> QED
      BY <3>1, <3>2 DEF ConfigInv
  <2>2. CASE EditConfig
    BY <2>2 DEF EditConfig, ConfigInv, Loaded
  <2>3. CASE CollectInputs
    BY <2>3 DEF CollectInputs, ConfigInv, Loaded
  <2>4. CASE Later
    BY <2>4, LaterKeepsSettings DEF ConfigInv, settings, Loaded
  <2>5. CASE UNCHANGED vars
    BY <2>5 DEF vars, settings, ConfigInv, Loaded
  <2> QED
    BY <2>1, <2>2, <2>3, <2>4, <2>5, NextCases
<1> QED
  BY <1>1, <1>2, PTL DEF Spec

\* Every setting in force, at any depth, is that of the highest layer which
\* decides it (_deep_merge), and the source map names its layer.
THEOREM SettingsHavePrecedence == Spec => []Precedence
<1>1. ConfigInv => Precedence
  <2> SUFFICES ASSUME ConfigInv PROVE Precedence
    OBVIOUS
  <2>1. PICK o \in OrgFiles, l \in ProjectFiles : config = Load(o, l)
    BY DEF ConfigInv
  <2>2. IsDocument(o.doc) /\ IsDocument(l.doc)
    BY <2>1, DocumentsAssumption
  <2> QED
    BY <2>1, <2>2, LoadPrecedence DEF Precedence
<1> QED
  BY <1>1, ConfigCorrect, PTL

\* A configuration file that is there but cannot be used, malformed, too
\* large, unreadable or a link out of the project, is in the warnings and none
\* of its settings is in force (load, _load_layer).
THEOREM UnusableIsWarned == Spec => []UnusableLayerIsWarned
<1>1. ConfigInv => UnusableLayerIsWarned
  <2> SUFFICES ASSUME ConfigInv, Loaded PROVE
        /\ org.state \notin {"absent", "ok"} =>
             /\ \E w \in config.warnings : w[1] = "org"
             /\ config.layers.org_config = Empty
        /\ local.state \notin {"absent", "ok"} \/ Outside(local) =>
             /\ \E w \in config.warnings : w[1] = "project"
             /\ config.layers.project_config = Empty
    BY DEF UnusableLayerIsWarned
  <2>1. /\ config.warnings = Warnings(org, local)
        /\ config.layers.org_config = OrgData(org)
        /\ config.layers.project_config = ProjectData(local)
    BY DEF ConfigInv, Load
  <2>2. ASSUME NEW layer, NEW file, file.state \notin {"absent", "ok"}
        PROVE  /\ <<layer, file.state>> \in LayerWarnings(layer, file)
               /\ LayerData(file) = Empty
    BY <2>2 DEF LayerWarnings, LayerData
  <2>3. ASSUME org.state \notin {"absent", "ok"}
        PROVE  /\ <<"org", org.state>> \in Warnings(org, local)
               /\ OrgData(org) = Empty
    BY <2>2, <2>3 DEF Warnings, OrgData
  <2>4. ASSUME Outside(local)
        PROVE  /\ <<"project", "outside">> \in Warnings(org, local)
               /\ ProjectData(local) = Empty
    BY <2>4 DEF Warnings, ProjectData
  <2>5. ASSUME local.state \notin {"absent", "ok"}, ~ Outside(local)
        PROVE  /\ <<"project", local.state>> \in Warnings(org, local)
               /\ ProjectData(local) = Empty
    BY <2>2, <2>5 DEF Warnings, ProjectData
  <2>6. org.state \notin {"absent", "ok"} =>
          /\ \E w \in config.warnings : w[1] = "org"
          /\ config.layers.org_config = Empty
    BY <2>1, <2>3
  <2>7. local.state \notin {"absent", "ok"} \/ Outside(local) =>
          /\ \E w \in config.warnings : w[1] = "project"
          /\ config.layers.project_config = Empty
    BY <2>1, <2>4, <2>5
  <2> QED
    BY <2>6, <2>7
<1> QED
  BY <1>1, ConfigCorrect, PTL

-----------------------------------------------------------------------------
(* What is written has not been refused, its image is valid, and what is   *)
(* built was asked for by both configurations.                             *)
Written == {"service", "serviceaccount", "networkpolicy", "gate", "build",
            "published", "audited"}

AcceptedInv ==
  /\ step \in Written => ~ DeploymentRefused(inputs, ImageTag(config))
  /\ built => step \in {"published", "audited"} /\ Builds(config, runnerEngine)
  /\ step = "published" => (built <=> Builds(config, runnerEngine))

\* Up to the inputs nothing is written or built.
LEMMA EarlyKeepsAccepted ==
  ASSUME LoadForRunner \/ EditConfig \/ CollectInputs, AcceptedInv
  PROVE  AcceptedInv'
<1>1. step \notin Written /\ step' \notin Written /\ UNCHANGED built
  BY DEF LoadForRunner, EditConfig, CollectInputs, Proceed, When, Continue, Fail,
         verdict, Written
<1> QED
  BY <1>1 DEF AcceptedInv, Written

\* STEP 2 writes nothing.
LEMMA AnalysingKeepsAccepted ==
  ASSUME Analysing, AcceptedInv
  PROVE  AcceptedInv'
<1>1. step \notin Written /\ step' \notin Written /\ UNCHANGED built
  BY DEF Analysing, ChooseStack, ChooseModule, SingleModule, MakePlan,
         Proceed, Continue, Fail, verdict, Written
<1> QED
  BY <1>1 DEF AcceptedInv, Written

\* STEP 3 gets past the workload only if its generator did not refuse.
LEMMA WritingKeepsAccepted ==
  ASSUME Writing, AcceptedInv
  PROVE  AcceptedInv'
<1>1. UNCHANGED <<config, runnerEngine, inputs, built>>
  BY DEF Writing, WriteDockerfile, WriteWorkload, WriteService,
         WriteServiceAccount, WriteNetworkPolicy, Write, settings, asked, verdict
<1>2. step \notin {"published", "audited"} /\ step' \notin {"published", "audited"}
  BY DEF Writing, WriteDockerfile, WriteWorkload, WriteService,
         WriteServiceAccount, WriteNetworkPolicy, Write, When,
         Proceed, Continue, Fail
<1>3. CASE WriteWorkload
  <2>1. CASE DeploymentRefused(inputs, ImageTag(config))
    <3>1. step' = "end"
      BY <1>3, <2>1 DEF WriteWorkload, StatefulSetRefused, Write, When, Proceed,
                        Fail, None
    <3> QED
      BY <1>1, <1>2, <3>1 DEF AcceptedInv, Written
  <2>2. CASE ~ DeploymentRefused(inputs, ImageTag(config))
    BY <1>1, <1>2, <2>2 DEF AcceptedInv
  <2> QED
    BY <2>1, <2>2
<1>4. CASE WriteDockerfile
  <2>1. step' = "workload"
    BY <1>4 DEF WriteDockerfile, Continue
  <2> QED
    BY <1>1, <1>2, <2>1 DEF AcceptedInv, Written
<1>5. CASE WriteService \/ WriteServiceAccount \/ WriteNetworkPolicy
  <2>1. step \in Written
    BY <1>5 DEF WriteService, WriteServiceAccount, WriteNetworkPolicy, Written
  <2> QED
    BY <1>1, <1>2, <2>1 DEF AcceptedInv
<1> QED
  BY <1>3, <1>4, <1>5 DEF Writing

\* The gate builds only what both configurations ask for.
LEMMA EndingKeepsAccepted ==
  ASSUME Gating \/ Publishing, AcceptedInv
  PROVE  AcceptedInv'
<1>1. UNCHANGED <<config, runnerEngine, inputs>> /\ step \in Written
  BY DEF Gating, Publishing, ValidateFiles, BuildImage, EditManifests,
         AuditManifests, settings, asked, Written
<1>2. CASE ValidateFiles
  <2>1. UNCHANGED built /\ step = "gate" /\ step' \in {"build", "end"}
    BY <1>2 DEF ValidateFiles, Proceed, Continue, Fail
  <2> QED
    BY <1>1, <2>1 DEF AcceptedInv
<1>3. CASE BuildImage
  <2>1. ~ built /\ step = "build"
    BY <1>3 DEF BuildImage, AcceptedInv
  <2>2. \/ ~ Builds(config, runnerEngine) /\ step' = "published" /\ built' = built
        \/ Builds(config, runnerEngine) /\ step' = "published" /\ built' = TRUE
        \/ step' = "end" /\ built' = built
    BY <1>3 DEF BuildImage, Publish, Fail
  <2> QED
    BY <1>1, <2>1, <2>2 DEF AcceptedInv
<1>4. CASE EditManifests
  BY <1>1, <1>4 DEF EditManifests, verdict, AcceptedInv
<1>5. CASE AuditManifests
  BY <1>1, <1>5 DEF AuditManifests, Continue, verdict, AcceptedInv
<1> QED
  BY <1>2, <1>3, <1>4, <1>5 DEF Gating, Publishing

\* No file is there that a generator refused, no image that was not asked for.
THEOREM AcceptedCorrect == Spec => []AcceptedInv
<1>1. Init => AcceptedInv
  BY DEF Init, AcceptedInv, Written
<1>2. AcceptedInv /\ [Next]_vars => AcceptedInv'
  <2>1. ASSUME AcceptedInv, UNCHANGED vars PROVE AcceptedInv'
    BY <2>1 DEF vars, settings, asked, verdict, AcceptedInv
  <2> QED
    BY <2>1, NextCases, EarlyKeepsAccepted, AnalysingKeepsAccepted, WritingKeepsAccepted,
       EndingKeepsAccepted DEF Later
<1> QED
  BY <1>1, <1>2, PTL DEF Spec

\* Past STEP 3 the image tag is one the gate accepts, so its branch that skips
\* the build with a warning is never taken (_validate_gate_step4).
THEOREM GateSeesValidTags == Spec => []TagIsValidAtTheGate
<1>1. AcceptedInv => TagIsValidAtTheGate
  BY DEF AcceptedInv, DeploymentRefused, TagIsValidAtTheGate, TagRefusedAtGate,
         Complete, Written
<1> QED
  BY <1>1, AcceptedCorrect, PTL

\* An image is built only if the configuration asked for it both times it was
\* read; a run that publishes without an edit in between has built what was
\* asked for (_build_default_dependencies, _validate_gate_step4).
THEOREM BuildsAreAskedFor == Spec => []BuildsOnlyIfBothAsk
<1>1. AcceptedInv /\ ConfigInv => BuildsOnlyIfBothAsk
  <2> SUFFICES ASSUME AcceptedInv, ConfigInv PROVE BuildsOnlyIfBothAsk
    OBVIOUS
  <2>1. built => runnerEngine # "skip" /\ Engine(config) # Text("skip")
    BY DEF AcceptedInv, Builds
  <2>2. ASSUME step = "published", ~ edited
        PROVE  built <=> Coerce(Engine(config), Engines, "skip") # "skip"
    <3>1. runnerEngine = Coerce(Engine(config), Engines, "skip")
      BY <2>2 DEF ConfigInv, Loaded
    <3>2. ~ TagRefusedAtGate(config)
      BY <2>2 DEF AcceptedInv, DeploymentRefused, Written, TagRefusedAtGate
    <3>3. Engine(config) = Text("skip")
            => Coerce(Engine(config), Engines, "skip") = "skip"
      BY DEF Coerce, Text, Node
    <3> QED
      BY <2>2, <3>1, <3>2, <3>3 DEF AcceptedInv, Builds
  <2> QED
    BY <2>1, <2>2 DEF BuildsOnlyIfBothAsk
<1> QED
  BY <1>1, AcceptedCorrect, ConfigCorrect, PTL

-----------------------------------------------------------------------------
(* The plan of the chosen stack, and the files written from it.            *)
StackNames == {"jvm", "go", "python"}
Planned == {"dockerfile", "workload"} \cup Written

PlanInv ==
  /\ step \in {"module", "plan"} \cup Planned => choice.stack \in StackNames
  /\ step \in Planned =>
       analysis = Plan(config, choice.stack, choice.detected,
                       {dirs[i] : i \in DOMAIN dirs}, inputs)

\* The search for a stack ends within the registry.
LEMMA LastIsAStack ==
  ASSUME NEW dir
  PROVE  LET deciding == Deciding(dir)
         IN  (IF deciding = {} THEN Len(StackRegistry) ELSE Least(deciding)) \in 1 .. 3
<1> DEFINE deciding == Deciding(dir)
<1>1. DOMAIN StackRegistry = 1 .. 3 /\ Len(StackRegistry) = 3
  BY DEF StackRegistry
<1>2. deciding \subseteq 1 .. 3
  BY <1>1 DEF Deciding
<1> HIDE DEF deciding
<1>3. ASSUME deciding # {} PROVE Least(deciding) \in deciding
  <2>1. \A m \in deciding : m = 1 \/ m = 2 \/ m = 3
    BY <1>2
  <2>2. \E n \in deciding : \A m \in deciding : n <= m
    BY <1>3, <2>1
  <2> QED
    BY <2>2 DEF Least
<1> QED
  BY <1>1, <1>2, <1>3 DEF deciding

\* What is selected without an error is one of the three stacks.
LEMMA SelectedStack ==
  ASSUME NEW dir, NEW c, SelectStack(dir, StackDecision(c)).error = None
  PROVE  SelectStack(dir, StackDecision(c)).stack \in StackNames
<1> DEFINE decision == StackDecision(c)
<1>1. decision \in SupportedStacks \cup {Unsupported}
  BY DEF StackDecision
<1>2. CASE decision = Unsupported
  BY <1>2 DEF SelectStack, None, Unsupported, StackNames
<1>3. CASE decision = "auto"
  <2> DEFINE deciding == Deciding(dir)
             last == IF deciding = {} THEN Len(StackRegistry) ELSE Least(deciding)
  <2>1. last \in 1 .. 3
    BY LastIsAStack
  <2>2. StackRegistry[last] \in StackNames
    BY <2>1 DEF StackRegistry, StackNames
  <2>3. SelectStack(dir, decision).stack = StackRegistry[last]
    BY <1>3 DEF SelectStack, DetectStack, Unsupported
  <2> QED
    BY <2>2, <2>3
<1>4. CASE decision \in SupportedStacks \ {"auto"}
  BY <1>4 DEF SelectStack, ForcedStack, SupportedStacks, Unsupported, StackNames
<1> QED
  BY <1>1, <1>2, <1>3, <1>4 DEF SupportedStacks

\* STEP 2 ends with the plan of the stack and directories it chose.
LEMMA AnalysingKeepsPlan ==
  ASSUME Analysing, PlanInv
  PROVE  PlanInv'
<1>1. CASE ChooseStack
  <2>1. /\ choice' = SelectStack(project.root, StackDecision(config))
        /\ step' = IF choice'.error = None THEN "module" ELSE "end"
    BY <1>1 DEF ChooseStack, Proceed, Continue, Fail
  <2>2. choice'.error = None => choice'.stack \in StackNames
    BY <2>1, SelectedStack
  <2> QED
    BY <2>1, <2>2 DEF PlanInv, Planned, Written
<1>2. CASE ChooseModule
  <2>1. choice'.stack = choice.stack
    <3>1. \/ choice' = choice
          \/ \E d, g : choice' = [choice EXCEPT !.detected = d, !.gaps = g]
      BY <1>2 DEF ChooseModule
    <3>2. ASSUME NEW d, NEW g, choice' = [choice EXCEPT !.detected = d, !.gaps = g]
          PROVE  choice'.stack = choice.stack
      BY <3>2
    <3> QED
      BY <3>1, <3>2
  <2>2. step = "module" /\ step' \in {"plan", "end"}
    BY <1>2 DEF ChooseModule, Proceed, Continue, Fail
  <2> QED
    BY <2>1, <2>2 DEF PlanInv, Planned, Written
<1>3. CASE SingleModule
  BY <1>3 DEF SingleModule, Continue, plans, PlanInv, Planned, Written
<1>4. CASE MakePlan
  <2>1. /\ step = "plan" /\ step' \in {"dockerfile", "end"}
        /\ step' = "dockerfile" =>
             analysis' = Plan(config, choice.stack, choice.detected,
                              {dirs[i] : i \in DOMAIN dirs}, inputs)
        /\ UNCHANGED <<config, inputs, choice, dirs>>
    BY <1>4 DEF MakePlan, Proceed, Continue, Fail, settings, asked
  <2> QED
    BY <2>1 DEF PlanInv, Planned, Written
<1> QED
  BY <1>1, <1>2, <1>3, <1>4 DEF Analysing

\* From STEP 3 on what STEP 2 found stays as it is.
LEMMA LastKeepsPlans ==
  ASSUME Writing \/ Gating \/ Publishing
  PROVE  /\ UNCHANGED <<project, config, inputs, answer, choice, dirs, analysis>>
         /\ step \in Planned /\ step' \in Planned \cup {"end"}
<1>1. CASE Writing
  BY <1>1 DEF Writing, WriteDockerfile, WriteWorkload, WriteService,
              WriteServiceAccount, WriteNetworkPolicy, Write, When, Proceed, Continue,
              Fail, request, settings, asked, plans, Planned, Written
<1>2. CASE Gating
  BY <1>2 DEF Gating, ValidateFiles, BuildImage, Publish, Proceed, Continue, Fail,
              request, settings, asked, plans, Planned, Written
<1>3. CASE Publishing
  BY <1>3 DEF Publishing, EditManifests, AuditManifests, Continue,
              request, settings, asked, plans, Planned, Written
<1> QED
  BY <1>1, <1>2, <1>3

\* From STEP 3 on the analysis is the plan of the chosen stack (analyze).
THEOREM PlanCorrect == Spec => []PlanInv
<1>1. Init => PlanInv
  BY DEF Init, PlanInv, Planned, Written
<1>2. PlanInv /\ [Next]_vars => PlanInv'
  <2> SUFFICES ASSUME PlanInv, [Next]_vars PROVE PlanInv'
    OBVIOUS
  <2>1. CASE LoadForRunner \/ EditConfig \/ CollectInputs
    <3>1. step' \notin {"module", "plan"} \cup Planned
      BY <2>1 DEF LoadForRunner, EditConfig, CollectInputs, Proceed, When, Continue,
                  Fail, Planned, Written
    <3> QED
      BY <3>1 DEF PlanInv
  <2>2. CASE Writing \/ Gating \/ Publishing
    BY <2>2, LastKeepsPlans DEF PlanInv, Planned, Written
  <2>3. CASE UNCHANGED vars
    BY <2>3 DEF vars, settings, asked, plans, PlanInv
  <2> QED
    BY <2>1, <2>2, <2>3, AnalysingKeepsPlan, NextCases DEF Later
<1> QED
  BY <1>1, <1>2, PTL DEF Spec

-----------------------------------------------------------------------------
(* An audit without FAIL: the audit is that of the files as they are, and  *)
(* each rule that passed says what it looked at.                           *)
AuditInv == step = "audited" => audit = Validate(manifests)

\* The report of validate_k8s.py is of the files as they are then.
THEOREM AuditIsOfTheFiles == Spec => []AuditInv
<1>1. Init => AuditInv
  BY DEF Init, AuditInv
<1>2. AuditInv /\ [Next]_vars => AuditInv'
  <2> SUFFICES ASSUME AuditInv, [Next]_vars PROVE AuditInv'
    OBVIOUS
  <2>1. CASE LoadForRunner \/ EditConfig \/ CollectInputs \/ Analysing
    <3>1. step' # "audited"
      BY <2>1 DEF LoadForRunner, EditConfig, CollectInputs, Analysing, ChooseStack,
                  ChooseModule, SingleModule, MakePlan, Proceed, When, Continue, Fail
    <3> QED
      BY <3>1 DEF AuditInv
  <2>2. CASE Writing \/ Gating \/ EditManifests
    <3>1. step' # "audited"
      BY <2>2 DEF Writing, WriteDockerfile, WriteWorkload, WriteService,
                  WriteServiceAccount, WriteNetworkPolicy, Write, When, Gating,
                  ValidateFiles, BuildImage, Publish, EditManifests, Proceed,
                  Continue, Fail
    <3> QED
      BY <3>1 DEF AuditInv
  <2>3. CASE AuditManifests
    BY <2>3 DEF AuditManifests, output, AuditInv
  <2>4. CASE UNCHANGED vars
    BY <2>4 DEF vars, output, aftermath, AuditInv
  <2> QED
    BY <2>1, <2>2, <2>3, <2>4, NextCases DEF Later, Publishing
<1> QED
  BY <1>1, <1>2, PTL DEF Spec

\* A rule whose report does not fail has found what it demands.
LEMMA MustHold ==
  ASSUME NEW rule, NEW holds \in BOOLEAN, NEW results,
         Must(rule, holds) \subseteq results, ExitCode(results) # 1
  PROVE  holds
<1>1. ~ \E r \in results : r.level = "FAIL"
  BY DEF ExitCode
<1>2. [rule |-> rule, level |-> IF holds THEN "PASS" ELSE "FAIL"] \in results
  BY DEF Must
<1> QED
  BY <1>1, <1>2

(* What a clean report says of a container, and of a pod. *)
LEMMA CleanContainer ==
  ASSUME NEW c, NEW pod, NEW results, ContainerRules(c, pod) \subseteq results,
         ExitCode(results) # 1
  PROVE  ~ Exposed(c, pod)
<1>1. EffectiveFlag(c.runAsNonRoot, pod.runAsNonRoot) = "true"
  <2>1. Must("SEC-001", EffectiveFlag(c.runAsNonRoot, pod.runAsNonRoot) = "true")
          \subseteq results
    BY DEF ContainerRules, SEC001
  <2> QED
    BY <2>1, MustHold
<1>2. c.privileged # "true"
  <2>1. Must("SEC-002", c.privileged # "true") \subseteq results
    BY DEF ContainerRules, SEC002
  <2> QED
    BY <2>1, MustHold
<1>3. c.escalation = "false"
  <2>1. Must("SEC-003", c.escalation = "false") \subseteq results
    BY DEF ContainerRules, SEC003
  <2> QED
    BY <2>1, MustHold
<1>4. c.readOnlyRoot = "true"
  <2>1. Must("SEC-004", c.readOnlyRoot = "true") \subseteq results
    BY DEF ContainerRules, SEC004
  <2> QED
    BY <2>1, MustHold
<1>5. "ALL" \in c.drop
  <2> DEFINE holds == "ALL" \in c.drop
  <2>1. Must("SEC-005", holds) \subseteq results /\ holds \in BOOLEAN
    BY DEF ContainerRules, SEC005
  <2> HIDE DEF holds
  <2>2. holds
    BY <2>1, MustHold
  <2> QED
    BY <2>2 DEF holds
<1>6. EffectiveUser(c.runAsUser, pod.runAsUser) > 0
  <2>1. Must("SEC-007", EffectiveUser(c.runAsUser, pod.runAsUser) > 0)
          \subseteq results
    BY DEF ContainerRules, SEC007
  <2> DEFINE holds == EffectiveUser(c.runAsUser, pod.runAsUser) > 0
  <2>2. Must("SEC-007", holds) \subseteq results /\ holds \in BOOLEAN
    BY <2>1
  <2> HIDE DEF holds
  <2>3. holds
    BY <2>2, MustHold
  <2> QED
    BY <2>3 DEF holds
<1>7. ~ (c.runAsNonRoot = "false"
           \/ (c.runAsNonRoot = "unset" /\ pod.runAsNonRoot # "true"))
  BY <1>1 DEF EffectiveFlag
<1>8. ~ (c.runAsUser = 0 \/ (c.runAsUser = Unset /\ ~ pod.runAsUser > 0))
  BY <1>6 DEF EffectiveUser, Unset, NotSet
<1> QED
  BY <1>2, <1>3, <1>4, <1>5, <1>7, <1>8 DEF Exposed

\* A report without a failure vouches for the pod's own settings.
LEMMA CleanPod ==
  ASSUME NEW doc, NEW results, PodRules(doc) \subseteq results,
         ExitCode(results) # 1
  PROVE  /\ doc.automount = "false" /\ doc.serviceAccount # ""
         /\ doc.security.seccomp \in {"RuntimeDefault", "Localhost"}
<1>1. doc.automount = "false"
  <2>1. Must("SA-001", doc.automount = "false") \subseteq results
    BY DEF PodRules, SA001
  <2> QED
    BY <2>1, MustHold
<1>2. doc.serviceAccount # ""
  <2>1. Must("SA-002", doc.serviceAccount # "") \subseteq results
    BY DEF PodRules, SA002
  <2> QED
    BY <2>1, MustHold
<1>3. doc.security.seccomp \in {"RuntimeDefault", "Localhost"}
  <2> DEFINE holds == doc.security.seccomp \in {"RuntimeDefault", "Localhost"}
  <2>1. Must("SEC-006", holds) \subseteq results /\ holds \in BOOLEAN
    BY DEF PodRules, SEC006
  <2> HIDE DEF holds
  <2>2. holds
    BY <2>1, MustHold
  <2> QED
    BY <2>2 DEF holds
<1> QED
  BY <1>1, <1>2, <1>3

(* A clean report has seen every file, and every rule on what is in it.    *)
LEMMA CleanFiles ==
  ASSUME NEW files, Validate(files).exitCode # 1, NEW i \in DOMAIN files
  PROVE  /\ files[i].parses
         /\ \A doc \in DocsOf(files[i]) :
              doc.kind \in WorkloadKinds
                => CheckPodSpec(doc) \subseteq Validate(files).results
<1> DEFINE results == Validate(files).results
           readable == {k \in DOMAIN files : files[k].parses}
<1>1. ExitCode(results) # 1
  BY DEF Validate
<1>2. /\ UNION {UNION {ValidateDoc(doc, files[k].docs) : doc \in DocsOf(files[k])} :
                  k \in readable} \subseteq results
      /\ UNION {Must("PARSE-ERR", FALSE) : k \in DOMAIN files \ readable}
           \subseteq results
  BY DEF Validate
<1> HIDE DEF results
<1>3. i \in readable
  <2> SUFFICES ASSUME i \notin readable PROVE FALSE
    OBVIOUS
  <2>1. Must("PARSE-ERR", FALSE) \subseteq results
    BY <1>2
  <2> QED
    BY <1>1, <2>1, MustHold
<1>4. ASSUME NEW doc \in DocsOf(files[i]), doc.kind \in WorkloadKinds
      PROVE  CheckPodSpec(doc) \subseteq results
  <2>1. ValidateDoc(doc, files[i].docs) \subseteq results
    BY <1>2, <1>3
  <2>2. CheckPodSpec(doc) \subseteq ValidateDoc(doc, files[i].docs)
    BY <1>4 DEF ValidateDoc, WorkloadKinds
  <2> QED
    BY <2>1, <2>2
<1> QED
  BY <1>3, <1>4 DEF results

\* Whatever the user edits, an audit that ends without FAIL vouches for every
\* workload of a kind the validator knows: its account, its seccomp profile
\* and each container's hardening (validate_k8s.py, the SEC and SA rules).
THEOREM AuditIsSound == Spec => []AuditSound
<1>1. AuditInv => AuditSound
  <2> SUFFICES ASSUME AuditInv, step = "audited", audit.exitCode # 1,
                      NEW i \in DOMAIN manifests
               PROVE  /\ manifests[i].parses
                      /\ \A doc \in DocsOf(manifests[i]) :
                           doc.kind \in WorkloadKinds =>
                             /\ doc.automount = "false" /\ doc.serviceAccount # ""
                             /\ doc.security.seccomp
                                  \in {"RuntimeDefault", "Localhost"}
                             /\ \A j \in DOMAIN doc.containers :
                                  ~ Exposed(doc.containers[j], doc.security)
    BY DEF AuditSound
  <2> DEFINE results == Validate(manifests).results
  <2>1. Validate(manifests).exitCode # 1
    BY DEF AuditInv
  <2>2. ExitCode(results) # 1
    BY <2>1 DEF Validate
  <2> HIDE DEF results
  <2>3. ASSUME NEW doc \in DocsOf(manifests[i]), doc.kind \in WorkloadKinds
        PROVE  /\ doc.automount = "false" /\ doc.serviceAccount # ""
               /\ doc.security.seccomp \in {"RuntimeDefault", "Localhost"}
               /\ \A j \in DOMAIN doc.containers :
                    ~ Exposed(doc.containers[j], doc.security)
    <3>1. CheckPodSpec(doc) \subseteq results
      BY <2>1, <2>3, CleanFiles DEF results
    <3>2. PodRules(doc) \subseteq results
      BY <3>1 DEF CheckPodSpec
    <3>3. ASSUME NEW j \in DOMAIN doc.containers
          PROVE  ContainerRules(doc.containers[j], doc.security) \subseteq results
      BY <3>1 DEF CheckPodSpec
    <3> QED
      BY <2>2, <3>2, <3>3, CleanPod, CleanContainer
  <2> QED
    BY <2>1, <2>3, CleanFiles
<1> QED
  BY <1>1, AuditIsOfTheFiles, PTL

-----------------------------------------------------------------------------
(* The stack: why the ones before it were passed over.                     *)
Unselected == {"setup", "inputs", "stack"}

ChoiceInv ==
  /\ step \in Unselected => choice = NoChoice
  /\ DOMAIN choice = {"error", "stack", "detected", "gaps"}
  /\ NoSilentFallback

(* What the search for a stack ends with. *)
LEMMA FirstDeciding ==
  ASSUME NEW dir
  PROVE  LET result == DetectStack(dir)
             outcome(i) == Detect(StackRegistry[i], dir).outcome
         IN  result.error = None =>
               \E last \in DOMAIN StackRegistry :
                 /\ StackRegistry[last] = result.stack /\ outcome(last) = "found"
                 /\ \A i \in 1 .. last - 1 :
                      \/ outcome(i) = "none"
                      \/ /\ outcome(i) \in {"JvmDetectionError", "GoDetectionError"}
                         /\ <<"stack", StackRegistry[i]>> \in result.gaps
<1> DEFINE outcome(i) == Detect(StackRegistry[i], dir).outcome
           deciding == Deciding(dir)
           last == IF deciding = {} THEN Len(StackRegistry) ELSE Least(deciding)
           result == DetectStack(dir)
<1> SUFFICES ASSUME result.error = None
             PROVE  /\ last \in DOMAIN StackRegistry
                    /\ StackRegistry[last] = result.stack /\ outcome(last) = "found"
                    /\ \A i \in 1 .. last - 1 :
                         \/ outcome(i) = "none"
                         \/ /\ outcome(i) \in FallsBack
                            /\ <<"stack", StackRegistry[i]>> \in result.gaps
  BY DEF FallsBack
<1>1. DOMAIN StackRegistry = 1 .. 3 /\ Len(StackRegistry) = 3
  BY DEF StackRegistry
<1>2. deciding = {i \in 1 .. 3 : outcome(i) \notin {"none"} \cup FallsBack}
  BY <1>1 DEF Deciding
<1>3. ASSUME deciding # {}
      PROVE  Least(deciding) \in deciding
               /\ \A m \in deciding : Least(deciding) <= m
  <2>1. \E n \in deciding : \A m \in deciding : n <= m
    BY <1>2, <1>3
  <2> QED
    BY <2>1 DEF Least
<1>4. last \in 1 .. 3
  BY <1>1, <1>2, <1>3
<1>5. /\ result.error = IF outcome(last) = "found" THEN None
                        ELSE IF deciding = {} THEN "UnknownStackError"
                        ELSE outcome(last)
      /\ result.stack = StackRegistry[last]
      /\ result.gaps = {<<"stack", StackRegistry[i]>> :
                          i \in {j \in 1 .. last : outcome(j) \in FallsBack}}
  BY DEF DetectStack
<1>6. \A m \in deciding : last <= m
  BY <1>3
<1>7. deciding # {} => last \in deciding
  BY <1>3
<1> HIDE DEF result, outcome, last, deciding
<1>8. outcome(last) = "found"
  <2> SUFFICES ASSUME outcome(last) # "found" PROVE FALSE
    OBVIOUS
  <2>1. CASE deciding = {}
    BY <1>5, <2>1 DEF None
  <2>2. CASE deciding # {}
    BY <1>2, <1>7, <1>5, <2>2 DEF None
  <2> QED
    BY <2>1, <2>2
<1>9. ASSUME NEW i \in 1 .. last - 1
      PROVE  outcome(i) \in {"none"} \cup FallsBack
  <2>1. i \in 1 .. 3 /\ i < last
    BY <1>4
  <2>2. i \notin deciding
    BY <1>4, <1>6, <2>1
  <2> QED
    BY <1>2, <2>1, <2>2
<1>10. ASSUME NEW i \in 1 .. last - 1, outcome(i) \in FallsBack
      PROVE  <<"stack", StackRegistry[i]>> \in result.gaps
  BY <1>4, <1>5, <1>10
<1> QED
  BY <1>1, <1>4, <1>5, <1>8, <1>9, <1>10

\* The choice of a stack explains the ones it passed over.
LEMMA SelectionIsExplained ==
  ASSUME step = "stack", ChooseStack
  PROVE  /\ DOMAIN choice' = {"error", "stack", "detected", "gaps"}
         /\ NoSilentFallback'
<1> DEFINE decision == StackDecision(config)
<1>1. /\ choice' = SelectStack(project.root, decision)
      /\ config' = config /\ project' = project
  BY DEF ChooseStack, settings, request
<1>2. decision \in SupportedStacks \cup {Unsupported}
  BY DEF StackDecision
<1>3. CASE decision = Unsupported
  <2>1. choice' = [error |-> "UnsupportedStackError", stack |-> "jvm",
                   detected |-> Without("none").result, gaps |-> {}]
    BY <1>1, <1>3 DEF SelectStack, Unsupported
  <2> QED
    BY <2>1 DEF NoSilentFallback, Chosen, None
<1>4. CASE decision = "auto"
  <2>1. choice' = DetectStack(project.root)
    BY <1>1, <1>4 DEF SelectStack, Unsupported
  <2>2. DOMAIN choice' = {"error", "stack", "detected", "gaps"}
    BY <2>1 DEF DetectStack
  <2> QED
    BY <1>1, <1>4, <2>1, <2>2, FirstDeciding DEF NoSilentFallback, Chosen
<1>5. CASE decision \in SupportedStacks \ {"auto"}
  <2>1. choice' = ForcedStack(project.root, decision)
    BY <1>1, <1>5 DEF SelectStack, SupportedStacks, Unsupported
  <2>2. choice'.stack = decision
        /\ DOMAIN choice' = {"error", "stack", "detected", "gaps"}
    BY <2>1 DEF ForcedStack
  <2> QED
    BY <1>1, <1>5, <2>2 DEF NoSilentFallback, SupportedStacks, Unsupported
<1> QED
  BY <1>2, <1>3, <1>4, <1>5

\* Choosing a module only adds to the gaps.
LEMMA ModuleKeepsChoice ==
  ASSUME ChooseModule, ChoiceInv
  PROVE  /\ DOMAIN choice' = {"error", "stack", "detected", "gaps"}
         /\ NoSilentFallback'
<1>1. config' = config /\ project' = project
  BY DEF ChooseModule, settings, request
<1>2. \/ choice' = choice
      \/ \E d, g : choice' = [choice EXCEPT !.detected = d,
                                            !.gaps = choice.gaps \cup g]
  BY DEF ChooseModule
<1>3. /\ DOMAIN choice' = DOMAIN choice
      /\ choice'.error = choice.error /\ choice'.stack = choice.stack
      /\ choice.gaps \subseteq choice'.gaps
  <2>1. ASSUME NEW d, NEW g, choice' = [choice EXCEPT !.detected = d,
                                                      !.gaps = choice.gaps \cup g]
        PROVE  /\ DOMAIN choice' = DOMAIN choice
               /\ choice'.error = choice.error /\ choice'.stack = choice.stack
               /\ choice.gaps \subseteq choice'.gaps
    BY <2>1 DEF ChoiceInv
  <2> QED
    BY <1>2, <2>1
<1> QED
  BY <1>1, <1>3 DEF ChoiceInv, NoSilentFallback, Chosen

\* Whatever stack a run is on, its gaps explain why (_detect_stack).
THEOREM ChoiceCorrect == Spec => []ChoiceInv
<1>0. DOMAIN NoChoice = {"error", "stack", "detected", "gaps"} /\ NoChoice.stack = ""
  BY DEF NoChoice
<1>1. Init => ChoiceInv
  BY <1>0 DEF Init, ChoiceInv, NoSilentFallback, Chosen
<1>2. ChoiceInv /\ [Next]_vars => ChoiceInv'
  <2> SUFFICES ASSUME ChoiceInv, [Next]_vars PROVE ChoiceInv'
    OBVIOUS
  <2>1. CASE LoadForRunner \/ EditConfig \/ CollectInputs
    <3>1. UNCHANGED choice /\ step \in Unselected
      BY <2>1 DEF LoadForRunner, EditConfig, CollectInputs, plans, Unselected
    <3>2. choice' = NoChoice /\ DOMAIN choice' = DOMAIN choice
      BY <3>1 DEF ChoiceInv
    <3>3. ~ Chosen'
      BY <3>2 DEF Chosen, NoChoice
    <3> QED
      BY <3>2, <3>3 DEF ChoiceInv, NoSilentFallback
  <2>2. CASE ChooseStack
    <3>1. step = "stack" /\ step' \notin Unselected
      BY <2>2 DEF ChooseStack, Proceed, Continue, Fail, Unselected
    <3> QED
      BY <2>2, <3>1, SelectionIsExplained DEF ChoiceInv
  <2>3. CASE ChooseModule
    <3>1. step' \notin Unselected
      BY <2>3 DEF ChooseModule, Proceed, Continue, Fail, Unselected
    <3> QED
      BY <2>3, <3>1, ModuleKeepsChoice DEF ChoiceInv
  <2>4. CASE SingleModule \/ MakePlan
    <3>1. UNCHANGED <<config, project, choice>> /\ step' \notin Unselected
      BY <2>4 DEF SingleModule, MakePlan, Proceed, Continue, Fail, Unselected,
                  request, settings, plans
    <3> QED
      BY <3>1 DEF ChoiceInv, NoSilentFallback, Chosen
  <2>5. CASE Writing \/ Gating \/ Publishing
    <3>1. UNCHANGED <<config, project, choice>> /\ step' \notin Unselected
      BY <2>5, LastKeepsPlans DEF Planned, Written, Unselected
    <3> QED
      BY <3>1 DEF ChoiceInv, NoSilentFallback, Chosen
  <2>6. CASE UNCHANGED vars
    BY <2>6 DEF vars, request, settings, plans, ChoiceInv, NoSilentFallback, Chosen
  <2> QED
    BY <2>1, <2>2, <2>3, <2>4, <2>5, <2>6, NextCases DEF Later, Analysing
<1> QED
  BY <1>1, <1>2, PTL DEF Spec

\* A stack that detection passed over was not there, or its failure is in the
\* gaps; a forced stack is taken (_detect_stack, _analyze_impl).
THEOREM FallbackIsTold == Spec => []NoSilentFallback
<1>1. ChoiceInv => NoSilentFallback
  BY DEF ChoiceInv
<1> QED
  BY <1>1, ChoiceCorrect, PTL

-----------------------------------------------------------------------------
(* The files: each step has written what it should, from the plan and the  *)
(* inputs as they are.                                                     *)
WorkloadFile ==
  IF WantsStatefulSet(analysis)
  THEN File("statefulset.yaml", StatefulSet(inputs, analysis, ImageTag(config)))
  ELSE File("deployment.yaml", Deployment(inputs, analysis, ImageTag(config)))
ServiceFile == File("service.yaml", Service(inputs))
AccountFile == File("serviceaccount.yaml", ServiceAccount(inputs))
PolicyFile ==
  File("networkpolicy.yaml", NetworkPolicy(inputs, Ingress(config), Egress(config)))

Basic == <<WorkloadFile, ServiceFile, AccountFile>>
FileSets == {Basic, <<WorkloadFile, ServiceFile, AccountFile, PolicyFile>>}

Unwritten == {"setup", "inputs", "stack", "module", "plan", "dockerfile", "workload"}
Docker == Dockerfile(analysis.stack, analysis.build, analysis.detected,
                     project.root, inputs.port)

FilesInv ==
  /\ step \in Unwritten => manifests = <<>>
  /\ step = "service" => manifests = <<WorkloadFile>>
  /\ step = "serviceaccount" => manifests = <<WorkloadFile, ServiceFile>>
  /\ step = "networkpolicy" => manifests = Basic
  /\ Complete => manifests \in FileSets

DockerInv ==
  /\ step \in Unwritten \ {"workload"} => dockerfile = NoPlan
  /\ dockerfile \in {NoPlan, Docker}
  /\ step \in {"workload"} \cup Written => dockerfile = Docker

\* The documents depend on the inputs, the analysis and the configuration only.
LEMMA FilesStay ==
  ASSUME UNCHANGED <<project, config, inputs, analysis>>
  PROVE  /\ UNCHANGED <<WorkloadFile, ServiceFile, AccountFile, PolicyFile>>
         /\ UNCHANGED <<Basic, FileSets, Docker>>
<1>1. UNCHANGED <<WorkloadFile, ServiceFile, AccountFile, PolicyFile>>
  BY DEF WorkloadFile, ServiceFile, AccountFile, PolicyFile
<1>2. UNCHANGED Docker
  BY DEF Docker
<1> QED
  BY <1>1, <1>2 DEF Basic, FileSets

\* Before STEP 3 there are no files.
LEMMA EarlyKeepsFiles ==
  ASSUME LoadForRunner \/ EditConfig \/ CollectInputs \/ Analysing, FilesInv
  PROVE  FilesInv'
<1>1. /\ step \in Unwritten /\ UNCHANGED manifests
      /\ step' \in Unwritten \cup {"end"}
  BY DEF LoadForRunner, EditConfig, CollectInputs, Analysing, ChooseStack,
         ChooseModule, SingleModule, MakePlan, Proceed, When, Continue, Fail,
         output, Unwritten
<1> QED
  BY <1>1 DEF FilesInv, Unwritten, Complete

(* Append on sequences written out. *)
LEMMA AppendIs ==
  ASSUME NEW S, NEW s \in Seq(S), NEW e \in S, NEW t \in Seq(S),
         Len(t) = Len(s) + 1, \A i \in 1 .. Len(s) : t[i] = s[i],
         t[Len(s) + 1] = e
  PROVE  Append(s, e) = t
<1>1. /\ Append(s, e) \in Seq(S) /\ Len(Append(s, e)) = Len(s) + 1
      /\ \A i \in 1 .. Len(s) : Append(s, e)[i] = s[i]
      /\ Append(s, e)[Len(s) + 1] = e
  BY AppendProperties
<1>2. Len(s) \in Nat
  OBVIOUS
<1>3. \A i \in 1 .. Len(s) + 1 : i \in 1 .. Len(s) \/ i = Len(s) + 1
  BY <1>2
<1>4. \A i \in 1 .. Len(t) : Append(s, e)[i] = t[i]
  BY <1>1, <1>3
<1> QED
  BY <1>1, <1>4, SeqEqual

\* Appending to a sequence of one.
LEMMA AppendTo1 ==
  ASSUME NEW a, NEW b
  PROVE  Append(<<a>>, b) = <<a, b>>
<1> DEFINE S == {a, b}
           s == <<a>>
           t == <<a, b>>
<1>1. s \in Seq(S) /\ t \in Seq(S) /\ b \in S /\ Len(s) = 1 /\ Len(t) = 2
  OBVIOUS
<1>2. /\ Len(t) = Len(s) + 1 /\ t[Len(s) + 1] = b
      /\ \A i \in 1 .. Len(s) : t[i] = s[i]
  BY <1>1
<1> HIDE DEF S, s, t
<1>3. Append(s, b) = t
  BY <1>1, <1>2, AppendIs
<1> QED
  BY <1>3 DEF s, t

\* Appending to a sequence of two.
LEMMA AppendTo2 ==
  ASSUME NEW a, NEW b, NEW c
  PROVE  Append(<<a, b>>, c) = <<a, b, c>>
<1> DEFINE S == {a, b, c}
           s == <<a, b>>
           t == <<a, b, c>>
<1>1. s \in Seq(S) /\ t \in Seq(S) /\ c \in S /\ Len(s) = 2 /\ Len(t) = 3
  OBVIOUS
<1>2. /\ Len(t) = Len(s) + 1 /\ t[Len(s) + 1] = c
      /\ \A i \in 1 .. Len(s) : t[i] = s[i]
  BY <1>1
<1> HIDE DEF S, s, t
<1>3. Append(s, c) = t
  BY <1>1, <1>2, AppendIs
<1> QED
  BY <1>3 DEF s, t

\* Appending to a sequence of three.
LEMMA AppendTo3 ==
  ASSUME NEW a, NEW b, NEW c, NEW d
  PROVE  Append(<<a, b, c>>, d) = <<a, b, c, d>>
<1> DEFINE S == {a, b, c, d}
           s == <<a, b, c>>
           t == <<a, b, c, d>>
<1>1. s \in Seq(S) /\ t \in Seq(S) /\ d \in S /\ Len(s) = 3 /\ Len(t) = 4
  OBVIOUS
<1>2. /\ Len(t) = Len(s) + 1 /\ t[Len(s) + 1] = d
      /\ \A i \in 1 .. Len(s) : t[i] = s[i]
  BY <1>1
<1> HIDE DEF S, s, t
<1>3. Append(s, d) = t
  BY <1>1, <1>2, AppendIs
<1> QED
  BY <1>3 DEF s, t

\* Each writing step appends its own document or ends the run.
LEMMA WritingKeepsFiles ==
  ASSUME Writing, FilesInv
  PROVE  FilesInv'
<1>1. UNCHANGED <<WorkloadFile, ServiceFile, AccountFile, PolicyFile>>
      /\ UNCHANGED <<Basic, FileSets>>
  BY LastKeepsPlans, FilesStay
<1>2. CASE step' = "end"
  BY <1>2 DEF FilesInv, Unwritten, Complete
<1>3. CASE step' # "end" /\ WriteDockerfile
  BY <1>3 DEF WriteDockerfile, Continue, FilesInv, Unwritten, Complete
<1>4. CASE step' # "end" /\ WriteWorkload
  <2>1. step' = "service" /\ manifests' = Append(manifests, WorkloadFile)
    BY <1>4 DEF WriteWorkload, Write, When, Proceed, Continue, Fail, WorkloadFile, None
  <2>2. manifests = <<>>
    BY <1>4 DEF WriteWorkload, FilesInv, Unwritten
  <2>3. manifests' = <<WorkloadFile>>
    BY <2>1, <2>2
  <2> QED
    BY <1>1, <2>1, <2>3 DEF FilesInv, Unwritten, Complete
<1>5. CASE step' # "end" /\ WriteService
  <2>1. step' = "serviceaccount" /\ manifests' = Append(manifests, ServiceFile)
    BY <1>5 DEF WriteService, Write, When, Proceed, Continue, Fail, ServiceFile, None
  <2>2. manifests = <<WorkloadFile>>
    BY <1>5 DEF WriteService, FilesInv
  <2>3. manifests' = <<WorkloadFile, ServiceFile>>
    BY <2>1, <2>2, AppendTo1
  <2> QED
    BY <1>1, <2>1, <2>3 DEF FilesInv, Unwritten, Complete
<1>6. CASE step' # "end" /\ WriteServiceAccount
  <2>1. /\ step' \in {"networkpolicy", "gate"}
        /\ manifests' = Append(manifests, AccountFile)
    BY <1>6 DEF WriteServiceAccount, Write, When, Proceed, Continue, Fail,
                AccountFile, None
  <2>2. manifests = <<WorkloadFile, ServiceFile>>
    BY <1>6 DEF WriteServiceAccount, FilesInv
  <2>3. manifests' = Basic
    BY <2>1, <2>2, AppendTo2 DEF Basic
  <2> QED
    BY <1>1, <2>1, <2>3 DEF FilesInv, FileSets, Unwritten, Complete
<1>7. CASE step' # "end" /\ WriteNetworkPolicy
  <2>1. step' = "gate" /\ manifests' = Append(manifests, PolicyFile)
    BY <1>7 DEF WriteNetworkPolicy, Write, When, Proceed, Continue, Fail,
                PolicyFile, None
  <2>2. manifests = <<WorkloadFile, ServiceFile, AccountFile>>
    BY <1>7 DEF WriteNetworkPolicy, FilesInv, Basic
  <2>3. manifests' = <<WorkloadFile, ServiceFile, AccountFile, PolicyFile>>
    BY <2>1, <2>2, AppendTo3
  <2> QED
    BY <1>1, <2>1, <2>3 DEF FilesInv, FileSets, Unwritten, Complete
<1> QED
  BY <1>2, <1>3, <1>4, <1>5, <1>6, <1>7 DEF Writing

\* The files are the generators' documents, in their order, when the gate
\* reads them (_generate_artifacts_step3).
THEOREM FilesCorrect == Spec => []FilesInv
<1>1. Init => FilesInv
  BY DEF Init, FilesInv, Unwritten, Complete
<1>2. FilesInv /\ [Next]_vars => FilesInv'
  <2> SUFFICES ASSUME FilesInv, [Next]_vars PROVE FilesInv'
    OBVIOUS
  <2>1. CASE ValidateFiles
    <3>1. /\ step = "gate" /\ step' \in {"build", "end"} /\ UNCHANGED manifests
      BY <2>1 DEF ValidateFiles, Proceed, Continue, Fail, output
    <3>2. UNCHANGED FileSets
      BY <2>1, LastKeepsPlans, FilesStay DEF Gating
    <3> QED
      BY <3>1, <3>2 DEF FilesInv, Unwritten, Complete
  <2>2. CASE BuildImage \/ Publishing
    <3>1. step' \in {"published", "audited", "end"}
      BY <2>2 DEF BuildImage, Publish, Fail, Publishing, EditManifests,
                  AuditManifests, Continue
    <3> QED
      BY <3>1 DEF FilesInv, Unwritten, Complete
  <2>3. CASE UNCHANGED vars
    <3>1. UNCHANGED <<project, config, inputs, analysis, manifests, step>>
      BY <2>3 DEF vars, request, settings, asked, plans, output
    <3> QED
      BY <3>1, FilesStay DEF FilesInv, Complete
  <2> QED
    BY <2>1, <2>2, <2>3, NextCases, EarlyKeepsFiles, WritingKeepsFiles
       DEF Later, Gating
<1> QED
  BY <1>1, <1>2, PTL DEF Spec

-----------------------------------------------------------------------------
(* What the complete set of files says.                                    *)
TheWorkload == WorkloadFile.docs[1]

\* A file that the pipeline writes parses and holds one document.
LEMMA FileHasOneDoc ==
  ASSUME NEW name, NEW doc
  PROVE  /\ File(name, doc).docs = <<doc>> /\ File(name, doc).docs[1] = doc
         /\ DocsOf(File(name, doc)) = {doc} /\ File(name, doc).parses
<1>1. File(name, doc).docs = <<doc>> /\ File(name, doc).parses
  BY DEF File
<1>2. DocsOf(File(name, doc)) = {<<doc>>[i] : i \in DOMAIN <<doc>>}
  BY <1>1 DEF DocsOf
<1>3. DOMAIN <<doc>> = {1}
  OBVIOUS
<1> QED
  BY <1>1, <1>2, <1>3

\* The workload is a StatefulSet or a Deployment, and the only document of
\* its file.
LEMMA TheWorkloadIs ==
  /\ TheWorkload = IF WantsStatefulSet(analysis)
                   THEN StatefulSet(inputs, analysis, ImageTag(config))
                   ELSE Deployment(inputs, analysis, ImageTag(config))
  /\ DocsOf(WorkloadFile) = {TheWorkload} /\ WorkloadFile.parses
<1>1. CASE WantsStatefulSet(analysis)
  <2>1. WorkloadFile = File("statefulset.yaml",
                            StatefulSet(inputs, analysis, ImageTag(config)))
    BY <1>1 DEF WorkloadFile
  <2> QED
    BY <1>1, <2>1, FileHasOneDoc DEF TheWorkload
<1>2. CASE ~ WantsStatefulSet(analysis)
  <2>1. WorkloadFile = File("deployment.yaml",
                            Deployment(inputs, analysis, ImageTag(config)))
    BY <1>2 DEF WorkloadFile
  <2> QED
    BY <1>2, <2>1, FileHasOneDoc DEF TheWorkload
<1> QED
  BY <1>1, <1>2

\* What the two kinds of workload have in common.
LEMMA TheWorkloadSays ==
  /\ TheWorkload.kind = IF WantsStatefulSet(analysis) THEN "StatefulSet" ELSE "Deployment"
  /\ TheWorkload.namespace = inputs.namespace
  /\ TheWorkload.selector = inputs.appName /\ TheWorkload.labels = inputs.appName
  /\ TheWorkload.serviceAccount = ServiceAccountName(inputs.appName)
  /\ TheWorkload.automount = "false" /\ TheWorkload.gracePeriod = Unset
  /\ TheWorkload.security = PodSecurity(analysis.defaults.runAsUser)
  /\ DOMAIN TheWorkload.containers = {1}
  /\ \E policy, name, mounts :
       TheWorkload.containers[1] =
         Container(inputs, analysis.defaults, analysis.probes, ImageTag(config),
                   policy, name, mounts)
<1> DEFINE kind == IF WantsStatefulSet(analysis) THEN "StatefulSet" ELSE "Deployment"
           box(policy, name, mounts) ==
             Container(inputs, analysis.defaults, analysis.probes, ImageTag(config),
                       policy, name, mounts)
<1>1. \E p, n, ms, vs, cs :
        TheWorkload = Workload(kind, inputs, analysis.defaults, box(p, n, ms), vs, cs)
  <2>1. CASE WantsStatefulSet(analysis)
    BY <2>1, TheWorkloadIs DEF StatefulSet
  <2>2. CASE ~ WantsStatefulSet(analysis)
    BY <2>2, TheWorkloadIs DEF Deployment
  <2> QED
    BY <2>1, <2>2
<1> HIDE DEF kind, box
<1>2. PICK p, n, ms, vs, cs :
        TheWorkload = Workload(kind, inputs, analysis.defaults, box(p, n, ms), vs, cs)
  BY <1>1
<1>3. /\ TheWorkload.kind = kind
      /\ TheWorkload.namespace = inputs.namespace
      /\ TheWorkload.selector = inputs.appName /\ TheWorkload.labels = inputs.appName
      /\ TheWorkload.serviceAccount = ServiceAccountName(inputs.appName)
      /\ TheWorkload.automount = "false" /\ TheWorkload.gracePeriod = Unset
      /\ TheWorkload.security = PodSecurity(analysis.defaults.runAsUser)
      /\ TheWorkload.containers = <<box(p, n, ms)>>
  BY <1>2 DEF Workload
<1>4. DOMAIN <<box(p, n, ms)>> = {1} /\ <<box(p, n, ms)>>[1] = box(p, n, ms)
  OBVIOUS
<1> QED
  BY <1>3, <1>4 DEF kind, box

\* Where each document is in a set of files.
LEMMA FilesOfASet ==
  ASSUME NEW files \in FileSets
  PROVE  /\ files[1] = WorkloadFile /\ files[2] = ServiceFile
         /\ files[3] = AccountFile
         /\ \A i \in DOMAIN files :
              files[i] \in {WorkloadFile, ServiceFile, AccountFile, PolicyFile}
         /\ {1, 2, 3} \subseteq DOMAIN files
<1> DEFINE W == WorkloadFile
           S == ServiceFile
           A == AccountFile
           P == PolicyFile
<1>1. files = <<W, S, A>> \/ files = <<W, S, A, P>>
  BY DEF FileSets, Basic
<1> HIDE DEF W, S, A, P
<1>2. CASE files = <<W, S, A>>
  <2>1. DOMAIN files = 1 .. 3
    BY <1>2
  <2> QED
    BY <1>2, <2>1 DEF W, S, A, P
<1>3. CASE files = <<W, S, A, P>>
  <2>1. DOMAIN files = 1 .. 4
    BY <1>3
  <2> QED
    BY <1>3, <2>1 DEF W, S, A, P
<1> QED
  BY <1>1, <1>2, <1>3

\* The generated documents agree on namespace, labels, selectors and service
\* account (generate_deployment ... generate_networkpolicy).
THEOREM FilesAgreeOnNames == Spec => []DocumentsAgree
<1>1. FilesInv => DocumentsAgree
  <2> SUFFICES ASSUME FilesInv, Complete PROVE DocumentsAgree
    BY DEF DocumentsAgree
  <2> DEFINE docs == UNION {DocsOf(manifests[i]) : i \in DOMAIN manifests}
  <2>1. manifests \in FileSets
    BY DEF FilesInv
  <2>2. manifests[1] = WorkloadFile /\ 3 \in DOMAIN manifests
        /\ manifests[3] = AccountFile
        /\ \A i \in DOMAIN manifests :
             manifests[i] \in {WorkloadFile, ServiceFile, AccountFile, PolicyFile}
    BY <2>1, FilesOfASet
  <2>3. Workload0 = TheWorkload
    BY <2>2 DEF Workload0, TheWorkload
  <2>4. /\ DocsOf(WorkloadFile) = {TheWorkload}
        /\ DocsOf(ServiceFile) = {Service(inputs)}
        /\ DocsOf(AccountFile) = {ServiceAccount(inputs)}
        /\ DocsOf(PolicyFile)
             = {NetworkPolicy(inputs, Ingress(config), Egress(config))}
    BY TheWorkloadIs, FileHasOneDoc DEF ServiceFile, AccountFile, PolicyFile
  <2>5. \A doc \in docs :
          doc \in {TheWorkload, Service(inputs), ServiceAccount(inputs),
                   NetworkPolicy(inputs, Ingress(config), Egress(config))}
    BY <2>2, <2>4
  <2>6. ServiceAccount(inputs) \in docs
    BY <2>2, <2>4
  <2>7. \A doc \in docs : doc.namespace = inputs.namespace
    BY <2>5, TheWorkloadSays DEF Service, ServiceAccount, NetworkPolicy
  <2>8. \A doc \in docs : doc.kind \in {"Service", "NetworkPolicy"}
                            => doc.selector = inputs.appName
    BY <2>5, TheWorkloadSays DEF Service, ServiceAccount, NetworkPolicy
  <2>9. /\ ServiceAccount(inputs).kind = "ServiceAccount"
        /\ ServiceAccount(inputs).name = TheWorkload.serviceAccount
        /\ ServiceAccount(inputs).automount = "false"
    BY TheWorkloadSays DEF ServiceAccount
  <2> HIDE DEF docs
  <2> QED
    BY <2>3, <2>6, <2>7, <2>8, <2>9, TheWorkloadSays DEF DocumentsAgree, docs
<1> QED
  BY <1>1, FilesCorrect, PTL

\* A workload is a StatefulSet if and only if a build file names a database
\* library or a Spring file a data source (_detect_statefulness).
THEOREM StatefulNeedsEvidence == Spec => []StatefulMeansEvidence
<1>1. FilesInv /\ PlanInv => StatefulMeansEvidence
  <2> SUFFICES ASSUME FilesInv, PlanInv, Complete PROVE StatefulMeansEvidence
    BY DEF StatefulMeansEvidence
  <2> DEFINE all == {dirs[i] : i \in DOMAIN dirs}
             names(d) == \E i \in DOMAIN d.builds :
                           /\ d.builds[i].state # "unreadable"
                           /\ d.builds[i].deps \cap HighSignals # {}
             deps == UNION {BuildFileDeps(d) : d \in all}
             high == (deps \cap HighSignals # {}) \/ (\E d \in all : HasDatasource(d))
  <2>1. Workload0 = TheWorkload
    BY FilesOfASet DEF FilesInv, Workload0, TheWorkload
  <2>2. analysis.statefulness = Statefulness(all)
    <3>1. step \in Planned
      BY DEF Complete, Planned, Written
    <3> QED
      BY <3>1 DEF PlanInv, Plan
  <2>3. Statefulness(all).isStateful /\ Statefulness(all).confidence = "high" <=> high
    BY DEF Statefulness
  <2>4. ASSUME NEW d
        PROVE  BuildFileDeps(d) \cap HighSignals # {} <=> names(d)
    BY DEF BuildFileDeps
  <2>5. deps \cap HighSignals # {} <=> \E d \in all : names(d)
    BY <2>4
  <2>6. high <=> \E i \in DOMAIN dirs : names(dirs[i]) \/ HasDatasource(dirs[i])
    BY <2>5
  <2>7. Workload0.kind = "StatefulSet" <=> WantsStatefulSet(analysis)
    BY <2>1, TheWorkloadSays
  <2> HIDE DEF high
  <2> QED
    BY <2>2, <2>3, <2>6, <2>7 DEF WantsStatefulSet, StatefulMeansEvidence
<1> QED
  BY <1>1, FilesCorrect, PlanCorrect, PTL

(* Mounts and volumes. *)
LEMMA VolumesOfPaths ==
  ASSUME NEW paths, <<>> \notin paths
  PROVE  /\ {m.path : m \in WritableVolumeMounts(paths)} = paths
         /\ {m.name : m \in WritableVolumeMounts(paths)} = paths
         /\ WritableVolumes(paths) = paths
<1>1. \A p \in paths : VolumeNameForPath(p) = p
  BY DEF VolumeNameForPath
<1>2. WritableVolumes(paths) = paths
  BY <1>1 DEF WritableVolumes
<1>3. ASSUME NEW p \in paths
      PROVE  [name |-> p, path |-> p] \in WritableVolumeMounts(paths)
  BY <1>1 DEF WritableVolumeMounts
<1>4. ASSUME NEW m \in WritableVolumeMounts(paths)
      PROVE  m.path \in paths /\ m.name = m.path
  BY <1>1 DEF WritableVolumeMounts
<1>5. {m.path : m \in WritableVolumeMounts(paths)} = paths
  BY <1>3, <1>4
<1>6. {m.name : m \in WritableVolumeMounts(paths)} = paths
  BY <1>3, <1>4
<1> QED
  BY <1>2, <1>5, <1>6

\* What is mounted, and what backs it: fixed paths in a StatefulSet, the
\* stack's in a Deployment.
LEMMA TheWorkloadMounts ==
  LET mounts == TheWorkload.containers[1].mounts
      paths == analysis.defaults.writablePaths
      fixed == {<<"tmp">>, <<"data">>}
  IN  IF WantsStatefulSet(analysis)
      THEN /\ mounts = WritableVolumeMounts(fixed)
           /\ TheWorkload.volumes \cup TheWorkload.claims = fixed
      ELSE /\ mounts = WritableVolumeMounts(paths)
           /\ TheWorkload.volumes \cup TheWorkload.claims = WritableVolumes(paths)
<1>1. CASE WantsStatefulSet(analysis)
  BY <1>1, TheWorkloadIs DEF StatefulSet, Workload, Container
<1>2. CASE ~ WantsStatefulSet(analysis)
  BY <1>2, TheWorkloadIs DEF Deployment, Workload, Container
<1> QED
  BY <1>1, <1>2

\* Every stack writes to /tmp, none to the root.
LEMMA StackPaths ==
  ASSUME NEW stack \in StackNames
  PROVE  <<>> \notin WritablePaths[stack] /\ <<"tmp">> \in WritablePaths[stack]
BY DEF StackNames, WritablePaths

\* Every mount has its volume or claim, and every path that a Deployment's
\* stack writes to has a mount (generate_deployment, generate_statefulset).
THEOREM MountsAreBacked == Spec => []MountsHaveVolumes
<1>1. FilesInv /\ PlanInv => MountsHaveVolumes
  <2> SUFFICES ASSUME FilesInv, PlanInv, Complete PROVE MountsHaveVolumes
    BY DEF MountsHaveVolumes
  <2> DEFINE mounts == Workload0.containers[1].mounts
             paths == {m.path : m \in mounts}
             named == {m.name : m \in mounts}
  <2>1. Workload0 = TheWorkload
    BY FilesOfASet DEF FilesInv, Workload0, TheWorkload
  <2>2. /\ choice.stack \in StackNames /\ analysis.stack = choice.stack
        /\ analysis.defaults.writablePaths = WritablePaths[choice.stack]
    <3>1. step \in Planned
      BY DEF Complete, Planned, Written
    <3> QED
      BY <3>1 DEF PlanInv, Plan, Defaults
  <2>3. CASE WantsStatefulSet(analysis)
    <3> DEFINE fixed == {<<"tmp">>, <<"data">>}
    <3>1. <<>> \notin fixed /\ <<"tmp">> \in fixed
      OBVIOUS
    <3>2. mounts = WritableVolumeMounts(fixed)
          /\ Workload0.volumes \cup Workload0.claims = fixed
      BY <2>1, <2>3, TheWorkloadMounts
    <3> HIDE DEF fixed, mounts
    <3>3. paths = fixed /\ named = fixed
      BY <3>1, <3>2, VolumesOfPaths
    <3>4. Workload0.kind # "Deployment"
      BY <2>1, <2>3, TheWorkloadSays
    <3> QED
      BY <3>1, <3>2, <3>3, <3>4 DEF MountsHaveVolumes, mounts
  <2>4. CASE ~ WantsStatefulSet(analysis)
    <3> DEFINE stacks == WritablePaths[analysis.stack]
    <3>1. <<>> \notin stacks /\ <<"tmp">> \in stacks
      BY <2>2, StackPaths
    <3>2. mounts = WritableVolumeMounts(stacks)
          /\ Workload0.volumes \cup Workload0.claims = WritableVolumes(stacks)
      BY <2>1, <2>2, <2>4, TheWorkloadMounts
    <3> HIDE DEF stacks, mounts
    <3>3. paths = stacks /\ named = stacks /\ WritableVolumes(stacks) = stacks
      BY <3>1, <3>2, VolumesOfPaths
    <3> QED
      BY <3>1, <3>2, <3>3 DEF MountsHaveVolumes, mounts, stacks
  <2> QED
    BY <2>3, <2>4
<1> QED
  BY <1>1, FilesCorrect, PlanCorrect, PTL

-----------------------------------------------------------------------------
\* The Dockerfile is the one the plan and the inputs give (dockerfile_context).
THEOREM DockerfileCorrect == Spec => []DockerInv
<1>1. Init => DockerInv
  BY DEF Init, DockerInv, Unwritten, Written
<1>2. DockerInv /\ [Next]_vars => DockerInv'
  <2> SUFFICES ASSUME DockerInv, [Next]_vars PROVE DockerInv'
    OBVIOUS
  <2>1. CASE LoadForRunner \/ EditConfig \/ CollectInputs \/ Analysing
    <3>1. /\ step \in Unwritten \ {"workload"} /\ UNCHANGED dockerfile
          /\ step' \in (Unwritten \ {"workload"}) \cup {"end"}
      BY <2>1 DEF LoadForRunner, EditConfig, CollectInputs, Analysing, ChooseStack,
                  ChooseModule, SingleModule, MakePlan, Proceed, When, Continue,
                  Fail, output, Unwritten
    <3> QED
      BY <3>1 DEF DockerInv, Unwritten, Written
  <2>2. CASE WriteDockerfile
    <3>1. dockerfile' = Docker /\ step' = "workload"
      BY <2>2 DEF WriteDockerfile, Continue, Docker
    <3>2. Docker' = Docker
      BY <2>2, LastKeepsPlans, FilesStay DEF Writing
    <3> QED
      BY <3>1, <3>2 DEF DockerInv, Unwritten
  <2>3. CASE WriteWorkload \/ WriteService \/ WriteServiceAccount
               \/ WriteNetworkPolicy \/ Gating \/ Publishing
    <3>1. Docker' = Docker /\ UNCHANGED <<analysis>>
      BY <2>3, LastKeepsPlans, FilesStay DEF Writing
    <3>2. /\ UNCHANGED dockerfile /\ step \in {"workload"} \cup Written
          /\ step' \notin Unwritten \ {"workload"}
      BY <2>3 DEF WriteWorkload, WriteService, WriteServiceAccount,
                  WriteNetworkPolicy, Write, When, Proceed, Continue, Fail, Gating,
                  ValidateFiles, BuildImage, Publish, Publishing, EditManifests,
                  AuditManifests, output, Written, Unwritten
    <3> QED
      BY <3>1, <3>2 DEF DockerInv
  <2>4. CASE UNCHANGED vars
    <3>1. UNCHANGED <<project, config, inputs, analysis, dockerfile, step>>
      BY <2>4 DEF vars, request, settings, asked, plans, output
    <3> QED
      BY <3>1, FilesStay DEF DockerInv
  <2> QED
    BY <2>1, <2>2, <2>3, <2>4, NextCases DEF Later, Writing
<1> QED
  BY <1>1, <1>2, PTL DEF Spec

\* The server a python image starts is a declared dependency, and installed
\* but for the named exceptions (_detect_server_command).
THEOREM ServerIsDeclared == Spec => []StartedServerIsDeclared
<1>1. DockerInv => StartedServerIsDeclared
  <2> DEFINE root == project.root
             server == dockerfile.command.server
             installed == IF dockerfile.install = "requirements-txt"
                          THEN root.requirements.core ELSE root.pyproject.core
  <2> SUFFICES ASSUME DockerInv, dockerfile # NoPlan,
                      dockerfile.command # NoCommand
               PROVE  /\ server \in DirectDeps(root)
                      /\ \/ server \in installed
                         \/ /\ root.pyproject.there \/ root.uvLock
                            /\ server \in root.requirements.core
                         \/ server \in root.pyproject.extras
                                         \cup root.requirements.extras
    BY DEF StartedServerIsDeclared
  <2>1. dockerfile = Docker
    BY DEF DockerInv
  <2>2. analysis.stack = "python"
    BY <2>1 DEF Docker, Dockerfile
  <2>3. /\ dockerfile.install = UvSync(root)
        /\ dockerfile.command = ServerCommand(root, analysis.detected, inputs.port)
    BY <2>1, <2>2 DEF Docker, Dockerfile
  <2>4. server \in DirectDeps(root)
    <3> DEFINE package == ServerPackage(PythonFramework(root))
    <3>1. package \in DirectDeps(root)
      BY <2>3 DEF ServerCommand
    <3>2. \E e, p : dockerfile.command = [server |-> package, entrypoint |-> e, port |-> p]
      BY <2>3 DEF ServerCommand
    <3> QED
      BY <3>1, <3>2
  <2>5. dockerfile.install = "requirements-txt"
          <=> ~ root.uvLock /\ ~ root.pyproject.there /\ root.requirements.there
    BY <2>3 DEF UvSync
  <2> HIDE DEF root, server
  <2>6. CASE server \in Declared(root.pyproject)
    <3>1. root.pyproject.there
            /\ server \in root.pyproject.core \cup root.pyproject.extras
      BY <2>6 DEF Declared
    <3> QED
      BY <2>4, <2>5, <3>1
  <2>7. CASE server \in Declared(root.requirements)
    <3>1. root.requirements.there
            /\ server \in root.requirements.core \cup root.requirements.extras
      BY <2>7 DEF Declared
    <3> QED
      BY <2>4, <2>5, <3>1
  <2> QED
    BY <2>4, <2>6, <2>7 DEF DirectDeps
<1> QED
  BY <1>1, DockerfileCorrect, PTL

-----------------------------------------------------------------------------
(* The validator on what the generator writes: rule by rule.               *)
Untagged == Images[ImageTag(config)].tag = ""
Good(results) ==
  \A r \in results : r.level = "FAIL" => r.rule = "IMG-001" /\ Untagged

\* A passed rule does not fail.
LEMMA PassIsGood ==
  ASSUME NEW rule
  PROVE  Good({[rule |-> rule, level |-> "PASS"]})
BY DEF Good

\* A demand that holds does not fail.
LEMMA MustIsGood ==
  ASSUME NEW rule, NEW holds \in BOOLEAN, holds
  PROVE  Good(Must(rule, holds))
<1>1. Must(rule, holds) = {[rule |-> rule, level |-> "PASS"]}
  BY DEF Must
<1> QED
  BY <1>1, PassIsGood

\* A warning does not fail.
LEMMA WarnIsGood ==
  ASSUME NEW rule, NEW holds \in BOOLEAN
  PROVE  Good(Warn(rule, holds))
<1>1. CASE holds
  BY <1>1 DEF Good, Warn
<1>2. CASE ~ holds
  BY <1>2 DEF Good, Warn
<1> QED
  BY <1>1, <1>2

\* Good reports together are good.
LEMMA GoodUnion ==
  ASSUME NEW S, NEW T, Good(S), Good(T)
  PROVE  Good(S \cup T)
BY DEF Good

Hardened(c) ==
  /\ c.runAsNonRoot = "unset" /\ c.runAsUser = Unset
  /\ c.privileged = "false" /\ c.escalation = "false" /\ c.readOnlyRoot = "true"
  /\ "ALL" \in c.drop /\ c.secrets = {}
  /\ c.image = ImageTag(config)
  /\ c.probes.liveness.kind # "none" /\ c.probes.readiness.kind # "none"
  /\ c.cpuRequest # NotSet /\ c.cpuLimit # NotSet

\* A hardened container with an accepted image passes its rules, but perhaps
\* IMG-001.
LEMMA ContainerIsGood ==
  ASSUME NEW c, NEW uid \in Nat \ {0}, Hardened(c), ValidImageReference(ImageTag(config))
  PROVE  Good(ContainerRules(c, PodSecurity(uid)))
<1> DEFINE pod == PodSecurity(uid)
<1>0. pod.runAsNonRoot = "true" /\ pod.runAsUser = uid
  BY DEF PodSecurity
<1>1. Good(SEC001(c, pod))
  BY <1>0, MustIsGood DEF SEC001, Hardened, EffectiveFlag
<1>2. Good(SEC002(c))
  BY MustIsGood DEF SEC002, Hardened
<1>3. Good(SEC003(c))
  BY MustIsGood DEF SEC003, Hardened
<1>4. Good(SEC004(c))
  BY MustIsGood DEF SEC004, Hardened
<1>5. Good(SEC005(c))
  BY MustIsGood DEF SEC005, Hardened
<1>6. Good(SEC007(c, pod))
  <2>1. EffectiveUser(c.runAsUser, pod.runAsUser) > 0
    BY <1>0 DEF EffectiveUser, Hardened, Unset, NotSet
  <2> QED
    BY <2>1, MustIsGood DEF SEC007
<1>7. Good(SEC009(c))
  BY MustIsGood DEF SEC009, Hardened
<1>8. Good(IMG001(c))
  <2>1. Tagged(c.image) \/ Untagged
    BY DEF ValidImageReference, Hardened, Tagged, Untagged
  <2>2. Tagged(c.image) \in BOOLEAN
    BY DEF Tagged
  <2>3. CASE Tagged(c.image)
    BY <2>2, <2>3, MustIsGood DEF IMG001
  <2>4. CASE ~ Tagged(c.image) /\ Untagged
    BY <2>4 DEF IMG001, Must, Good
  <2> QED
    BY <2>1, <2>3, <2>4
<1>9. Good(IMGW01(c)) /\ Good(IMGW02(c)) /\ Good(RESW01(c))
  BY WarnIsGood DEF IMGW01, IMGW02, RESW01
<1>10. Good(PRB001(c)) /\ Good(PRB002(c))
  BY MustIsGood DEF PRB001, PRB002, HasProbe, Hardened
<1>11. Good(RES001(c))
  BY MustIsGood DEF RES001, Hardened
<1> HIDE DEF pod
<1> QED
  BY <1>1, <1>2, <1>3, <1>4, <1>5, <1>6, <1>7, <1>8, <1>9, <1>10, <1>11, GoodUnion
     DEF ContainerRules, pod

\* The security context that the templates give a pod passes.
LEMMA PodSecurityIsGood ==
  ASSUME NEW uid \in Nat \ {0}
  PROVE  Good(SEC006(PodSecurity(uid))) /\ Good(SEC008(PodSecurity(uid)))
<1>1. /\ PodSecurity(uid).seccomp \in {"RuntimeDefault", "Localhost"}
      /\ PodSecurity(uid).fsGroup > 0
  BY DEF PodSecurity
<1>2. Good(SEC006(PodSecurity(uid)))
  BY <1>1, MustIsGood DEF SEC006
<1>3. Good(SEC008(PodSecurity(uid)))
  BY <1>1, MustIsGood DEF SEC008
<1> QED
  BY <1>2, <1>3

\* The rule on the grace period warns at most.
LEMMA LifeIsGood ==
  ASSUME NEW doc
  PROVE  Good(LIFEW01(doc))
<1> DEFINE short == doc.gracePeriod < 30
<1>1. LIFEW01(doc) = Warn("LIFE-W01", short) /\ short \in BOOLEAN
  BY DEF LIFEW01
<1> HIDE DEF short
<1> QED
  BY <1>1, WarnIsGood

\* The rules on the pod pass if its context and account do.
LEMMA PodIsGood ==
  ASSUME NEW doc, Good(SEC006(doc.security)), Good(SEC008(doc.security)),
         doc.automount = "false", doc.serviceAccount # ""
  PROVE  Good(PodRules(doc))
<1>1. Good(SA001(doc))
  BY MustIsGood DEF SA001
<1>2. Good(SA002(doc))
  BY MustIsGood DEF SA002
<1> QED
  BY <1>1, <1>2, LifeIsGood, GoodUnion DEF PodRules

(* The probes and the limits of a plan. *)
LEMMA JvmProbes ==
  ASSUME NEW detected
  PROVE  \E k, p1, p2, o : /\ JvmProbePlan(detected) = Probes(Probe(k, p1, o), Probe(k, p2, o))
                          /\ k # "none"
<1> DEFINE port == PortOr(detected, JvmDefaultPort)
           actuator == detected.framework = "spring-boot" /\ detected.actuator
<1>1. CASE ~ actuator
  <2>1. JvmProbePlan(detected) = Probes(Probe("tcp", "", port), Probe("tcp", "", port))
    BY <1>1 DEF JvmProbePlan
  <2> HIDE DEF port
  <2>2. "tcp" # "none"
    OBVIOUS
  <2> QED
    BY <2>1, <2>2, Zenon
<1>2. CASE actuator /\ detected.major >= 3
  <2>1. JvmProbePlan(detected)
          = Probes(Probe("http", "/actuator/health/liveness", port),
                   Probe("http", "/actuator/health/readiness", port))
    BY <1>2 DEF JvmProbePlan
  <2> QED
    BY <2>1
<1>3. CASE actuator /\ ~ detected.major >= 3
  <2>1. JvmProbePlan(detected) = Probes(Probe("http", "/actuator/health", port),
                                        Probe("http", "/actuator/health", port))
    BY <1>3 DEF JvmProbePlan
  <2> QED
    BY <2>1
<1> QED
  BY <1>1, <1>2, <1>3

\* Every stack plans both probes, and no override takes one away.
LEMMA PlansHaveProbes ==
  ASSUME NEW stack \in StackNames, NEW detected, NEW c
  PROVE  LET probes == ApplyProbeOverrides(c, stack, ProbePlan(stack, detected))
         IN  probes.liveness.kind # "none" /\ probes.readiness.kind # "none"
<1> DEFINE plan == ProbePlan(stack, detected)
<1>1. \E k1, p1, o1, k2, p2, o2 :
        /\ plan = Probes(Probe(k1, p1, o1), Probe(k2, p2, o2))
        /\ k1 # "none" /\ k2 # "none"
  <2>1. CASE stack = "jvm"
    BY <2>1, JvmProbes DEF ProbePlan
  <2>2. CASE stack = "go"
    BY <2>2 DEF ProbePlan, HealthProbePlan
  <2>3. CASE stack = "python"
    BY <2>3 DEF ProbePlan, HealthProbePlan
  <2> QED
    BY <2>1, <2>2, <2>3 DEF StackNames
<1> HIDE DEF plan
<1>2. PICK k1, p1, o1, k2, p2, o2 :
        /\ plan = Probes(Probe(k1, p1, o1), Probe(k2, p2, o2))
        /\ k1 # "none" /\ k2 # "none"
  BY <1>1
<1>3. plan.liveness = Probe(k1, p1, o1) /\ plan.readiness = Probe(k2, p2, o2)
  BY <1>2 DEF Probes
<1>4. ASSUME NEW k, NEW p, NEW o, NEW path
      PROVE  /\ Probe(k, p, o).kind = k
             /\ [Probe(k, p, o) EXCEPT !.path = path].kind = k
  BY DEF Probe
<1> QED
  BY <1>2, <1>3, <1>4 DEF ApplyProbeOverrides, Probes, plan

\* Every stack has a user other than root and limits for each hint.
LEMMA PlansHaveLimits ==
  ASSUME NEW stack \in StackNames, NEW hint \in {"small", "medium", "large"}
  PROVE  /\ Defaults(stack, hint).runAsUser \in Nat \ {0}
         /\ Defaults(stack, hint).cpuRequest # NotSet
         /\ Defaults(stack, hint).cpuLimit # NotSet
<1>1. RunAsUser[stack] \in Nat \ {0}
  BY DEF StackNames, RunAsUser
<1>2. CpuTiers[stack][hint] \in Nat \X Nat
  BY DEF StackNames, CpuTiers
<1>3. NotSet \notin Nat
  BY DEF NotSet
<1> QED
  BY <1>1, <1>2, <1>3 DEF Defaults

(* What the gate relies on, of the inputs. *)
Hints == {"small", "medium", "large"}
InputsInv == Loaded /\ error = None => inputs.resourceHint \in Hints
ErrorInv == error # None => step = "end"

\* A run that is past STEP 1 has one of the three resource hints; an error
\* ends it.
THEOREM InputsCorrect == Spec => [](InputsInv /\ ErrorInv)
<1> DEFINE Inv == InputsInv /\ ErrorInv
<1>1. Init => Inv
  BY DEF Init, InputsInv, ErrorInv, Loaded
<1>2. Inv /\ [Next]_vars => Inv'
  <2> SUFFICES ASSUME Inv, [Next]_vars PROVE Inv'
    OBVIOUS
  <2>1. CASE LoadForRunner \/ EditConfig
    BY <2>1 DEF LoadForRunner, EditConfig, Proceed, When, Continue, Fail, InputsInv,
                ErrorInv, Loaded, None
  <2>2. CASE CollectInputs
    <3>1. CASE InputsRefused(config', replies')
      BY <2>2, <3>1 DEF CollectInputs, Fail, InputsInv, ErrorInv, None
    <3>2. CASE ~ InputsRefused(config', replies')
      <4>1. inputs' = Inputs(config', dirName, replies') /\ step' = "stack"
            /\ error' = error /\ step = "inputs"
        BY <2>2, <3>2 DEF CollectInputs, Continue
      <4>2. inputs'.resourceHint \in Hints
        BY <4>1, CoerceInto DEF Inputs, Hints
      <4> QED
        BY <4>1, <4>2 DEF InputsInv, ErrorInv
    <3> QED
      BY <3>1, <3>2
  <2>3. CASE Later
    <3>1. UNCHANGED inputs /\ Loaded /\ (error # None => step = "end")
      BY <2>3, LaterKeepsSettings DEF asked, ErrorInv
    <3>2. /\ error' # None => step' = "end" \/ error' = error
          /\ error' = None => error = None
      BY <2>3, <3>1 DEF Later, Analysing, ChooseStack, ChooseModule, SingleModule,
           MakePlan, Writing, WriteDockerfile, WriteWorkload, WriteService,
           WriteServiceAccount, WriteNetworkPolicy, Write, Gating, ValidateFiles,
           BuildImage, Publish, Publishing, EditManifests, AuditManifests, Proceed,
           When, Continue, Fail, None
    <3>3. step # "end"
      BY <2>3 DEF Later, Analysing, ChooseStack, ChooseModule, SingleModule,
           MakePlan, Writing, WriteDockerfile, WriteWorkload, WriteService,
           WriteServiceAccount, WriteNetworkPolicy, Gating, ValidateFiles,
           BuildImage, Publishing, EditManifests, AuditManifests
    <3> QED
      BY <3>1, <3>2, <3>3 DEF InputsInv, ErrorInv
  <2>4. CASE UNCHANGED vars
    BY <2>4 DEF vars, asked, InputsInv, ErrorInv, Loaded
  <2> QED
    BY <2>1, <2>2, <2>3, <2>4, NextCases
<1> QED
  BY <1>1, <1>2, PTL DEF Spec

(* The gate's report on a complete set of files. *)
GracePeriodWarning == [rule |-> "LIFE-W01", level |-> "WARN"]

\* The workload of a plan passes every rule on it, but perhaps IMG-001.
LEMMA TheWorkloadIsGood ==
  ASSUME choice.stack \in StackNames, inputs.resourceHint \in Hints,
         analysis = Plan(config, choice.stack, choice.detected,
                         {dirs[i] : i \in DOMAIN dirs}, inputs),
         ~ DeploymentRefused(inputs, ImageTag(config))
  PROVE  Good(CheckPodSpec(TheWorkload))
<1> DEFINE doc == TheWorkload
           c == doc.containers[1]
           uid == analysis.defaults.runAsUser
<1>1. /\ analysis.defaults = Defaults(choice.stack, inputs.resourceHint)
      /\ \E d : analysis.probes = ApplyProbeOverrides(config, choice.stack,
                                                      ProbePlan(choice.stack, d))
  BY DEF Plan
<1>2. /\ analysis.defaults.runAsUser \in Nat \ {0}
      /\ analysis.defaults.cpuRequest # NotSet /\ analysis.defaults.cpuLimit # NotSet
  BY <1>1, PlansHaveLimits DEF Hints
<1>3. analysis.probes.liveness.kind # "none" /\ analysis.probes.readiness.kind # "none"
  BY <1>1, PlansHaveProbes
<1>4. ValidImageReference(ImageTag(config)) /\ inputs.appName \in Labels
  BY DEF DeploymentRefused, NameRefused
<1>5. Hardened(c)
  <2>1. PICK p, n, ms : c = Container(inputs, analysis.defaults, analysis.probes,
                                      ImageTag(config), p, n, ms)
    BY TheWorkloadSays
  <2> QED
    BY <1>2, <1>3, <2>1 DEF Container, Hardened
<1>6. doc.security = PodSecurity(uid) /\ doc.automount = "false"
      /\ doc.serviceAccount = ServiceAccountName(inputs.appName)
      /\ DOMAIN doc.containers = {1}
  BY TheWorkloadSays
<1>7. doc.serviceAccount # ""
  BY <1>4, <1>6, SuffixAssumption
<1> HIDE DEF doc
<1>8. Good(PodRules(doc))
  BY <1>2, <1>6, <1>7, PodSecurityIsGood, PodIsGood
<1>9. Good(ContainerRules(c, doc.security))
  BY <1>2, <1>4, <1>5, <1>6, ContainerIsGood
<1>10. UNION {ContainerRules(doc.containers[i], doc.security) : i \in DOMAIN doc.containers}
         = ContainerRules(c, doc.security)
  BY <1>6
<1> QED
  BY <1>8, <1>9, <1>10, GoodUnion DEF CheckPodSpec, doc

\* Of the other documents only the Service has a rule to pass.
LEMMA OtherDocsAreGood ==
  /\ ValidateDoc(Service(inputs), <<Service(inputs)>>) = SVC001(Service(inputs))
  /\ ValidateDoc(ServiceAccount(inputs), <<ServiceAccount(inputs)>>) = {}
  /\ LET policy == NetworkPolicy(inputs, Ingress(config), Egress(config))
     IN  ValidateDoc(policy, <<policy>>) = {}
<1> DEFINE service == Service(inputs)
<1>1. /\ service.kind = "Service" /\ ServiceAccount(inputs).kind = "ServiceAccount"
      /\ NetworkPolicy(inputs, Ingress(config), Egress(config)).kind = "NetworkPolicy"
  BY DEF Service, ServiceAccount, NetworkPolicy
<1>2. SVC002(service, <<service>>) = {}
  <2>1. {i \in DOMAIN <<service>> :
           <<service>>[i].kind \in {"Deployment", "StatefulSet", "DaemonSet"}} = {}
    <3>1. \A i \in DOMAIN <<service>> : <<service>>[i] = service
      OBVIOUS
    <3> HIDE DEF service
    <3> QED
      BY <1>1, <3>1
  <2> QED
    BY <2>1 DEF SVC002
<1> HIDE DEF service
<1> QED
  BY <1>1, <1>2 DEF ValidateDoc, WorkloadKinds, service

\* The report on the pipeline's files has no failure but IMG-001, and the
\* warning that keeps it from being all clear.
LEMMA ReportIsGood ==
  ASSUME NEW files \in FileSets, Good(CheckPodSpec(TheWorkload))
  PROVE  /\ Good(Validate(files).results)
         /\ GracePeriodWarning \in Validate(files).results
         /\ Validate(files).exitCode # 0
<1> DEFINE results == Validate(files).results
           readable == {k \in DOMAIN files : files[k].parses}
           all == UNION {UNION {ValidateDoc(doc, files[k].docs) : doc \in DocsOf(files[k])} :
                           k \in readable}
           broken == UNION {Must("PARSE-ERR", FALSE) : k \in DOMAIN files \ readable}
           policies == NETW01(UNION {DocsOf(files[k]) : k \in readable})
           account == ServiceAccount(inputs)
           service == Service(inputs)
           policy == NetworkPolicy(inputs, Ingress(config), Egress(config))
<1>1. /\ results = all \cup broken \cup policies
      /\ Validate(files).exitCode = ExitCode(results)
  BY DEF Validate
<1>2. /\ files[1] = WorkloadFile /\ 1 \in DOMAIN files
      /\ \A k \in DOMAIN files :
           files[k] \in {WorkloadFile, ServiceFile, AccountFile, PolicyFile}
  BY FilesOfASet
<1>3. /\ DocsOf(WorkloadFile) = {TheWorkload} /\ WorkloadFile.parses
      /\ DocsOf(ServiceFile) = {service} /\ ServiceFile.parses
      /\ ServiceFile.docs = <<service>>
      /\ DocsOf(AccountFile) = {account} /\ AccountFile.parses
      /\ AccountFile.docs = <<account>>
      /\ DocsOf(PolicyFile) = {policy} /\ PolicyFile.parses
      /\ PolicyFile.docs = <<policy>>
  BY TheWorkloadIs, FileHasOneDoc DEF ServiceFile, AccountFile, PolicyFile
<1>4. readable = DOMAIN files
  BY <1>2, <1>3
<1>5. broken = {}
  BY <1>4
<1>6. TheWorkload.kind \in {"Deployment", "StatefulSet"}
  BY TheWorkloadSays
<1> HIDE DEF results, account, service, policy
<1>7. /\ Good(ValidateDoc(TheWorkload, WorkloadFile.docs))
      /\ CheckPodSpec(TheWorkload) \subseteq ValidateDoc(TheWorkload, WorkloadFile.docs)
  <2>1. \/ ValidateDoc(TheWorkload, WorkloadFile.docs) = CheckPodSpec(TheWorkload)
        \/ ValidateDoc(TheWorkload, WorkloadFile.docs)
             = CheckPodSpec(TheWorkload) \cup STSW01(TheWorkload)
    BY <1>6 DEF ValidateDoc, WorkloadKinds
  <2>2. Good(STSW01(TheWorkload))
    BY WarnIsGood DEF STSW01
  <2> QED
    BY <2>1, <2>2, GoodUnion
<1>8. /\ Good(ValidateDoc(service, <<service>>))
      /\ Good(ValidateDoc(account, <<account>>))
      /\ Good(ValidateDoc(policy, <<policy>>))
  <2>1. Good(SVC001(service)) /\ Good({})
    BY MustIsGood DEF SVC001, Good
  <2> QED
    BY <2>1, OtherDocsAreGood DEF service, account, policy
<1>9. \A k \in DOMAIN files : \A doc \in DocsOf(files[k]) :
        Good(ValidateDoc(doc, files[k].docs))
  BY <1>2, <1>3, <1>7, <1>8
<1>10. Good(all)
  BY <1>4, <1>9 DEF Good
<1>11. Good(policies)
  BY WarnIsGood DEF NETW01
<1>12. GracePeriodWarning \in all
  <2>1. Unset < 30 /\ TheWorkload.gracePeriod = Unset
    BY TheWorkloadSays DEF Unset
  <2>2. LIFEW01(TheWorkload) = {GracePeriodWarning}
    BY <2>1 DEF LIFEW01, Warn, GracePeriodWarning
  <2>3. GracePeriodWarning \in ValidateDoc(TheWorkload, WorkloadFile.docs)
    BY <1>7, <2>2 DEF CheckPodSpec, PodRules
  <2> QED
    BY <1>2, <1>3, <1>4, <2>3
<1> HIDE DEF all, broken, policies
<1>13. Good(results) /\ GracePeriodWarning \in results
  BY <1>1, <1>5, <1>10, <1>11, <1>12, GoodUnion
<1>14. ExitCode(results) # 0
  <2>1. GracePeriodWarning.level = "WARN"
    BY DEF GracePeriodWarning
  <2> QED
    BY <1>13, <2>1 DEF ExitCode
<1> QED
  BY <1>1, <1>13, <1>14 DEF results

ReportInv ==
  /\ Gated => /\ Good(report.results) /\ GracePeriodWarning \in report.results
              /\ report.exitCode # 0
  /\ exitCode # 0

(* Detection never fails the way the gate does. *)
LEMMA DetectionFailures ==
  ASSUME NEW stack \in StackNames, NEW dir
  PROVE  Detect(stack, dir).outcome \in {"found", "none", "JvmDetectionError",
                                         "GoDetectionError", "OSError",
                                         "EntitiesForbidden", "AttributeError"}
<1>1. CASE stack = "jvm"
  BY <1>1 DEF Detect, JvmDetect, Found, Without
<1>2. CASE stack = "go"
  BY <1>2 DEF Detect, GoDetect, Found, Without
<1>3. CASE stack = "python"
  BY <1>3 DEF Detect, PythonDetect, Found, Without
<1> QED
  BY <1>1, <1>2, <1>3 DEF StackNames

\* STEP 2 never fails the way the gate does.
LEMMA AnalysisFailures ==
  ASSUME Analysing, PlanInv, error # "BailOutError"
  PROVE  error' # "BailOutError"
<1>1. CASE ChooseStack
  <2> DEFINE decision == StackDecision(config)
             result == SelectStack(project.root, decision)
  <2>1. error' = error \/ error' = result.error
    BY <1>1 DEF ChooseStack, Proceed, Continue, Fail
  <2>2. decision \in SupportedStacks \cup {Unsupported}
    BY DEF StackDecision
  <2>3. CASE decision = Unsupported
    <3>1. result.error = "UnsupportedStackError"
      BY <2>3 DEF SelectStack, Unsupported
    <3> QED
      BY <2>1, <3>1
  <2>4. CASE decision = "auto"
    <3>1. result = DetectStack(project.root)
      BY <2>4 DEF SelectStack, Unsupported
    <3>2. PICK i \in 1 .. 3 : result.error \in {None, "UnknownStackError",
                                Detect(StackRegistry[i], project.root).outcome}
      <4> DEFINE deciding == Deciding(project.root)
                 last == IF deciding = {} THEN Len(StackRegistry) ELSE Least(deciding)
      <4>1. last \in 1 .. 3
        BY LastIsAStack
      <4>2. result.error \in {None, "UnknownStackError",
                              Detect(StackRegistry[last], project.root).outcome}
        BY <3>1 DEF DetectStack
      <4> QED
        BY <4>1, <4>2
    <3>3. StackRegistry[i] \in StackNames
      BY DEF StackRegistry, StackNames
    <3> QED
      BY <2>1, <3>2, <3>3, DetectionFailures DEF None
  <2>5. CASE decision \in SupportedStacks \ {"auto"}
    <3>1. result = ForcedStack(project.root, decision) /\ decision \in StackNames
      BY <2>5 DEF SelectStack, SupportedStacks, Unsupported, StackNames
    <3>2. result.error \in {None, "UnknownStackError",
                            Detect(decision, project.root).outcome}
      BY <3>1 DEF ForcedStack
    <3> QED
      BY <2>1, <3>1, <3>2, DetectionFailures DEF None
  <2> QED
    BY <2>2, <2>3, <2>4, <2>5
<1>2. CASE ChooseModule
  <2>1. choice.stack \in StackNames
    BY <1>2 DEF ChooseModule, PlanInv
  <2>2. error' \in {error, "MultiModuleAbort"}
          \/ \E dir : error' = RedetectError(choice.stack, dir)
    BY <1>2 DEF ChooseModule, Proceed, Continue, Fail
  <2>3. ASSUME NEW dir PROVE RedetectError(choice.stack, dir) # "BailOutError"
    BY <2>1, DetectionFailures DEF RedetectError, None
  <2> QED
    BY <2>2, <2>3
<1>3. CASE SingleModule
  BY <1>3 DEF SingleModule, Continue
<1>4. CASE MakePlan
  <2> DEFINE e == PlanError(config, choice.stack, choice.detected, inputs)
  <2>1. e \in {"ValueError", "GoBuildPlanError", None}
    BY DEF PlanError
  <2> HIDE DEF e
  <2>2. error' = error \/ error' = e
    BY <1>4 DEF MakePlan, Proceed, Continue, Fail, e
  <2> QED
    BY <2>1, <2>2 DEF None
<1> QED
  BY <1>1, <1>2, <1>3, <1>4 DEF Analysing

\* Before the gate a run has no report and no exit code 0.
LEMMA NotGatedYet ==
  ASSUME LoadForRunner \/ EditConfig \/ CollectInputs \/ Analysing \/ Writing,
         PlanInv, ErrorInv, exitCode # 0
  PROVE  ~ Gated' /\ exitCode' # 0
<1>1. error = None
  BY DEF ErrorInv, LoadForRunner, EditConfig, CollectInputs, Analysing, ChooseStack,
         ChooseModule, SingleModule, MakePlan, Writing, WriteDockerfile,
         WriteWorkload, WriteService, WriteServiceAccount, WriteNetworkPolicy
<1>2. CASE LoadForRunner \/ EditConfig \/ CollectInputs \/ Writing
  <2>1. /\ step' \notin {"build", "published", "audited"}
        /\ error' \in {error, "ValueError"}
    BY <1>2 DEF LoadForRunner, EditConfig, CollectInputs, Writing, WriteDockerfile,
                WriteWorkload, WriteService, WriteServiceAccount,
                WriteNetworkPolicy, Write, When, Proceed, Continue, Fail
  <2>2. exitCode' \in {exitCode, 1}
    BY <1>2 DEF LoadForRunner, EditConfig, CollectInputs, Writing, WriteDockerfile,
                WriteWorkload, WriteService, WriteServiceAccount,
                WriteNetworkPolicy, Write, When, Proceed, Continue, Fail
  <2> QED
    BY <1>1, <2>1, <2>2 DEF Gated, None
<1>3. CASE Analysing
  <2>1. step' \notin {"build", "published", "audited"} /\ exitCode' \in {exitCode, 1}
    BY <1>3 DEF Analysing, ChooseStack, ChooseModule, SingleModule, MakePlan,
                Proceed, Continue, Fail
  <2>2. error' # "BailOutError"
    BY <1>1, <1>3, AnalysisFailures DEF None
  <2> QED
    BY <2>1, <2>2 DEF Gated
<1> QED
  BY <1>2, <1>3

Known == FilesInv /\ PlanInv /\ AcceptedInv /\ InputsInv /\ ErrorInv

\* At the gate the report is as good as the files.
LEMMA GateIsGood ==
  ASSUME step = "gate", Known
  PROVE  /\ Good(Validate(manifests).results)
         /\ GracePeriodWarning \in Validate(manifests).results
         /\ Validate(manifests).exitCode # 0
<1>1. manifests \in FileSets
  BY DEF Known, FilesInv, Complete
<1>2. step \in Planned /\ step \in Written /\ Loaded
  BY DEF Planned, Written, Loaded
<1>3. error = None
  BY DEF Known, ErrorInv
<1>4. Good(CheckPodSpec(TheWorkload))
  BY <1>2, <1>3, TheWorkloadIsGood DEF Known, PlanInv, AcceptedInv, InputsInv
<1> QED
  BY <1>1, <1>4, ReportIsGood

\* Every report of the gate is good, and none is all clear.
THEOREM ReportCorrect == Spec => []ReportInv
<1>1. Init => ReportInv
  BY DEF Init, ReportInv, Gated, None
<1>2. ReportInv /\ Known /\ [Next]_vars => ReportInv'
  <2> SUFFICES ASSUME ReportInv, Known, [Next]_vars PROVE ReportInv'
    OBVIOUS
  <2>1. CASE LoadForRunner \/ EditConfig \/ CollectInputs \/ Analysing \/ Writing
    BY <2>1, NotGatedYet DEF Known, ReportInv
  <2>2. CASE ValidateFiles
    <3>1. /\ step = "gate" /\ report' = Validate(manifests) /\ UNCHANGED config
          /\ exitCode' \in {exitCode, 1}
      BY <2>2 DEF ValidateFiles, Proceed, Continue, Fail, settings
    <3>2. /\ Good(report'.results) /\ GracePeriodWarning \in report'.results
          /\ report'.exitCode # 0
      BY <3>1, GateIsGood
    <3>3. Good(report.results)'
      BY <3>1, <3>2 DEF Good, Untagged
    <3> QED
      BY <3>1, <3>2, <3>3 DEF ReportInv, GracePeriodWarning
  <2>3. CASE BuildImage \/ Publishing
    <3>1. Gated /\ UNCHANGED <<report, config>>
      BY <2>3 DEF BuildImage, Publishing, EditManifests, AuditManifests, Gated,
                  settings, verdict
    <3>2. exitCode' \in {exitCode, 1, report.exitCode}
      BY <2>3 DEF BuildImage, Publish, Fail, Publishing, EditManifests,
                  AuditManifests, Continue
    <3>3. Good(report.results)'
      BY <3>1 DEF ReportInv, Good, Untagged
    <3> QED
      BY <3>1, <3>2, <3>3 DEF ReportInv, GracePeriodWarning
  <2>4. CASE UNCHANGED vars
    <3>1. UNCHANGED <<step, error, exitCode, report, config>>
      BY <2>4 DEF vars, settings, verdict
    <3>2. Good(report.results)' <=> Good(report.results)
      BY <3>1 DEF Good, Untagged
    <3> QED
      BY <3>1, <3>2 DEF ReportInv, Gated, GracePeriodWarning
  <2> QED
    BY <2>1, <2>2, <2>3, <2>4, NextCases DEF Later, Gating
<1>3. Spec => []Known
  BY FilesCorrect, PlanCorrect, AcceptedCorrect, InputsCorrect, PTL DEF Known
<1> QED
  BY <1>1, <1>2, <1>3, PTL DEF Spec

\* The generator's files pass every rule of the validator, except IMG-001 for
\* an image with a digest and no tag (validate, rule_img_001).
THEOREM GeneratedFilesPass == Spec => []GeneratedPasses
<1>1. ReportInv => GeneratedPasses
  BY DEF ReportInv, Good, Untagged, GeneratedPasses
<1> QED
  BY <1>1, ReportCorrect, PTL

\* And yet no run ends with exit code 0: LIFE-W01 always warns, as no template
\* sets a grace period (rule_life_w01, _compute_exit_code).
THEOREM RunsAreNeverAllClear == Spec => []NeverAllClear
<1>1. ReportInv => NeverAllClear
  BY DEF ReportInv, GracePeriodWarning, NeverAllClear
<1> QED
  BY <1>1, ReportCorrect, PTL
=============================================================================
