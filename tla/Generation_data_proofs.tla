------------------------ MODULE Generation_data_proofs ------------------------
(***************************************************************************)
(* Theorems about what a run computes: the answers it keeps, the module it *)
(* analyses, the entrypoint it builds, the ports it writes, and the types. *)
(***************************************************************************)
EXTENDS Generation_proofs, FiniteSetTheorems, WellFoundedInduction

(* No step follows an error. *)
LEMMA LaterHasNoError ==
  ASSUME Later, ErrorInv
  PROVE  error = None
BY DEF ErrorInv, Later, Analysing, ChooseStack, ChooseModule, SingleModule, MakePlan,
       Writing, WriteDockerfile, WriteWorkload, WriteService, WriteServiceAccount,
       WriteNetworkPolicy, Gating, ValidateFiles, BuildImage, Publishing,
       EditManifests, AuditManifests

-----------------------------------------------------------------------------
(* The inputs are those of the configuration and the replies.              *)
AnsweredInv ==
  Loaded /\ error = None =>
    /\ inputs = Inputs(config, dirName, replies)
    /\ ~ InputsRefused(config, replies)

\* Past STEP 1 the inputs are those of the configuration and the replies
\* (_collect_inputs_step1).
THEOREM AnsweredCorrect == Spec => []AnsweredInv
<1>1. Init => AnsweredInv
  BY DEF Init, AnsweredInv, Loaded
<1>2. AnsweredInv /\ ErrorInv /\ [Next]_vars => AnsweredInv'
  <2> SUFFICES ASSUME AnsweredInv, ErrorInv, [Next]_vars PROVE AnsweredInv'
    OBVIOUS
  <2>1. CASE LoadForRunner \/ EditConfig
    BY <2>1 DEF LoadForRunner, EditConfig, Proceed, When, Continue, Fail,
                AnsweredInv, Loaded, None
  <2>2. CASE CollectInputs
    BY <2>2 DEF CollectInputs, Continue, Fail, AnsweredInv, None, request
  <2>3. CASE Later
    <3>1. UNCHANGED <<dirName, config, replies, inputs>> /\ Loaded
      BY <2>3, LaterKeepsSettings DEF request, settings, asked
    <3>2. error = None
      BY <2>3, LaterHasNoError
    <3> QED
      BY <3>1, <3>2 DEF AnsweredInv
  <2>4. CASE UNCHANGED vars
    BY <2>4 DEF vars, request, settings, asked, AnsweredInv, Loaded
  <2> QED
    BY <2>1, <2>2, <2>3, <2>4, NextCases
<1> QED
  BY <1>1, <1>2, InputsCorrect, PTL DEF Spec

(* The port is the answer, if it is a number. *)
LEMMA PortIsTheAnswer ==
  ASSUME NEW c, NEW r, NEW reply,
         reply = Ask(r, "port", AppSetting(c, "port", Number(8080, "8080"))),
         reply.number # NoNumber
  PROVE  Port(c, r) = reply.number
BY DEF Port

\* The application's name, port and namespace are the user's useful answers,
\* the namespace unless a configuration file sets one (_prompt_field,
\* resolve_namespace).
THEOREM AnswersHold == Spec => []AnswersAreKept
<1> DEFINE said(field) == IF replies[field][1].text = "?" THEN replies[field][2]
                                                         ELSE replies[field][1]
           useful(field) == /\ replies[field][1].kind = "text"
                            /\ said(field).kind = "text" /\ said(field).text # ""
           layer(l) == Get(config.layers[l], <<"namespace">>)
           set == {l \in {"project_config", "org_config"} : Present(layer(l))}
           space(reply) == ResolveNamespace(config, reply, dirName).value
<1>1. ASSUME AnsweredInv, Loaded, error = None
      PROVE  /\ replies.asks /\ useful("app_name")
                  => inputs.appName = said("app_name").text
             /\ replies.asks /\ useful("port") /\ said("port").number # NoNumber
                  => inputs.port = said("port").number
             /\ set # {} => inputs.namespace \in {layer(l).text : l \in set}
             /\ "project_config" \in set
                  => inputs.namespace = layer("project_config").text
             /\ set = {} /\ replies.asks /\ useful("namespace")
                  => inputs.namespace = said("namespace").text
             /\ set = {} /\ ~ replies.asks => inputs.namespace = dirName
  <2>1. /\ inputs.appName = AppName(config, dirName, replies)
        /\ inputs.port = Port(config, replies)
        /\ inputs.namespace = Namespace(config, dirName, replies)
    BY <1>1 DEF AnsweredInv, Inputs
  <2>2. ASSUME NEW field, NEW default, useful(field)
        PROVE  PromptField(replies[field], default) = said(field)
    BY <2>2 DEF PromptField
  <2>3. replies.asks /\ useful("app_name") => inputs.appName = said("app_name").text
    BY <2>1, <2>2 DEF AppName
  <2>4. replies.asks /\ useful("port") /\ said("port").number # NoNumber
          => inputs.port = said("port").number
    <3> DEFINE default == AppSetting(config, "port", Number(8080, "8080"))
    <3> HIDE DEF default
    <3>1. replies.asks /\ useful("port") => Ask(replies, "port", default) = said("port")
      BY <2>2 DEF Ask
    <3>2. Ask(replies, "port", default).number # NoNumber
            => Port(config, replies) = Ask(replies, "port", default).number
      BY PortIsTheAnswer DEF default
    <3> HIDE DEF said
    <3> QED
      BY <2>1, <3>1, <3>2
  <2>5. ASSUME NEW reply
        PROVE  /\ set # {} => space(reply) \in {layer(l).text : l \in set}
               /\ "project_config" \in set
                    => space(reply) = layer("project_config").text
               /\ set = {} /\ Present(reply) => space(reply) = reply.text
               /\ set = {} /\ ~ Present(reply) => space(reply) = dirName
    <3>1. Present(layer("project_config")) => space(reply) = layer("project_config").text
      BY DEF ResolveNamespace, Resolution
    <3>2. ~ Present(layer("project_config")) /\ Present(layer("org_config"))
            => space(reply) = layer("org_config").text
      BY DEF ResolveNamespace, Resolution
    <3>3. ~ Present(layer("project_config")) /\ ~ Present(layer("org_config"))
            => space(reply) = IF Present(reply) THEN reply.text ELSE dirName
      BY DEF ResolveNamespace, Resolution
    <3> HIDE DEF space, layer
    <3> QED
      BY <3>1, <3>2, <3>3
  <2>6. ~ Present(Missing)
    BY DEF Present, Missing, Node
  <2>7. useful("namespace") => Present(said("namespace"))
    BY DEF Present
  <2>8. ASSUME NEW default, replies.asks, useful("namespace")
        PROVE  Ask(replies, "namespace", default) = said("namespace")
    BY <2>2, <2>8 DEF Ask
  <2>9. PICK reply : /\ inputs.namespace = space(reply)
                     /\ replies.asks /\ useful("namespace") => reply = said("namespace")
                     /\ ~ replies.asks => reply = Missing
    BY <2>1, <2>8 DEF Namespace
  <2> HIDE DEF said, useful, layer, set, space
  <2>10. /\ set # {} => inputs.namespace \in {layer(l).text : l \in set}
         /\ "project_config" \in set
              => inputs.namespace = layer("project_config").text
    BY <2>5, <2>9
  <2>11. /\ set = {} /\ replies.asks /\ useful("namespace")
              => inputs.namespace = said("namespace").text
         /\ set = {} /\ ~ replies.asks => inputs.namespace = dirName
    <3>1. /\ set = {} /\ Present(reply) => inputs.namespace = reply.text
          /\ set = {} /\ ~ Present(reply) => inputs.namespace = dirName
      BY <2>5, <2>9
    <3> QED
      BY <2>6, <2>7, <2>9, <3>1
  <2> QED
    BY <2>3, <2>4, <2>10, <2>11
<1>2. AnsweredInv => AnswersAreKept
  BY <1>1 DEF AnswersAreKept
<1> QED
  BY <1>2, AnsweredCorrect, PTL

-----------------------------------------------------------------------------
(* Places in a list: a set of them has a least one.                        *)
LEMMA LeastPlace ==
  ASSUME NEW S, S \subseteq Nat, S # {}
  PROVE  Least(S) \in S
<1>1. PICK i \in S : \A j \in S : ~ (<<j, i>> \in OpToRel(<, Nat))
  BY NatLessThanWellFounded, WFMin
<1>2. ASSUME NEW j \in S
      PROVE  i <= j
  <2>1. j \in Nat /\ i \in Nat
    OBVIOUS
  <2>2. ~ j < i
    BY <1>1, <2>1 DEF OpToRel
  <2> QED
    BY <2>1, <2>2
<1> QED
  BY <1>1, <1>2 DEF Least

(* A module that can be chosen is one of the project's, with all that is   *)
(* demanded of it.                                                         *)
ListedModule(p, m) ==
  /\ \E i \in DOMAIN p.settings : \E j \in DOMAIN p.settings[i] : m = p.settings[i][j]
  /\ m.inside /\ ~ m.absolute /\ m.name # <<>>

\* The modules found are modules of the settings files, inside the project.
LEMMA ModulesAreListed ==
  ASSUME NEW p \in Projects, NEW stack
  PROVE  LET modules == DetectMultiModules(p, stack)
         IN  /\ DOMAIN modules \subseteq Nat
             /\ \A i \in DOMAIN modules : ListedModule(p, modules[i])
             /\ modules # <<>> => DOMAIN modules # {} /\ stack = "jvm"
<1> DEFINE lists == {i \in DOMAIN p.settings : ModuleInfos(p.settings[i]) # <<>>}
           modules == DetectMultiModules(p, stack)
<1>1. CASE stack # "jvm" \/ lists = {}
  <2>1. modules = <<>>
    BY <1>1 DEF DetectMultiModules
  <2> QED
    BY <2>1
<1>2. CASE stack = "jvm" /\ lists # {}
  <2>1. Least(lists) \in lists
    BY <1>2, LeastPlace, ProjectsAssumption
  <2>2. PICK i \in DOMAIN p.settings : modules = ModuleInfos(p.settings[i])
                                        /\ modules # <<>>
    BY <1>2, <2>1 DEF DetectMultiModules
  <2>3. DOMAIN p.settings[i] \subseteq Nat
    BY ProjectsAssumption
  <2> HIDE DEF modules
  <2>4. /\ DOMAIN modules \subseteq DOMAIN p.settings[i]
        /\ \A j \in DOMAIN modules : /\ modules[j] = p.settings[i][j]
                                     /\ ValidModuleName(modules[j])
                                     /\ modules[j].inside
    BY <2>2 DEF ModuleInfos
  <2>5. DOMAIN modules # {}
    BY <2>2 DEF ModuleInfos
  <2>6. \A j \in DOMAIN modules : ListedModule(p, modules[j])
    BY <2>4 DEF ListedModule, ValidModuleName
  <2> QED
    BY <1>2, <2>3, <2>4, <2>5, <2>6 DEF modules
<1> QED
  BY <1>1, <1>2

\* So is the chosen one: it was answered, or nothing usable was and the gaps
\* name it.
LEMMA ChosenIsListed ==
  ASSUME NEW p \in Projects, NEW stack, NEW reply,
         DetectMultiModules(p, stack) # <<>>
  PROVE  LET modules == DetectMultiModules(p, stack)
             named == {i \in DOMAIN modules : modules[i].name = reply}
             m == ChosenModule(modules, reply)
         IN  /\ ListedModule(p, m)
             /\ \/ m.name = reply
                \/ named = {} /\ <<"module", m.name>> \in ModuleGaps(modules, reply)
<1> DEFINE modules == DetectMultiModules(p, stack)
           named == {i \in DOMAIN modules : modules[i].name = reply}
           m == ChosenModule(modules, reply)
<1>1. /\ DOMAIN modules \subseteq Nat /\ DOMAIN modules # {}
      /\ \A i \in DOMAIN modules : ListedModule(p, modules[i])
  BY ModulesAreListed
<1> HIDE DEF modules
<1>2. CASE named = {}
  <2>1. m = FirstOf(modules)
    BY <1>2 DEF ChosenModule
  <2>2. Least(DOMAIN modules) \in DOMAIN modules
    BY <1>1, LeastPlace
  <2>3. ModuleGaps(modules, reply) = {<<"module", FirstOf(modules).name>>}
    BY <1>2 DEF ModuleGaps
  <2> QED
    BY <1>1, <1>2, <2>1, <2>2, <2>3 DEF FirstOf, modules
<1>3. CASE named # {}
  <2>1. PICK i \in DOMAIN modules : modules[i].name = reply
    BY <1>3
  <2>2. reply # Nobody
    BY <1>1, <2>1 DEF ListedModule, Nobody
  <2>3. m = modules[Least(named)]
    BY <1>3, <2>2 DEF ChosenModule
  <2>4. Least(named) \in named
    BY <1>1, <1>3, LeastPlace
  <2> QED
    BY <1>1, <2>3, <2>4 DEF modules
<1> QED
  BY <1>2, <1>3

(* The modules that can be used and have the name that was answered. *)
NamedModules(stack, reply) ==
  LET usable == DetectMultiModules(project, stack)
  IN  {i \in DOMAIN usable : usable[i].name = reply}

(* The directories of a run: the root, and from the choice of a module on  *)
(* that module.                                                            *)
DirsInv ==
  /\ project \in Projects
  /\ step \in Unselected \cup {"module"} => dirs = <<project.root>>
  /\ \/ dirs = <<project.root>>
     \/ \E m : /\ ListedModule(project, m) /\ dirs = <<project.root, m.dir>>
               /\ \/ m.name = answer
                  \/ /\ NamedModules(choice.stack, answer) = {}
                     /\ <<"module", m.name>> \in choice.gaps

\* The directories of a run are the root and, perhaps, a listed module
\* (_detect_multi_modules, _select_module).
THEOREM DirsCorrect == Spec => []DirsInv
<1>1. Init => DirsInv
  BY DEF Init, DirsInv
<1>2. DirsInv /\ ChoiceInv /\ [Next]_vars => DirsInv'
  <2> SUFFICES ASSUME DirsInv, ChoiceInv, [Next]_vars PROVE DirsInv'
    OBVIOUS
  <2>1. CASE LoadForRunner \/ EditConfig \/ CollectInputs
    <3>1. UNCHANGED <<project, dirs, choice>> /\ step \in Unselected
      BY <2>1 DEF LoadForRunner, EditConfig, CollectInputs, request, plans, Unselected
    <3> QED
      BY <3>1 DEF DirsInv
  <2>2. CASE ChooseStack
    <3>1. UNCHANGED <<project, dirs>> /\ step \in Unselected
      BY <2>2 DEF ChooseStack, request, Unselected
    <3> QED
      BY <3>1 DEF DirsInv
  <2>3. CASE ChooseModule
    <3> DEFINE modules == DetectMultiModules(project, choice.stack)
    <3>1. /\ modules # <<>> /\ UNCHANGED project
          /\ step = "module" /\ step' \notin Unselected \cup {"module"}
      BY <2>3 DEF ChooseModule, Proceed, Continue, Fail, request, Unselected
    <3>2. PICK reply :
            /\ answer' = reply
            /\ \/ UNCHANGED <<choice, dirs>>
               \/ /\ dirs' = <<project.root, ChosenModule(modules, reply).dir>>
                  /\ \E d : choice' = [choice EXCEPT
                               !.detected = d,
                               !.gaps = choice.gaps \cup ModuleGaps(modules, reply)]
      BY <2>3, Zenon DEF ChooseModule
    <3>3. CASE UNCHANGED <<choice, dirs>>
      BY <3>1, <3>3 DEF DirsInv
    <3>4. CASE ~ UNCHANGED <<choice, dirs>>
      <4> DEFINE m == ChosenModule(modules, reply)
      <4>1. /\ ListedModule(project, m)
            /\ \/ m.name = reply
               \/ /\ NamedModules(choice.stack, reply) = {}
                  /\ <<"module", m.name>> \in ModuleGaps(modules, reply)
        BY <3>1, ChosenIsListed DEF DirsInv, NamedModules
      <4>2. /\ ModuleGaps(modules, reply) \subseteq choice'.gaps
            /\ choice'.stack = choice.stack
        BY <3>2, <3>4 DEF ChoiceInv
      <4> HIDE DEF m, modules
      <4>3. dirs' = <<project.root, m.dir>> /\ answer' = reply
        BY <3>2, <3>4 DEF m
      <4>4. NamedModules(choice.stack, answer)' = NamedModules(choice.stack, reply)
        BY <3>1, <4>2, <4>3 DEF NamedModules
      <4> QED
        BY <3>1, <4>1, <4>2, <4>3, <4>4 DEF DirsInv
    <3> QED
      BY <3>3, <3>4
  <2>4. CASE SingleModule \/ MakePlan
    <3>1. UNCHANGED <<project, dirs, answer, choice>>
          /\ step' \notin Unselected \cup {"module"}
      BY <2>4 DEF SingleModule, MakePlan, Proceed, Continue, Fail, request, plans,
                  Unselected
    <3> QED
      BY <3>1 DEF DirsInv, NamedModules
  <2>5. CASE Writing \/ Gating \/ Publishing
    <3>1. UNCHANGED <<project, dirs, answer, choice>>
          /\ step' \notin Unselected \cup {"module"}
      BY <2>5, LastKeepsPlans DEF Planned, Written, Unselected
    <3> QED
      BY <3>1 DEF DirsInv, NamedModules
  <2>6. CASE UNCHANGED vars
    BY <2>6 DEF vars, request, plans, DirsInv, NamedModules
  <2> QED
    BY <2>1, <2>2, <2>3, <2>4, <2>5, <2>6, NextCases DEF Later, Analysing
<1> QED
  BY <1>1, <1>2, ChoiceCorrect, PTL DEF Spec

\* The module analysed is one the project's settings list, inside the project,
\* and the one the user answered; without a usable answer the gaps name it
\* (_select_module).
THEOREM ModuleIsExplained == Spec => []ModuleIsAskedOrTold
<1>1. DirsInv => ModuleIsAskedOrTold
  <2> SUFFICES ASSUME DirsInv, Len(dirs) = 2
               PROVE  ModuleIsAskedOrTold
    BY DEF ModuleIsAskedOrTold
  <2>1. dirs # <<project.root>>
    <3>1. Len(<<project.root>>) = 1
      OBVIOUS
    <3> QED
      BY <3>1
  <2>2. PICK m : /\ ListedModule(project, m) /\ dirs = <<project.root, m.dir>>
                 /\ \/ m.name = answer
                    \/ /\ NamedModules(choice.stack, answer) = {}
                       /\ <<"module", m.name>> \in choice.gaps
    BY <2>1 DEF DirsInv
  <2>3. dirs[2] = m.dir
    BY <2>2
  <2> QED
    BY <2>2, <2>3 DEF ListedModule, ModuleIsAskedOrTold, NamedModules
<1> QED
  BY <1>1, DirsCorrect, PTL

-----------------------------------------------------------------------------
(* What a detection finds.                                                 *)
LEMMA PortsAreNumbers ==
  ASSUME NEW port \in Ports
  PROVE  port # NoPort /\ port # 0
<1>1. port \in Int /\ port >= 1
  BY SMT DEF Ports
<1> QED
  BY <1>1 DEF NoPort

\* A detection: its port and its entrypoint can be overridden.
LEMMA DetectedPort ==
  ASSUME NEW spring, DOMAIN spring \subseteq Nat
  PROVE  DetectPort(spring) \in Ports
<1> DEFINE giving == {i \in DOMAIN spring : GivesPort(spring[i])}
           ranks == {PortRank(spring[i]) : i \in giving}
           first == {i \in giving : PortRank(spring[i]) = Least(ranks)}
<1>1. CASE giving = {}
  <2>1. DetectPort(spring) = JvmDefaultPort
    BY <1>1 DEF DetectPort
  <2>2. JvmDefaultPort \in Ports
    BY DEF JvmDefaultPort, Ports
  <2> QED
    BY <2>1, <2>2
<1>2. CASE giving # {}
  <2>1. ranks \subseteq Nat /\ ranks # {}
    BY <1>2 DEF PortRank
  <2>2. Least(ranks) \in ranks
    BY <2>1, LeastPlace
  <2>3. first # {} /\ first \subseteq Nat
    BY <2>2
  <2>4. Least(first) \in first
    BY <2>3, LeastPlace
  <2>5. DetectPort(spring) = spring[Least(first)].port
    BY <1>2, Zenon DEF DetectPort
  <2>6. PICK i \in giving : DetectPort(spring) = spring[i].port
    BY <2>4, <2>5
  <2>7. GivesPort(spring[i])
    OBVIOUS
  <2> QED
    BY <2>6, <2>7 DEF GivesPort
<1> HIDE DEF giving
<1> QED
  BY <1>1, <1>2

\* A detection: its port and its entrypoint can be overridden.
Shape(d) == /\ d = [f \in DOMAIN d |-> d[f]]
            /\ {"port", "entrypoint"} \subseteq DOMAIN d

(* source is the directory the JVM's port was read in. *)
SoundDetection(stack, d, source) ==
  /\ Shape(d)
  /\ stack \in {"go", "python"} => d.port = NoPort
  /\ stack = "jvm" => d.port = DetectPort(source.spring)
  /\ stack = "go" => /\ IsFiniteSet(d.cmds)
                     /\ d.entrypoint = "" \/ (d.entrypoint = "." /\ d.cmds = {})

\* What a stack detects in a directory is what the directory holds.
LEMMA DetectionIsSound ==
  ASSUME NEW stack \in StackNames, NEW dir, IsDirectory(dir),
         Detect(stack, dir).outcome = "found"
  PROVE  SoundDetection(stack, Detect(stack, dir).result, dir)
<1> DEFINE d == Detect(stack, dir).result
<1>0. ASSUME NEW r
      PROVE  Found(r).result = r
  BY DEF Found
<1>1. CASE stack = "jvm"
  <2> HIDE DEF d
  <2>1. \E f, major, s, a :
          Detect(stack, dir)
            = Found(Detected(DetectPort(dir.spring), "", f, major, s, a, {}))
    BY <1>1 DEF Detect, JvmDetect, Without, Found
  <2> DEFINE port == DetectPort(dir.spring)
  <2> HIDE DEF port
  <2>2. PICK f, major, s, a :
          Detect(stack, dir) = Found(Detected(port, "", f, major, s, a, {}))
    BY <2>1 DEF port
  <2>3. d = Detected(port, "", f, major, s, a, {})
    BY <1>0, <2>2 DEF d
  <2>4. Shape(d) /\ d.port = port
    BY <2>3 DEF Detected, Shape
  <2>5. SoundDetection(stack, d, dir)
    BY <1>1, <2>4 DEF SoundDetection, port
  <2> QED
    BY <2>5 DEF d
<1>2. CASE stack = "go"
  <2> DEFINE e == IF dir.rootMain THEN "." ELSE ""
             c == IF dir.rootMain THEN {} ELSE dir.cmds
             f == GoFramework(dir)
  <2>1. d = Detected(NoPort, e, f, 0, "", FALSE, c)
    BY <1>2 DEF Detect, GoDetect, Without, Found
  <2>2. IsFiniteSet(c) /\ (e = "" \/ (e = "." /\ c = {}))
    BY FS_EmptySet DEF IsDirectory
  <2> HIDE DEF d, c, e, f
  <2>3. Shape(d) /\ d.port = NoPort /\ d.entrypoint = e /\ d.cmds = c
    BY <2>1 DEF Detected, Shape
  <2>4. SoundDetection(stack, d, dir)
    BY <1>2, <2>2, <2>3 DEF SoundDetection
  <2> QED
    BY <2>4 DEF d
<1>3. CASE stack = "python"
  <2>1. \E e, f : d = Detected(NoPort, e, f, 0, "", FALSE, {})
    BY <1>3 DEF Detect, PythonDetect, Without, Found
  <2> HIDE DEF d
  <2>2. PICK e, f : d = Detected(NoPort, e, f, 0, "", FALSE, {})
    BY <2>1
  <2>3. Shape(d) /\ d.port = NoPort
    BY <2>2 DEF Detected, Shape
  <2>4. SoundDetection(stack, d, dir)
    BY <1>3, <2>3 DEF SoundDetection
  <2> QED
    BY <2>4 DEF d
<1> QED
  BY <1>1, <1>2, <1>3 DEF StackNames

(* A stack without an error was found in the root. *)
LEMMA SelectedIsFound ==
  ASSUME NEW dir, NEW c, SelectStack(dir, StackDecision(c)).error = None
  PROVE  LET result == SelectStack(dir, StackDecision(c))
         IN  /\ Detect(result.stack, dir).outcome = "found"
             /\ result.detected = Detect(result.stack, dir).result
<1> DEFINE decision == StackDecision(c)
           result == SelectStack(dir, decision)
<1>1. decision \in SupportedStacks \cup {Unsupported}
  BY DEF StackDecision
<1>2. decision # Unsupported
  <2> SUFFICES ASSUME decision = Unsupported PROVE FALSE
    OBVIOUS
  <2>1. result.error = "UnsupportedStackError"
    BY DEF SelectStack, Unsupported
  <2> QED
    BY <2>1 DEF None
<1>3. CASE decision = "auto"
  <2>1. result = DetectStack(dir)
    BY <1>2, <1>3 DEF SelectStack
  <2>2. \E last \in DOMAIN StackRegistry :
          StackRegistry[last] = result.stack /\ Detect(result.stack, dir).outcome = "found"
    BY <2>1, FirstDeciding
  <2>3. result.detected = Detect(result.stack, dir).result
    BY <2>1 DEF DetectStack
  <2> QED
    BY <2>2, <2>3
<1>4. CASE decision \in SupportedStacks \ {"auto"}
  <2>1. result = ForcedStack(dir, decision)
    BY <1>2, <1>4 DEF SelectStack
  <2>2. decision \in StackNames
    BY <1>4 DEF SupportedStacks, StackNames
  <2>3. result.stack = decision /\ result.detected = Detect(decision, dir).result
    BY <2>1 DEF ForcedStack
  <2>4. Detect(decision, dir).outcome = "found"
    <3>1. result.error = CASE Detect(decision, dir).outcome = "found" -> None
                           [] Detect(decision, dir).outcome = "none" -> "UnknownStackError"
                           [] OTHER -> Detect(decision, dir).outcome
      BY <2>1 DEF ForcedStack
    <3> QED
      BY <3>1 DEF None
  <2> QED
    BY <2>3, <2>4
<1> QED
  BY <1>1, <1>2, <1>3, <1>4

\* The JVM is not found exactly where there is no build file.
LEMMA JvmIsFoundByBuildFiles ==
  ASSUME NEW dir
  PROVE  Detect("jvm", dir).outcome = "none" <=> dir.builds = <<>>
BY DEF Detect, JvmDetect, Without, Found

(* The detection is that of its directory. *)
DetectionInv ==
  step \in {"module", "plan"} \cup Planned
    => SoundDetection(choice.stack, choice.detected, Source)

\* Detecting again in the module keeps the detection sound for its source.
LEMMA ChosenDetection ==
  ASSUME project \in Projects, dirs = <<project.root>>, choice.stack \in StackNames,
         ChooseModule, step' # "end",
         SoundDetection(choice.stack, choice.detected, project.root)
  PROVE  SoundDetection(choice.stack, choice.detected, Source)'
<1> DEFINE modules == DetectMultiModules(project, choice.stack)
<1>1. PICK reply :
        LET module == ChosenModule(modules, reply).dir
        IN  /\ RedetectError(choice.stack, module) = None
            /\ choice' = [choice EXCEPT
                            !.detected = Redetect(choice.stack, module, @),
                            !.gaps = @ \cup ModuleGaps(modules, reply)]
            /\ dirs' = <<project.root, module>>
  BY DEF ChooseModule, Proceed, Fail
<1> DEFINE m == ChosenModule(modules, reply)
           module == m.dir
<1>2. modules # <<>> /\ UNCHANGED project
  BY DEF ChooseModule, request
<1>3. choice.stack = "jvm" /\ IsDirectory(module)
  <2>1. choice.stack = "jvm"
    BY <1>2, ModulesAreListed
  <2>2. ListedModule(project, m)
    BY <1>2, ChosenIsListed
  <2>3. IsDirectory(m.dir)
    BY <2>2, ProjectsAssumption DEF ListedModule
  <2> QED
    BY <2>1, <2>3
<1> HIDE DEF m, modules
<1>4. Source' = IF module.builds = <<>> THEN project.root ELSE module
  <2>1. dirs' = <<project.root, module>>
    BY <1>1 DEF m
  <2>2. dirs'[Len(dirs')] = module
    BY <2>1
  <2> QED
    BY <1>2, <2>2 DEF Source
<1>5. /\ choice'.stack = choice.stack
      /\ choice'.detected = Redetect(choice.stack, module, choice.detected)
  BY <1>1 DEF m
<1>6. CASE module.builds = <<>>
  <2>1. Detect(choice.stack, module).outcome = "none"
    BY <1>3, <1>6, JvmIsFoundByBuildFiles
  <2>2. choice'.detected = choice.detected
    BY <1>5, <2>1 DEF Redetect
  <2> QED
    BY <1>4, <1>5, <1>6, <2>2
<1>7. CASE module.builds # <<>>
  <2>1. Detect(choice.stack, module).outcome = "found"
    <3>1. Detect(choice.stack, module).outcome # "none"
      BY <1>3, <1>7, JvmIsFoundByBuildFiles
    <3> QED
      BY <1>1, <3>1 DEF RedetectError, None, m
  <2>2. choice'.detected = Detect(choice.stack, module).result
    BY <1>5, <2>1 DEF Redetect
  <2>3. SoundDetection(choice.stack, Detect(choice.stack, module).result, module)
    BY <1>3, <2>1, DetectionIsSound
  <2> QED
    BY <1>4, <1>5, <1>7, <2>2, <2>3
<1> QED
  BY <1>6, <1>7

\* The detection always is of the directory it is said to be of.
THEOREM DetectionCorrect == Spec => []DetectionInv
<1>1. Init => DetectionInv
  BY DEF Init, DetectionInv, Planned, Written
<1>2. DetectionInv /\ DirsInv /\ PlanInv /\ [Next]_vars => DetectionInv'
  <2> SUFFICES ASSUME DetectionInv, DirsInv, PlanInv, [Next]_vars,
                      step' \in {"module", "plan"} \cup Planned
               PROVE  SoundDetection(choice.stack, choice.detected, Source)'
    BY DEF DetectionInv
  <2>0. dirs = <<project.root>> => Source = project.root
    <3> SUFFICES ASSUME dirs = <<project.root>> PROVE Source = project.root
      OBVIOUS
    <3>1. dirs[Len(dirs)] = project.root
      OBVIOUS
    <3> QED
      BY <3>1 DEF Source
  <2>1. CASE LoadForRunner \/ EditConfig \/ CollectInputs
    BY <2>1 DEF LoadForRunner, EditConfig, CollectInputs, Proceed, Continue, Fail,
                Planned, Written
  <2>2. CASE ChooseStack
    <3>1. /\ choice' = SelectStack(project.root, StackDecision(config))
          /\ choice'.error = None /\ step = "stack" /\ UNCHANGED <<project, dirs>>
      BY <2>2 DEF ChooseStack, Proceed, Fail, request, Planned, Written
    <3>2. /\ Detect(choice'.stack, project.root).outcome = "found"
          /\ choice'.detected = Detect(choice'.stack, project.root).result
      BY <3>1, SelectedIsFound
    <3>3. choice'.stack \in StackNames
      BY <3>1, SelectedStack
    <3>4. IsDirectory(project.root)
      BY ProjectsAssumption DEF DirsInv
    <3>5. Source' = project.root
      <4>1. dirs = <<project.root>>
        BY <3>1 DEF DirsInv, Unselected
      <4> QED
        BY <2>0, <3>1, <4>1 DEF Source
    <3> QED
      BY <3>2, <3>3, <3>4, <3>5, DetectionIsSound
  <2>3. CASE ChooseModule
    <3>1. step = "module" /\ step' # "end"
      BY <2>3 DEF ChooseModule, Planned, Written
    <3> QED
      BY <2>0, <2>3, <3>1, ChosenDetection DEF DetectionInv, DirsInv, PlanInv
  <2>4. CASE SingleModule \/ MakePlan
    <3>1. UNCHANGED <<project, dirs, choice>> /\ step \in {"module", "plan"}
      BY <2>4 DEF SingleModule, MakePlan, request, plans
    <3> QED
      BY <3>1 DEF DetectionInv, Source
  <2>5. CASE Writing \/ Gating \/ Publishing
    <3>1. UNCHANGED <<project, dirs, choice>> /\ step \in Planned
      BY <2>5, LastKeepsPlans
    <3> QED
      BY <3>1 DEF DetectionInv, Source
  <2>6. CASE UNCHANGED vars
    BY <2>6 DEF vars, request, plans, DetectionInv, Source
  <2> QED
    BY <2>1, <2>2, <2>3, <2>4, <2>5, <2>6, NextCases DEF Later, Analysing
<1> QED
  BY <1>1, <1>2, DirsCorrect, PlanCorrect, PTL DEF Spec

-----------------------------------------------------------------------------
(* The target of a Go build.                                               *)
OneOf(cmds, appName, target) ==
  \/ target = "." /\ cmds = {}
  \/ cmds # {} /\ target = CmdPath(appName)
  \/ \E only \in cmds : cmds = {only} /\ target = CmdPath(only)

\* An entrypoint resolved without being ambiguous is the only one possible
\* (_resolve_entrypoint).
LEMMA ResolvedEntrypoint ==
  ASSUME NEW d, NEW appName, IsFiniteSet(d.cmds),
         d.entrypoint = "" \/ (d.entrypoint = "." /\ d.cmds = {}),
         NEW target \in GoEntrypoints, target = ResolveEntrypoint(d, appName)
  PROVE  OneOf(d.cmds, appName, target)
<1>1. CASE d.cmds = {}
  BY <1>1 DEF ResolveEntrypoint, OneOf
<1>2. CASE d.cmds # {} /\ appName \in d.cmds
  BY <1>2 DEF ResolveEntrypoint, OneOf
<1>3. CASE d.cmds # {} /\ appName \notin d.cmds
  <2>1. target = IF Cardinality(d.cmds) = 1
                 THEN CmdPath(CHOOSE n \in d.cmds : TRUE) ELSE Ambiguous
    BY <1>3, Zenon DEF ResolveEntrypoint
  <2>2. Cardinality(d.cmds) = 1
    BY <2>1, AmbiguousAssumption
  <2>3. PICK only : d.cmds = {only}
    BY <2>2, FS_Singleton
  <2>4. (CHOOSE n \in d.cmds : TRUE) = only
    BY <2>3
  <2> QED
    BY <2>1, <2>2, <2>3, <2>4 DEF OneOf
<1> QED
  BY <1>1, <1>2, <1>3

\* What a Go plan builds is configured, the only command, or the one of the
\* application's name.
LEMMA GoTarget ==
  ASSUME NEW c, NEW d, NEW all, NEW in, NEW source,
         SoundDetection("go", d, source), PlanError(c, "go", d, in) = None
  PROVE  LET plan == Plan(c, "go", d, all, in)
             target == plan.build.target
             cmds == plan.detected.cmds
         IN  /\ target \in GoEntrypoints
             /\ \/ target = StackSetting(c, "go", <<"entrypoint">>).text
                \/ target = "." /\ cmds = {}
                \/ cmds # {} /\ target = CmdPath(in.appName)
                \/ \E only \in cmds : cmds = {only} /\ target = CmdPath(only)
<1> DEFINE setting == StackSetting(c, "go", <<"entrypoint">>)
           over == ApplyStackOverrides(c, "go", d)
           settled == FillPort(over, in.port)
           target == ResolveEntrypoint(settled, in.appName)
<1>1. Plan(c, "go", d, all, in).detected = settled
  BY DEF Plan
<1>2. Plan(c, "go", d, all, in).build.target = target
  BY DEF Plan, BuildPlan, GoBuildPlan
<1>3. settled.entrypoint = over.entrypoint /\ settled.cmds = over.cmds
  BY DEF FillPort
<1>4. over.cmds = d.cmds
  BY DEF ApplyStackOverrides
<1>5. target = ResolveEntrypoint(over, in.appName)
  <2>1. ASSUME NEW x, NEW y, NEW n, x.entrypoint = y.entrypoint, x.cmds = y.cmds
        PROVE  ResolveEntrypoint(x, n) = ResolveEntrypoint(y, n)
    BY <2>1 DEF ResolveEntrypoint
  <2> HIDE DEF over, settled
  <2> QED
    BY <1>3, <2>1
<1>6. target \in GoEntrypoints
  <2>1. ~ PlanFails("go", over, in.appName)
    BY DEF PlanError, None
  <2> QED
    BY <1>5, <2>1 DEF PlanFails, GoPlanFails
<1>7. CASE Given(setting)
  <2>1. over.entrypoint = setting.text /\ setting.text # ""
    BY <1>7 DEF ApplyStackOverrides, SoundDetection, Shape, Given
  <2>2. target = setting.text
    BY <1>5, <2>1 DEF ResolveEntrypoint
  <2> QED
    BY <1>2, <1>6, <2>2
<1>8. CASE ~ Given(setting)
  <2>1. over = d
    BY <1>8 DEF ApplyStackOverrides
  <2> HIDE DEF over, target
  <2>2. /\ IsFiniteSet(d.cmds)
        /\ d.entrypoint = "" \/ (d.entrypoint = "." /\ d.cmds = {})
    BY DEF SoundDetection
  <2>3. target = ResolveEntrypoint(d, in.appName)
    BY <1>5, <2>1
  <2>4. OneOf(d.cmds, in.appName, target)
    BY <1>6, <2>2, <2>3, ResolvedEntrypoint
  <2>5. Plan(c, "go", d, all, in).detected.cmds = d.cmds
    BY <1>1, <1>3, <1>4
  <2> QED
    BY <1>2, <1>6, <2>4, <2>5 DEF OneOf
<1> QED
  BY <1>7, <1>8

\* A Go image is built from the root, its only command, the one of the
\* application's name or a configured one, never from a guess among several
\* (_resolve_entrypoint, _apply_stack_overrides).
THEOREM GoIsNeverGuessed == Spec => []GoNeverGuesses
<1> DEFINE Inv == /\ step \in Unselected \cup {"module", "plan"} => analysis = NoPlan
                  /\ GoNeverGuesses
<1>0. NoPlan.stack # "go"
  BY DEF NoPlan
<1>1. Init => Inv
  BY <1>0 DEF Init, GoNeverGuesses
<1>2. Inv /\ DetectionInv /\ [Next]_vars => Inv'
  <2> SUFFICES ASSUME Inv, DetectionInv, [Next]_vars PROVE Inv'
    OBVIOUS
  <2>1. CASE \/ LoadForRunner \/ EditConfig \/ CollectInputs \/ ChooseStack
             \/ ChooseModule \/ SingleModule
    <3>1. UNCHANGED analysis /\ step \in Unselected \cup {"module", "plan"}
      BY <2>1 DEF LoadForRunner, EditConfig, CollectInputs, ChooseStack, ChooseModule,
                  SingleModule, plans, Unselected
    <3> QED
      BY <1>0, <3>1 DEF GoNeverGuesses
  <2>2. CASE MakePlan
    <3> DEFINE e == PlanError(config, choice.stack, choice.detected, inputs)
               all == {dirs[i] : i \in DOMAIN dirs}
    <3>1. /\ step = "plan" /\ step' \notin Unselected \cup {"module", "plan"}
          /\ UNCHANGED <<config, inputs>>
      BY <2>2 DEF MakePlan, Proceed, Continue, Fail, settings, asked, Unselected
    <3>2. analysis' = IF e # None THEN analysis
                      ELSE Plan(config, choice.stack, choice.detected, all, inputs)
      BY <2>2 DEF MakePlan
    <3>3. CASE e # None \/ choice.stack # "go"
      <4>1. analysis'.stack # "go"
        <5>1. Plan(config, choice.stack, choice.detected, all, inputs).stack
                = choice.stack
          BY DEF Plan
        <5> HIDE DEF e, all
        <5> QED
          BY <1>0, <3>1, <3>2, <3>3, <5>1
      <4> QED
        BY <3>1, <4>1 DEF GoNeverGuesses
    <3>4. CASE e = None /\ choice.stack = "go"
      <4>1. SoundDetection("go", choice.detected, Source)
        BY <3>1, <3>4 DEF DetectionInv
      <4>2. analysis' = Plan(config, "go", choice.detected, all, inputs)
        BY <3>2, <3>4
      <4> HIDE DEF all
      <4>3. GoNeverGuesses'
        BY <3>1, <3>4, <4>1, <4>2, GoTarget DEF GoNeverGuesses
      <4> QED
        BY <3>1, <4>3
    <3> QED
      BY <3>3, <3>4
  <2>3. CASE Writing \/ Gating \/ Publishing
    <3>1. UNCHANGED <<config, inputs, analysis>>
          /\ step' \notin Unselected \cup {"module", "plan"}
      BY <2>3, LastKeepsPlans DEF Planned, Written, Unselected
    <3> QED
      BY <3>1 DEF GoNeverGuesses
  <2>4. CASE UNCHANGED vars
    BY <2>4 DEF vars, settings, asked, plans, GoNeverGuesses
  <2> QED
    BY <2>1, <2>2, <2>3, <2>4, NextCases DEF Later, Analysing
<1> QED
  BY <1>1, <1>2, DetectionCorrect, PTL DEF Spec

-----------------------------------------------------------------------------
(* The ports of the set.                                                   *)
AskAt(probes, port) ==
  \E k1, p1, k2, p2 : probes = Probes(Probe(k1, p1, port), Probe(k2, p2, port))

\* Both probes of a plan ask the detected port, if one was detected.
LEMMA ProbesAsk ==
  ASSUME NEW stack \in StackNames, NEW d, NEW port,
         d.port = port, port # NoPort, port # 0
  PROVE  AskAt(ProbePlan(stack, d), port)
<1>1. ASSUME NEW default
      PROVE  PortOr(d, default) = port
  BY DEF PortOr
<1>2. CASE stack = "jvm"
  <2> DEFINE actuator == d.framework = "spring-boot" /\ d.actuator
             o == PortOr(d, JvmDefaultPort)
  <2>0. ProbePlan(stack, d) = JvmProbePlan(d) /\ o = port
    BY <1>1, <1>2 DEF ProbePlan
  <2>1. CASE ~ actuator
    <3>1. JvmProbePlan(d) = Probes(Probe("tcp", "", o), Probe("tcp", "", o))
      BY <2>1 DEF JvmProbePlan
    <3> HIDE DEF o
    <3> QED
      BY <2>0, <3>1 DEF AskAt
  <2>2. CASE actuator /\ d.major >= 3
    <3>1. JvmProbePlan(d) = Probes(Probe("http", "/actuator/health/liveness", o),
                                   Probe("http", "/actuator/health/readiness", o))
      BY <2>2 DEF JvmProbePlan
    <3> HIDE DEF o
    <3> QED
      BY <2>0, <3>1 DEF AskAt
  <2>3. CASE actuator /\ ~ d.major >= 3
    <3>1. JvmProbePlan(d) = Probes(Probe("http", "/actuator/health", o),
                                   Probe("http", "/actuator/health", o))
      BY <2>3 DEF JvmProbePlan
    <3> HIDE DEF o
    <3> QED
      BY <2>0, <3>1 DEF AskAt
  <2> QED
    BY <2>1, <2>2, <2>3
<1>3. CASE stack # "jvm"
  <2>1. \E default : ProbePlan(stack, d) = HealthProbePlan(d, default)
    BY <1>3 DEF ProbePlan, StackNames
  <2>2. PICK default : ProbePlan(stack, d) = HealthProbePlan(d, default)
    BY <2>1
  <2>3. \E p : HealthProbePlan(d, default)
                 = Probes(Probe("http", p, PortOr(d, default)),
                          Probe("http", p, PortOr(d, default)))
    BY DEF HealthProbePlan
  <2> QED
    BY <1>1, <2>2, <2>3 DEF AskAt
<1> QED
  BY <1>2, <1>3

\* The configuration's probe overrides leave the port alone.
LEMMA OverridesKeepPorts ==
  ASSUME NEW c, NEW stack, NEW plan, NEW port, AskAt(plan, port)
  PROVE  LET probes == ApplyProbeOverrides(c, stack, plan)
         IN  {probes.liveness.port, probes.readiness.port} = {port}
<1>0. PICK k1, p1, k2, p2 : plan = Probes(Probe(k1, p1, port), Probe(k2, p2, port))
  BY DEF AskAt
<1> DEFINE setting == StackSetting(c, stack, <<"probe", "path">>)
           override(probe) == IF Given(setting) /\ probe.kind = "http"
                              THEN [probe EXCEPT !.path = setting.text] ELSE probe
           a == Probe(k1, p1, port)
           b == Probe(k2, p2, port)
<1>1. ASSUME NEW k, NEW p
      PROVE  override(Probe(k, p, port)).port = port
  BY DEF Probe
<1>2. /\ Probes(a, b).liveness = a /\ Probes(a, b).readiness = b
      /\ \A x, y : Probes(x, y).liveness = x /\ Probes(x, y).readiness = y
  BY DEF Probes
<1>3. ApplyProbeOverrides(c, stack, plan) = Probes(override(a), override(b))
  BY <1>0, <1>2 DEF ApplyProbeOverrides
<1> HIDE DEF override
<1> QED
  BY <1>1, <1>2, <1>3

(* The port of a plan: the one detected, or else the one of the inputs. *)
LEMMA SettledPort ==
  ASSUME NEW c, NEW stack, NEW d, NEW port, Shape(d)
  PROVE  LET settled == FillPort(ApplyStackOverrides(c, stack, d), port)
         IN  settled.port = IF d.port = NoPort THEN port ELSE d.port
<1> DEFINE over == ApplyStackOverrides(c, stack, d)
<1>1. over.port = d.port /\ Shape(over)
  BY DEF ApplyStackOverrides, Shape
<1> HIDE DEF over
<1>2. FillPort(over, port).port = IF over.port = NoPort THEN port ELSE over.port
  BY <1>1 DEF FillPort, Shape
<1> QED
  BY <1>1, <1>2 DEF over

\* The source of the detection is a directory of the project.
LEMMA SourceIsADirectory ==
  ASSUME DirsInv
  PROVE  IsDirectory(Source)
<1>1. IsDirectory(project.root)
  BY ProjectsAssumption DEF DirsInv
<1>2. CASE dirs = <<project.root>>
  <2>1. dirs[Len(dirs)] = project.root
    BY <1>2
  <2> QED
    BY <1>1, <2>1 DEF Source
<1>3. ASSUME NEW m, ListedModule(project, m), dirs = <<project.root, m.dir>>
      PROVE  IsDirectory(Source)
  <2>1. dirs[Len(dirs)] = m.dir
    BY <1>3
  <2>2. IsDirectory(m.dir)
    BY <1>3, ProjectsAssumption DEF ListedModule, DirsInv
  <2> QED
    BY <1>1, <2>1, <2>2 DEF Source
<1> QED
  BY <1>2, <1>3 DEF DirsInv

\* The planned probes ask the port of the JVM's application files, of the
\* inputs for the other stacks.
LEMMA PlannedProbes ==
  ASSUME step \in Planned, PlanInv, DirsInv, DetectionInv, inputs.port \in Ports
  PROVE  {analysis.probes.liveness.port, analysis.probes.readiness.port}
           = IF analysis.stack = "jvm" THEN {DetectPort(Source.spring)}
                                       ELSE {inputs.port}
<1> DEFINE stack == choice.stack
           d == choice.detected
           settled == FillPort(ApplyStackOverrides(config, stack, d), inputs.port)
           port == IF stack = "jvm" THEN DetectPort(Source.spring) ELSE inputs.port
<1>1. /\ stack \in StackNames /\ analysis.stack = stack
      /\ analysis.probes = ApplyProbeOverrides(config, stack, ProbePlan(stack, settled))
  BY DEF PlanInv, Plan
<1>2. SoundDetection(stack, d, Source)
  BY DEF DetectionInv
<1>3. DetectPort(Source.spring) \in Ports
  <2>1. DOMAIN Source.spring \subseteq Nat
    BY SourceIsADirectory DEF IsDirectory
  <2> QED
    BY <2>1, DetectedPort
<1>4. port # NoPort /\ port # 0
  BY <1>3, PortsAreNumbers
<1>5. settled.port = port
  <2>1. settled.port = IF d.port = NoPort THEN inputs.port ELSE d.port
    <3>1. Shape(d)
      BY <1>2 DEF SoundDetection
    <3> HIDE DEF d, stack
    <3> QED
      BY <3>1, SettledPort
  <2>2. d.port = IF stack = "jvm" THEN DetectPort(Source.spring) ELSE NoPort
    BY <1>1, <1>2 DEF SoundDetection, StackNames
  <2> HIDE DEF settled
  <2> QED
    BY <1>3, <2>1, <2>2, PortsAreNumbers
<1> HIDE DEF settled, port
<1>6. AskAt(ProbePlan(stack, settled), port)
  BY <1>1, <1>4, <1>5, ProbesAsk
<1>7. {analysis.probes.liveness.port, analysis.probes.readiness.port} = {port}
  BY <1>1, <1>6, OverridesKeepPorts
<1> QED
  BY <1>1, <1>7 DEF port

\* Service, container, EXPOSE and the server's command have one port; probes
\* ask it too, on the JVM the port of the application's own files
\* (generate_service, probe_plan, dockerfile_context).
THEOREM PortsAreTheSame == Spec => []PortsAgree
<1>1. FilesInv /\ DockerInv /\ AcceptedInv /\ PlanInv /\ DirsInv /\ DetectionInv
        => PortsAgree
  <2> SUFFICES ASSUME FilesInv, DockerInv, AcceptedInv, PlanInv, DirsInv,
                      DetectionInv, Complete
               PROVE  PortsAgree
    BY DEF PortsAgree
  <2>1. step \in Written /\ step \in Planned
    BY DEF Complete, Written, Planned
  <2>2. inputs.port \in Ports
    BY <2>1 DEF AcceptedInv, DeploymentRefused
  <2>3. /\ manifests[1] = WorkloadFile /\ manifests[2] = ServiceFile
        /\ Workload0 = TheWorkload
    BY FilesOfASet DEF FilesInv, Workload0, TheWorkload
  <2>4. PICK policy, name, mounts :
          TheWorkload.containers[1] =
            Container(inputs, analysis.defaults, analysis.probes, ImageTag(config),
                      policy, name, mounts)
    BY TheWorkloadSays
  <2>5. /\ Workload0.containers[1].port = inputs.port
        /\ Workload0.containers[1].probes = analysis.probes
    BY <2>3, <2>4 DEF Container
  <2>6. manifests[2].docs[1] = Service(inputs)
    BY <2>3, FileHasOneDoc DEF ServiceFile
  <2>7. Service(inputs).port = inputs.port /\ Service(inputs).targetPort = inputs.port
    BY DEF Service
  <2>8. dockerfile = Docker
    BY <2>1 DEF DockerInv
  <2>9. /\ dockerfile.expose = inputs.port
        /\ dockerfile.command # NoCommand => dockerfile.command.port = inputs.port
    BY <2>8 DEF Docker, Dockerfile, ServerCommand
  <2>10. {analysis.probes.liveness.port, analysis.probes.readiness.port}
           = IF analysis.stack = "jvm" THEN {DetectPort(Source.spring)}
                                       ELSE {inputs.port}
    BY <2>1, <2>2, PlannedProbes
  <2> QED
    BY <2>5, <2>6, <2>7, <2>9, <2>10 DEF PortsAgree, Source
<1> QED
  BY <1>1, FilesCorrect, DockerfileCorrect, AcceptedCorrect, PlanCorrect, DirsCorrect,
     DetectionCorrect, PTL

-----------------------------------------------------------------------------
(* The types.  Every step goes on, fails with an error of the program's,   *)
(* publishes, or is one of the user's after that.                          *)
Working == Steps \ {"published", "audited", "end"}

Moves ==
  \/ step \in Working /\ step' \in Working /\ UNCHANGED <<error, exitCode>>
  \/ /\ step \in Working /\ step' = "end" /\ exitCode' = 1
     /\ error' \in Errors \ {None}
  \/ /\ step = "build" /\ step' = "published" /\ exitCode' = report.exitCode
     /\ UNCHANGED error
  \/ /\ step = "published" /\ step' \in {"published", "audited"}
     /\ UNCHANGED <<error, exitCode>>

(* Going on or failing, from one step of the pipeline. *)
LEMMA ProceedMoves ==
  ASSUME step \in Working, NEW next \in Working, NEW e \in Errors, Proceed(e, next)
  PROVE  Moves
BY DEF Proceed, Continue, Fail, Moves

\* A refusal is a ValueError.
LEMMA WhenIsAnError ==
  ASSUME NEW refused
  PROVE  When(refused) \in Errors
BY DEF When, Errors

\* The errors that the selection of a stack can end with.
LEMMA SelectionFailures ==
  ASSUME NEW dir, NEW c
  PROVE  SelectStack(dir, StackDecision(c)).error \in Errors
<1> DEFINE decision == StackDecision(c)
           result == SelectStack(dir, decision)
<1>0. /\ {"found", "none", "JvmDetectionError", "GoDetectionError", "OSError",
          "EntitiesForbidden", "AttributeError"}
           \subseteq {"found"} \cup Errors
      /\ {None, "UnknownStackError", "UnsupportedStackError"} \subseteq Errors
  BY DEF Errors, None
<1>1. decision \in SupportedStacks \cup {Unsupported}
  BY DEF StackDecision
<1>2. CASE decision = Unsupported
  <2>1. result.error = "UnsupportedStackError"
    BY <1>2 DEF SelectStack, Unsupported
  <2> QED
    BY <1>0, <2>1
<1>3. CASE decision = "auto"
  <2> DEFINE deciding == Deciding(dir)
             last == IF deciding = {} THEN Len(StackRegistry) ELSE Least(deciding)
  <2>1. result = DetectStack(dir)
    BY <1>3 DEF SelectStack, Unsupported
  <2>2. StackRegistry[last] \in StackNames
    <3>1. last \in 1 .. 3
      BY LastIsAStack
    <3> QED
      BY <3>1 DEF StackRegistry, StackNames
  <2>3. \/ result.error \in {None, "UnknownStackError"}
        \/ /\ result.error = Detect(StackRegistry[last], dir).outcome
           /\ result.error # "found"
    BY <2>1 DEF DetectStack
  <2> QED
    BY <1>0, <2>2, <2>3, DetectionFailures
<1>4. CASE decision \in SupportedStacks \ {"auto"}
  <2>1. result = ForcedStack(dir, decision) /\ decision \in StackNames
    BY <1>4 DEF SelectStack, SupportedStacks, Unsupported, StackNames
  <2>2. \/ result.error \in {None, "UnknownStackError"}
        \/ /\ result.error = Detect(decision, dir).outcome
           /\ result.error # "found"
    BY <2>1 DEF ForcedStack
  <2> QED
    BY <1>0, <2>1, <2>2, DetectionFailures
<1> QED
  BY <1>1, <1>2, <1>3, <1>4

\* STEP 2 goes on to its next step or ends with an error of its own.
LEMMA AnalysingMoves ==
  ASSUME Analysing, PlanInv
  PROVE  Moves
<1>1. {"stack", "module", "plan", "dockerfile"} \subseteq Working
  BY DEF Working, Steps
<1>2. CASE ChooseStack
  <2> DEFINE e == SelectStack(project.root, StackDecision(config)).error
  <2>1. step = "stack" /\ Proceed(e, "module")
    BY <1>2 DEF ChooseStack
  <2>2. e \in Errors
    BY SelectionFailures
  <2> HIDE DEF e
  <2> QED
    BY <1>1, <2>1, <2>2, ProceedMoves
<1>3. CASE ChooseModule
  <2>1. step = "module" /\ choice.stack \in StackNames
    BY <1>3 DEF ChooseModule, PlanInv
  <2>2. \/ Fail("MultiModuleAbort")
        \/ \E dir : Proceed(RedetectError(choice.stack, dir), "plan")
    BY <1>3 DEF ChooseModule
  <2>3. ASSUME NEW dir PROVE RedetectError(choice.stack, dir) \in Errors
    BY <2>1, DetectionFailures DEF RedetectError, None, Errors
  <2>4. CASE Fail("MultiModuleAbort")
    BY <1>1, <2>1, <2>4 DEF Fail, Moves, Errors, None
  <2>5. CASE \E dir : Proceed(RedetectError(choice.stack, dir), "plan")
    <3>1. PICK dir : Proceed(RedetectError(choice.stack, dir), "plan")
      BY <2>5
    <3> QED
      BY <1>1, <2>1, <2>3, <3>1, ProceedMoves
  <2> QED
    BY <2>2, <2>4, <2>5
<1>4. CASE SingleModule
  BY <1>1, <1>4 DEF SingleModule, Continue, Moves
<1>5. CASE MakePlan
  <2> DEFINE e == PlanError(config, choice.stack, choice.detected, inputs)
  <2>1. step = "plan" /\ Proceed(e, "dockerfile")
    BY <1>5 DEF MakePlan
  <2>2. e \in Errors
    BY DEF PlanError, Errors
  <2> HIDE DEF e
  <2> QED
    BY <1>1, <2>1, <2>2, ProceedMoves
<1> QED
  BY <1>2, <1>3, <1>4, <1>5 DEF Analysing

\* So does STEP 3.
LEMMA WritingMoves ==
  ASSUME Writing
  PROVE  Moves
<1>1. {"dockerfile", "workload", "service", "serviceaccount", "networkpolicy", "gate"}
        \subseteq Working
  BY DEF Working, Steps
<1>2. CASE WriteDockerfile
  BY <1>1, <1>2 DEF WriteDockerfile, Continue, Moves
<1>3. CASE ~ WriteDockerfile
  <2>1. \E refused :
          \E next \in {"service", "serviceaccount", "networkpolicy", "gate"} :
            Proceed(When(refused), next)
    BY <1>3 DEF Writing, WriteWorkload, WriteService, WriteServiceAccount,
                WriteNetworkPolicy, Write
  <2>2. step \in {"workload", "service", "serviceaccount", "networkpolicy"}
    BY <1>3 DEF Writing, WriteWorkload, WriteService, WriteServiceAccount,
                WriteNetworkPolicy
  <2>3. PICK refused :
          \E next \in {"service", "serviceaccount", "networkpolicy", "gate"} :
            Proceed(When(refused), next)
    BY <2>1
  <2> QED
    BY <1>1, <2>2, <2>3, WhenIsAnError, ProceedMoves
<1> QED
  BY <1>2, <1>3

\* Every step moves a run in one of the ways of Moves.
LEMMA StepsMove ==
  ASSUME [Next]_vars, PlanInv
  PROVE  Moves \/ UNCHANGED vars
<1>1. {"setup", "inputs", "stack", "gate", "build"} \subseteq Working
  BY DEF Working, Steps
<1>2. CASE LoadForRunner
  BY <1>1, <1>2, WhenIsAnError, ProceedMoves DEF LoadForRunner
<1>3. CASE EditConfig
  BY <1>1, <1>3 DEF EditConfig, Moves
<1>4. CASE CollectInputs
  <2>1. step = "inputs" /\ (Fail("ValueError") \/ Continue("stack"))
    BY <1>4 DEF CollectInputs
  <2>2. "ValueError" \in Errors \ {None}
    BY DEF Errors, None
  <2> QED
    BY <1>1, <2>1, <2>2 DEF Fail, Continue, Moves
<1>5. CASE Gating
  <2>1. "BailOutError" \in Errors \ {None} /\ None \in Errors
    BY DEF Errors, None
  <2>2. CASE ValidateFiles
    BY <1>1, <2>1, <2>2, ProceedMoves DEF ValidateFiles
  <2>3. CASE BuildImage
    BY <1>1, <2>1, <2>3 DEF BuildImage, Publish, Fail, Moves
  <2> QED
    BY <1>5, <2>2, <2>3 DEF Gating
<1>6. CASE Publishing
  BY <1>6 DEF Publishing, EditManifests, AuditManifests, Continue, Moves
<1> QED
  BY <1>2, <1>3, <1>4, <1>5, <1>6, NextCases, AnalysingMoves, WritingMoves DEF Later

RunInv ==
  /\ step \in Steps /\ error \in Errors /\ exitCode \in -1 .. 2
  /\ step = "end" <=> error # None
  /\ step \in {"published", "audited", "end"} <=> exitCode # -1
  /\ step = "build" => report.exitCode \in {0, 2}

\* A report's exit code is 0, 1 or 2.
LEMMA ExitCodeIsThreeValued ==
  ASSUME NEW results
  PROVE  ExitCode(results) \in {0, 1, 2}
BY DEF ExitCode

\* A run's step, error and exit code belong together: an error ends it, an end
\* or a publication has an exit code (main).
THEOREM RunCorrect == Spec => []RunInv
<1>1. Init => RunInv
  BY DEF Init, RunInv, Steps, Errors
<1>2. RunInv /\ PlanInv /\ [Next]_vars => RunInv'
  <2> SUFFICES ASSUME RunInv, PlanInv, [Next]_vars PROVE RunInv'
    OBVIOUS
  <2>1. step' = "build" => report'.exitCode \in {0, 2}
    <3> SUFFICES ASSUME step' = "build" PROVE report'.exitCode \in {0, 2}
      OBVIOUS
    <3>1. CASE ValidateFiles
      <4>1. report'.exitCode # 1
        BY <3>1 DEF ValidateFiles, Proceed, Fail, None
      <4>2. report'.exitCode \in {0, 1, 2}
        BY <3>1, ExitCodeIsThreeValued DEF ValidateFiles, Validate
      <4> QED
        BY <4>1, <4>2
    <3>2. CASE ~ ValidateFiles
      <4>1. UNCHANGED <<step, report>>
        BY <3>2 DEF Next, LoadForRunner, EditConfig, CollectInputs, ChooseStack,
             ChooseModule, SingleModule, MakePlan, WriteDockerfile, WriteWorkload,
             WriteService, WriteServiceAccount, WriteNetworkPolicy, Write, BuildImage,
             EditManifests, AuditManifests, Publish, Proceed, Continue, Fail, vars,
             verdict
      <4> QED
        BY <4>1 DEF RunInv
    <3> QED
      BY <3>1, <3>2
  <2>2. CASE Moves
    BY <2>1, <2>2 DEF RunInv, Moves, Working, Steps
  <2>3. CASE UNCHANGED vars
    BY <2>1, <2>3 DEF RunInv, vars
  <2> QED
    BY <2>2, <2>3, StepsMove
<1> QED
  BY <1>1, <1>2, PlanCorrect, PTL DEF Spec

RestInv ==
  /\ edited \in BOOLEAN /\ built \in BOOLEAN /\ edits \in 0 .. MaxEdits
  /\ dirs # <<>>

\* The remaining variables keep their types.
THEOREM RestCorrect == Spec => []RestInv
<1>0. ASSUME NEW a, NEW b
      PROVE  <<a>> # <<>> /\ <<a, b>> # <<>>
  <2>1. Len(<<a>>) = 1 /\ Len(<<a, b>>) = 2
    OBVIOUS
  <2> QED
    BY <2>1
<1>1. Init => RestInv
  <2> SUFFICES ASSUME Init PROVE RestInv
    OBVIOUS
  <2>1. dirs # <<>>
    BY <1>0 DEF Init
  <2>2. edits \in 0 .. MaxEdits
    BY MaxEditsAssumption DEF Init
  <2> QED
    BY <2>1, <2>2 DEF Init, RestInv
<1>2. RestInv /\ [Next]_vars => RestInv'
  <2> SUFFICES ASSUME RestInv, [Next]_vars PROVE RestInv'
    OBVIOUS
  <2>1. CASE LoadForRunner \/ CollectInputs \/ ChooseStack \/ SingleModule \/ MakePlan
    BY <2>1 DEF LoadForRunner, CollectInputs, ChooseStack, SingleModule, MakePlan,
                plans, verdict, aftermath, settings, RestInv
  <2>2. CASE EditConfig
    BY <2>2 DEF EditConfig, plans, verdict, aftermath, RestInv
  <2>3. CASE ChooseModule
    <3>1. dirs' = dirs \/ \E m : dirs' = <<project.root, m>>
      BY <2>3 DEF ChooseModule
    <3>2. dirs' # <<>>
      BY <1>0, <3>1 DEF RestInv
    <3>3. UNCHANGED <<edited, built, edits>>
      BY <2>3 DEF ChooseModule, settings, verdict, aftermath
    <3> QED
      BY <3>2, <3>3 DEF RestInv
  <2>4. CASE Writing
    BY <2>4 DEF Writing, WriteDockerfile, WriteWorkload, WriteService,
                WriteServiceAccount, WriteNetworkPolicy, Write, plans, verdict,
                aftermath, settings, RestInv
  <2>5. CASE Gating
    BY <2>5 DEF Gating, ValidateFiles, BuildImage, plans, aftermath, settings, RestInv
  <2>6. CASE Publishing
    BY <2>6, MaxEditsAssumption DEF Publishing, EditManifests, AuditManifests, plans,
                verdict, settings, RestInv
  <2>7. CASE UNCHANGED vars
    BY <2>7 DEF vars, plans, verdict, aftermath, settings, RestInv
  <2> QED
    BY <2>1, <2>2, <2>3, <2>4, <2>5, <2>6, <2>7, NextCases DEF Later, Analysing
<1> QED
  BY <1>1, <1>2, PTL DEF Spec

\* Every variable keeps its type, and the merged configuration is a YAML
\* document, for all files, projects, users and edits.
THEOREM TypesHold == Spec => []TypeOK
<1>1. ConfigInv => IsDocument(config.raw) /\ runnerEngine \in Engines
  <2> SUFFICES ASSUME ConfigInv PROVE IsDocument(config.raw)
    BY DEF ConfigInv
  <2>1. PICK o \in OrgFiles, l \in ProjectFiles : config = Load(o, l)
    BY DEF ConfigInv
  <2>2. IsDocument(o.doc) /\ IsDocument(l.doc)
    BY DocumentsAssumption
  <2> QED
    BY <2>1, <2>2, LoadIsDocument
<1>2. ConfigInv /\ RunInv /\ RestInv => TypeOK
  BY <1>1 DEF RunInv, RestInv, TypeOK
<1> QED
  BY <1>2, ConfigCorrect, RunCorrect, RestCorrect, PTL

-----------------------------------------------------------------------------
(* SVC-002 after any edits.                                                *)

\* Each published file holds one document.
SingleInv ==
  step \in {"published", "audited"} =>
    \A i \in DOMAIN manifests : DOMAIN manifests[i].docs = {1}

\* An edit changes fields of documents, or breaks a file: it adds no document.
LEMMA EditKeepsSingle ==
  ASSUME NEW e \in Edits, \A i \in DOMAIN manifests : DOMAIN manifests[i].docs = {1},
         manifests' = Edited(manifests, e)
  PROVE  \A i \in DOMAIN manifests' : DOMAIN manifests'[i].docs = {1}
<1>1. CASE e.what = "container"
  <2>1. manifests' = [manifests EXCEPT ![1].docs[1].containers[1][e.field] = e.value]
    BY <1>1 DEF Edited
  <2> QED
    BY <2>1
<1>2. CASE e.what = "pod"
  <2>1. manifests' = [manifests EXCEPT ![1].docs[1].security[e.field] = e.value]
    BY <1>2 DEF Edited
  <2> QED
    BY <2>1
<1>3. CASE e.what = "workload"
  <2>1. manifests' = [manifests EXCEPT ![1].docs[1][e.field] = e.value]
    BY <1>3 DEF Edited
  <2> QED
    BY <2>1
<1>4. CASE e.what = "service"
  <2>1. manifests' = [manifests EXCEPT ![2].docs[1][e.field] = e.value]
    BY <1>4 DEF Edited
  <2> QED
    BY <2>1
<1>5. CASE e.what = "broken"
  <2>1. manifests' = [manifests EXCEPT ![1].parses = FALSE]
    BY <1>5 DEF Edited
  <2> QED
    BY <2>1
<1> QED
  BY <1>1, <1>2, <1>3, <1>4, <1>5, EditsAssumption

\* The pipeline's own files hold one document each.
LEMMA WrittenSingle ==
  ASSUME NEW files \in FileSets
  PROVE  \A i \in DOMAIN files : DOMAIN files[i].docs = {1}
<1>1. ASSUME NEW doc PROVE DOMAIN <<doc>> = {1}
  OBVIOUS
<1>2. DOMAIN WorkloadFile.docs = {1}
  BY <1>1, FileHasOneDoc DEF WorkloadFile
<1>3. /\ DOMAIN ServiceFile.docs = {1} /\ DOMAIN AccountFile.docs = {1}
      /\ DOMAIN PolicyFile.docs = {1}
  BY <1>1, FileHasOneDoc DEF ServiceFile, AccountFile, PolicyFile
<1> QED
  BY <1>2, <1>3, FilesOfASet

\* Whatever is edited, a published file holds one document.
THEOREM SingleCorrect == Spec => []SingleInv
<1>1. Init => SingleInv
  BY DEF Init, SingleInv
<1>2. SingleInv /\ FilesInv /\ [Next]_vars => SingleInv'
  <2> SUFFICES ASSUME SingleInv, FilesInv, [Next]_vars PROVE SingleInv'
    OBVIOUS
  <2>1. CASE LoadForRunner \/ EditConfig \/ CollectInputs \/ Analysing
               \/ Writing \/ ValidateFiles
    <3>1. step' \notin {"published", "audited"}
      BY <2>1 DEF LoadForRunner, EditConfig, CollectInputs, Analysing, ChooseStack,
                  ChooseModule, SingleModule, MakePlan, Writing, WriteDockerfile,
                  WriteWorkload, WriteService, WriteServiceAccount,
                  WriteNetworkPolicy, Write, When, ValidateFiles, Proceed, Continue,
                  Fail
    <3> QED
      BY <3>1 DEF SingleInv
  <2>2. CASE BuildImage
    <3>1. step = "build" /\ UNCHANGED manifests
      BY <2>2 DEF BuildImage, output
    <3>2. manifests \in FileSets
      BY <3>1 DEF FilesInv, Complete
    <3> QED
      BY <3>1, <3>2, WrittenSingle DEF SingleInv
  <2>3. CASE EditManifests
    <3>1. PICK e \in Edits : manifests' = Edited(manifests, e)
      BY <2>3 DEF EditManifests
    <3>2. step = "published"
      BY <2>3 DEF EditManifests
    <3> QED
      BY <3>1, <3>2, EditKeepsSingle DEF SingleInv
  <2>4. CASE AuditManifests \/ UNCHANGED vars
    <3>1. UNCHANGED manifests /\ step \in {step', "published"}
      BY <2>4 DEF AuditManifests, vars, output
    <3> QED
      BY <3>1 DEF SingleInv
  <2> QED
    BY <2>1, <2>2, <2>3, <2>4, NextCases DEF Later, Gating, Publishing
<1> QED
  BY <1>1, <1>2, FilesCorrect, PTL DEF Spec

NotCompared(results) == \A r \in results : r.rule # "SVC-002"

\* A rule reports under its own name only.
LEMMA RulesReportTheirName ==
  ASSUME NEW rule, NEW holds, rule # "SVC-002"
  PROVE  NotCompared(Must(rule, holds)) /\ NotCompared(Warn(rule, holds))
BY DEF NotCompared, Must, Warn

\* Results of two sets of rules are results of one.
LEMMA NotComparedUnion ==
  ASSUME NEW S, NEW T, NotCompared(S), NotCompared(T)
  PROVE  NotCompared(S \cup T)
BY DEF NotCompared

\* No rule on containers or pods is SVC-002.
LEMMA PodsAreNotCompared ==
  ASSUME NEW doc
  PROVE  NotCompared(CheckPodSpec(doc))
<1> USE RulesReportTheirName
<1>1. ASSUME NEW c, NEW pod PROVE NotCompared(ContainerRules(c, pod))
  <2>1. /\ NotCompared(SEC001(c, pod)) /\ NotCompared(SEC002(c))
        /\ NotCompared(SEC003(c)) /\ NotCompared(SEC004(c))
        /\ NotCompared(SEC005(c)) /\ NotCompared(SEC007(c, pod))
        /\ NotCompared(SEC009(c))
    BY DEF SEC001, SEC002, SEC003, SEC004, SEC005, SEC007, SEC009
  <2>2. /\ NotCompared(IMG001(c)) /\ NotCompared(IMGW01(c))
        /\ NotCompared(IMGW02(c)) /\ NotCompared(PRB001(c))
        /\ NotCompared(PRB002(c)) /\ NotCompared(RES001(c))
        /\ NotCompared(RESW01(c))
    BY DEF IMG001, IMGW01, IMGW02, PRB001, PRB002, RES001, RESW01
  <2> QED
    BY <2>1, <2>2, NotComparedUnion DEF ContainerRules
<1>2. NotCompared(PodRules(doc))
  <2>1. /\ NotCompared(SEC006(doc.security)) /\ NotCompared(SEC008(doc.security))
        /\ NotCompared(SA001(doc)) /\ NotCompared(SA002(doc))
        /\ NotCompared(LIFEW01(doc))
    BY DEF SEC006, SEC008, SA001, SA002, LIFEW01
  <2> QED
    BY <2>1, NotComparedUnion DEF PodRules
<1>3. NotCompared(UNION {ContainerRules(doc.containers[i], doc.security) :
                           i \in DOMAIN doc.containers})
  BY <1>1 DEF NotCompared
<1> QED
  BY <1>2, <1>3, NotComparedUnion DEF CheckPodSpec

\* A document that is alone in its file has no ports to be compared with.
LEMMA AloneIsNotCompared ==
  ASSUME NEW docs, DOMAIN docs = {1}
  PROVE  NotCompared(ValidateDoc(docs[1], docs))
<1>1. CASE docs[1].kind \in WorkloadKinds
  <2>1. NotCompared(STSW01(docs[1])) /\ NotCompared({})
    BY RulesReportTheirName DEF STSW01, NotCompared
  <2>2. \E rest \in {STSW01(docs[1]), {}} :
          ValidateDoc(docs[1], docs) = CheckPodSpec(docs[1]) \cup rest
    BY <1>1 DEF ValidateDoc, WorkloadKinds
  <2> QED
    BY <2>1, <2>2, PodsAreNotCompared, NotComparedUnion
<1>2. CASE docs[1].kind = "Service"
  <2>1. {i \in DOMAIN docs :
           docs[i].kind \in {"Deployment", "StatefulSet", "DaemonSet"}} = {}
    BY <1>2
  <2>2. SVC002(docs[1], docs) = {}
    BY <2>1 DEF SVC002
  <2>3. NotCompared(SVC001(docs[1]))
    BY RulesReportTheirName DEF SVC001
  <2> QED
    BY <1>2, <2>2, <2>3 DEF ValidateDoc, WorkloadKinds
<1>3. CASE docs[1].kind \notin WorkloadKinds \cup {"Service"}
  BY <1>3 DEF ValidateDoc, NotCompared
<1> QED
  BY <1>1, <1>2, <1>3

\* However the user edits the published files, validate_k8s.py never compares
\* a Service's port with the container's: each is alone in its file (validate,
\* rule_svc_002).
THEOREM PortsStayUncompared == Spec => []PortsAreNotCompared
<1>1. SingleInv /\ AuditInv => PortsAreNotCompared
  <2> SUFFICES ASSUME SingleInv, AuditInv, step = "audited"
               PROVE  NotCompared(audit.results)
    BY DEF PortsAreNotCompared, NotCompared
  <2> DEFINE readable == {i \in DOMAIN manifests : manifests[i].parses}
             all == UNION {UNION {ValidateDoc(doc, manifests[i].docs) :
                                    doc \in DocsOf(manifests[i])} : i \in readable}
             broken == UNION {Must("PARSE-ERR", FALSE) :
                                i \in DOMAIN manifests \ readable}
             policies == NETW01(UNION {DocsOf(manifests[i]) : i \in readable})
  <2>1. audit.results = all \cup broken \cup policies
    <3>1. audit = Validate(manifests)
      BY DEF AuditInv
    <3>2. Validate(manifests).results = all \cup broken \cup policies
      BY DEF Validate
    <3> QED
      BY <3>1, <3>2
  <2>2. ASSUME NEW i \in readable, NEW doc \in DocsOf(manifests[i])
        PROVE  NotCompared(ValidateDoc(doc, manifests[i].docs))
    <3>1. DOMAIN manifests[i].docs = {1}
      BY DEF SingleInv
    <3>2. doc = manifests[i].docs[1]
      BY <3>1 DEF DocsOf
    <3> QED
      BY <3>1, <3>2, AloneIsNotCompared
  <2>3. NotCompared(all)
    BY <2>2 DEF NotCompared
  <2>4. NotCompared(broken)
    <3>1. NotCompared(Must("PARSE-ERR", FALSE))
      BY RulesReportTheirName
    <3> QED
      BY <3>1 DEF NotCompared
  <2>5. NotCompared(policies)
    BY RulesReportTheirName DEF NETW01
  <2> HIDE DEF all, broken, policies
  <2> QED
    BY <2>1, <2>3, <2>4, <2>5, NotComparedUnion
<1> QED
  BY <1>1, SingleCorrect, AuditIsOfTheFiles, PTL

-----------------------------------------------------------------------------
(* The three properties that have parts.                                    *)

\* The files of any run agree with each other in their ports, names, mounts and
\* volumes, for any project, configuration and vocabulary.
THEOREM FilesAreOneSet == Spec => []FilesAgree
<1>1. PortsAgree /\ DocumentsAgree /\ MountsHaveVolumes => FilesAgree
  BY DEF FilesAgree
<1> QED
  BY <1>1, PortsAreTheSame, FilesAgreeOnNames, MountsAreBacked, PTL

\* The gate has no failure for generated files but the digest without a tag,
\* and always a warning.
THEOREM GateWarnsAtMost == Spec => []GateVerdict
<1>1. GeneratedPasses /\ NeverAllClear => GateVerdict
  BY DEF GateVerdict
<1> QED
  BY <1>1, GeneratedFilesPass, RunsAreNeverAllClear, PTL

\* Every stack passed over and every module nobody chose is in the gaps.
THEOREM GapsTellAll == Spec => []GapsAreTold
<1>1. NoSilentFallback /\ ModuleIsAskedOrTold => GapsAreTold
  BY DEF GapsAreTold
<1> QED
  BY <1>1, FallbackIsTold, ModuleIsExplained, PTL
=============================================================================
