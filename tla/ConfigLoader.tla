---------------------------- MODULE ConfigLoader ----------------------------
(***************************************************************************)
(* scripts/config_loader.py: the three layers of configuration, their      *)
(* merge, and the questions the pipeline asks of the result.               *)
(*                                                                         *)
(* A YAML mapping is a function from the paths of its keys to nodes; its   *)
(* root is the path << >>.  A node says what kind of value stands there,   *)
(* what str() makes of it and what int() makes of it.                      *)
(***************************************************************************)
EXTENDS Integers, Sequences

NoNumber == -1000000   \* int() raises

Node(kind, text, number) == [kind |-> kind, text |-> text, number |-> number]
Dict == Node("dict", "{}", NoNumber)
Null == Node("null", "None", NoNumber)
Missing == Node("missing", "", NoNumber)   \* dict.get() finds no such key
Text(s) == Node("text", s, NoNumber)
Number(n, s) == Node("number", s, n)
Flag(b) == Node("flag", IF b THEN "True" ELSE "False", IF b THEN 1 ELSE 0)

\* The keys a path stands under: its proper prefixes.
Above(path) == {SubSeq(path, 1, n) : n \in 0 .. Len(path) - 1}

IsDocument(d) ==
  /\ DOMAIN d \subseteq Seq(STRING)
  /\ <<>> \in DOMAIN d
  /\ d[<<>>] = Dict
  /\ \A p \in DOMAIN d : \A q \in Above(p) : q \in DOMAIN d /\ d[q] = Dict

Empty == [p \in {<<>>} |-> Dict]
Get(d, p) == IF p \in DOMAIN d THEN d[p] ELSE Missing

\* dict.get(key, default)
GetOr(d, p, default) == IF p \in DOMAIN d THEN d[p] ELSE default

\* bool() of the value at p
Truthy(d, p) == LET v == Get(d, p) IN
  CASE v.kind = "text" -> v.text # ""
    [] v.kind \in {"number", "flag"} -> v.number # 0
    [] v.kind = "list" -> v.text # "[]"
    [] v.kind = "dict" -> \E c \in DOMAIN d : p \in Above(c)
    [] OTHER -> FALSE

-----------------------------------------------------------------------------
(* Merging.                                                                *)

\* Mutants of Merge: keys stay below a value that replaced their section; a
\* section replaces the section it should be merged into.
MergeKeepsOrphans(base, over) ==
  [p \in DOMAIN over \cup DOMAIN base
     |-> IF p \in DOMAIN over THEN over[p] ELSE base[p]]

MergeReplacesSections(base, over) ==
  [p \in DOMAIN over
           \cup {p \in DOMAIN base : \A q \in Above(p) \ {<<>>} : q \notin DOMAIN over}
     |-> IF p \in DOMAIN over THEN over[p] ELSE base[p]]

\* A dict is merged into a dict key by key; any other value replaces what is
\* below it.
Merge(base, over) ==
  [p \in DOMAIN over
           \cup {p \in DOMAIN base :
                   \A q \in Above(p) : q \in DOMAIN over => over[q] = Dict}
     |-> IF p \in DOMAIN over THEN over[p] ELSE base[p]]

\* The document with these leaves, and the dicts above them.
Doc(leaves) ==
  [p \in {l[1] : l \in leaves} \cup (UNION {Above(l[1]) : l \in leaves}) \cup {<<>>}
     |-> IF \E l \in leaves : l[1] = p
         THEN (CHOOSE l \in leaves : l[1] = p)[2] ELSE Dict]

Builtin == Doc({<< <<"stack">>, Text("auto") >>,
                << <<"namespace">>, Null >>,
                << <<"output", "dir">>, Text("k8s-output") >>,
                << <<"output", "on_exists">>, Text("prompt") >>,
                << <<"build", "engine">>, Text("skip") >>,
                << <<"build", "timeout_sec">>, Number(300, "300") >>,
                << <<"kubectl", "dry_run">>, Flag(TRUE) >>,
                << <<"resource", "hint">>, Text("medium") >>,
                << <<"validation", "skipped">>, Node("list", "[]", NoNumber) >>,
                << <<"app", "replicas">>, Number(2, "2") >>})

ASSUME BuiltinAssumption == IsDocument(Builtin)

\* A document decides a path it has, or that it cuts off by a plain value.
Decides(d, p) == p \in DOMAIN d \/ \E q \in Above(p) : q \in DOMAIN d /\ d[q] # Dict

-----------------------------------------------------------------------------
(* Loading.  A layer's file is a record: its state, where it is as a link   *)
(* ("plain", or a link "inside" or "outside" the project), its document.   *)

FileStates == {"absent", "ok", "malformed", "oversized", "unreadable"}

LayerData(file) == IF file.state = "ok" THEN file.doc ELSE Empty

\* Mutant of LayerWarnings: a file that is too large is passed over silently.
LayerWarningsButSize(layer, file) ==
  {<<layer, w>> : w \in {file.state} \ {"absent", "ok", "oversized"}}

LayerWarnings(layer, file) ==
  {<<layer, w>> : w \in {file.state} \ {"absent", "ok"}}

Outside(file) == file.state # "absent" /\ file.link = "outside"
OrgData(org) == LayerData(org)
ProjectData(project) == IF Outside(project) THEN Empty ELSE LayerData(project)

Warnings(org, project) ==
  (IF org.state # "absent" /\ org.link # "plain"
   THEN {<<"org", "link">>} ELSE {})
  \cup LayerWarnings("org", org)
  \cup (IF Outside(project) THEN {<<"project", "outside">>}
                            ELSE LayerWarnings("project", project))

\* The highest layer with this top level key.
SourceMap(builtin, org, project) ==
  [key \in {p[1] : p \in {q \in DOMAIN builtin \cup DOMAIN org
                            \cup DOMAIN project : Len(q) = 1}}
     |-> IF <<key>> \in DOMAIN project THEN "project_config"
         ELSE IF <<key>> \in DOMAIN org THEN "org_config"
         ELSE "builtin_default"]

Load(org, project) ==
  [raw |-> Merge(Merge(Builtin, OrgData(org)), ProjectData(project)),
   sources |-> SourceMap(Builtin, OrgData(org), ProjectData(project)),
   warnings |-> Warnings(org, project),
   layers |-> [project_config |-> ProjectData(project),
               org_config |-> OrgData(org),
               builtin_default |-> Builtin]]

\* Every path has the value of the highest layer that decides it; the source
\* map names the layer a plain top level value came from.
HighestLayerWins(config) ==
  LET project == config.layers.project_config
      org == config.layers.org_config
      builtin == config.layers.builtin_default
      paths == DOMAIN project \cup DOMAIN org \cup DOMAIN builtin
  IN  /\ DOMAIN config.raw \subseteq paths
      /\ \A p \in paths :
           Get(config.raw, p) =
             CASE Decides(project, p) -> Get(project, p)
               [] ~ Decides(project, p) /\ Decides(org, p) -> Get(org, p)
               [] OTHER -> Get(builtin, p)
      /\ \A key \in DOMAIN config.sources :
           config.raw[<<key>>] # Dict
             => config.raw[<<key>>] = config.layers[config.sources[key]][<<key>>]

-----------------------------------------------------------------------------
(* The questions.                                                          *)

\* Strings of blanks only are written Text("") here.
Present(v) == /\ v.kind \notin {"null", "missing"}
              /\ ~ (v.kind = "text" /\ v.text = "")

Resolution(value, source) ==
  [value |-> value, source |-> source,
   requiresConfirmation |-> value = "default"]

\* Each layer's own file is asked, not the merged document.
ResolveNamespace(config, answer, dirName) ==
  LET said(layer) == Get(config.layers[layer], <<"namespace">>) IN
  CASE Present(said("project_config")) ->
         Resolution(said("project_config").text, "project_config")
    [] ~ Present(said("project_config")) /\ Present(said("org_config")) ->
         Resolution(said("org_config").text, "org_config")
    [] OTHER -> IF Present(answer) THEN Resolution(answer.text, "user_input")
                                   ELSE Resolution(dirName, "project_dir")

SupportedStacks == {"auto", "jvm", "go", "python"}
Unsupported == "unsupported"   \* UnsupportedStackError

StackDecision(config) ==
  LET stack == GetOr(config.raw, <<"stack">>, Text("auto"))
      said == IF stack = Dict
              THEN GetOr(config.raw, <<"stack", "forced_stack">>, Text("auto"))
              ELSE stack
  IN  IF said.kind = "text" /\ said.text \in SupportedStacks
      THEN said.text ELSE Unsupported

\* stack.<name>.<key>, Missing unless stack and stack.<name> are dicts.
StackSetting(config, name, key) == Get(config.raw, <<"stack", name>> \o key)

Preset(config) == IF Truthy(config.raw, <<"cluster", "preset">>)
                  THEN config.raw[<<"cluster", "preset">>].text ELSE "orbstack"

ResolveClusterConfig(config) ==
  LET known == Preset(config) = "orbstack" IN
  [preset |-> Preset(config),
   storageClass |-> GetOr(config.raw, <<"cluster", "storage_class">>,
                          IF known THEN Text("local-path") ELSE Null),
   networkPolicy |-> IF <<"cluster", "network_policy">> \in DOMAIN config.raw
                     THEN Truthy(config.raw, <<"cluster", "network_policy">>)
                     ELSE known]
=============================================================================
