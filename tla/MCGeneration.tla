---------------------------- MODULE MCGeneration ----------------------------
(***************************************************************************)
(* A small world for Generation: configuration files that are absent,      *)
(* partial, blank, contradictory or unusable, and one project for each     *)
(* turn the analysis can take.                                             *)
(***************************************************************************)
EXTENDS Generation

MCLabels == {"shop", "my-app", "devflow-app", "api", "worker", "team-a", "prod",
             "tmp", "var", "log", "data", "app"}
MCDirNames == {"My_App", "api", ""}
MCLabelOf == [n \in MCDirNames |-> CASE n = "My_App" -> "my-app"
                                     [] n = "api" -> "api"
                                     [] n = "" -> "devflow-app"]
MCStorageClasses == {"local-path"}
MCGoEntrypoints == {".", "./cmd/api", "./cmd/worker"}
MCPythonEntrypoints == {"main:app", "srv:app"}
MCProbePaths == {"/ready"}
MCModuleSegments == {"api", "worker", "nested"}

Parts(wellFormed, tag, digest) ==
  [wellFormed |-> wellFormed, tag |-> tag, digest |-> digest]
MCImages == [i \in {"app:0.2.0", "shop@sha256", "shop:1@sha256", "shop:latest"} |->
               CASE i = "app:0.2.0" -> Parts(TRUE, "0.2.0", FALSE)
                 [] i = "shop@sha256" -> Parts(TRUE, "", TRUE)
                 [] i = "shop:1@sha256" -> Parts(TRUE, "1", TRUE)
                 [] i = "shop:latest" -> Parts(TRUE, "latest", FALSE)]

List(text) == Node("list", text, NoNumber)
MCPeers == [l \in {"web", "all"} |->
              IF l = "web" THEN {[exact |-> TRUE, namespace |-> "prod", port |-> 8080]}
                           ELSE {[exact |-> TRUE, namespace |-> "prod", port |-> 0]}]

-----------------------------------------------------------------------------
(* Configuration files.                                                    *)

ConfigFile(state, link, leaves) == [state |-> state, link |-> link, doc |-> Doc(leaves)]
Absent == ConfigFile("absent", "plain", {})
Malformed == ConfigFile("malformed", "plain", {})

MCOrgFiles ==
  {Absent, Malformed,
   ConfigFile("ok", "inside",
              {<< <<"namespace">>, Text("team-a") >>, << <<"stack">>, Text("go") >>,
               << <<"build", "engine">>, Text("docker") >>}),
   ConfigFile("ok", "plain",
              {<< <<"cluster", "preset">>, Text("bare") >>,
               << <<"build">>, Text("none") >>,
               << <<"app", "replicas">>, Number(3, "3") >>})}

MCProjectFiles ==
  {Absent,
   ConfigFile("oversized", "plain", {}),
   ConfigFile("ok", "outside", {<< <<"namespace">>, Text("prod") >>}),
   ConfigFile("ok", "plain",
              {<< <<"namespace">>, Text("") >>, << <<"app", "port">>, Number(9090, "9090") >>,
               << <<"build", "engine">>, Text("podman") >>}),
   ConfigFile("ok", "plain",
              {<< <<"namespace">>, Text("prod") >>, << <<"build", "engine">>, Text("skip") >>,
               << <<"stack", "go", "entrypoint">>, Text("./cmd/api") >>,
               << <<"app", "name">>, Text("shop") >>,
               << <<"stack", "python", "entrypoint">>, Text("srv:app") >>,
               << <<"network", "allow_ingress_from">>, List("web") >>,
               << <<"stack", "jvm", "probe", "path">>, Text("/ready") >>}),
   ConfigFile("ok", "plain",
              {<< <<"namespace">>, Text("prod") >>, << <<"stack">>, Text("python") >>,
               << <<"build", "image_tag">>, Text("shop@sha256") >>,
               << <<"cluster", "network_policy">>, Flag(FALSE) >>}),
   ConfigFile("ok", "plain",
              {<< <<"namespace">>, Text("prod") >>,
               << <<"build", "image_tag">>, Text("shop:latest") >>,
               << <<"stack", "python", "probe", "path">>, Text("no path") >>,
               << <<"stack", "go", "entrypoint">>, Text("../api") >>}),
   ConfigFile("ok", "plain",
              {<< <<"build", "build_timeout_seconds">>, Number(-1, "-1") >>}),
   ConfigFile("ok", "plain",
              {<< <<"namespace">>, Text("prod") >>, << <<"stack">>, Text("rust") >>}),
   ConfigFile("ok", "plain", {<< <<"app", "replicas">>, Number(0, "0") >>}),
   ConfigFile("ok", "plain",
              {<< <<"namespace">>, Text("prod") >>,
               << <<"network", "allow_egress_to">>, List("all") >>,
               << <<"cluster", "storage_class">>, Text("Fast!") >>})}

-----------------------------------------------------------------------------
(* Projects.                                                               *)

Manifest(core, extras) ==
  [there |-> TRUE, readable |-> TRUE, core |-> core, extras |-> extras]
NoManifest == [there |-> FALSE, readable |-> FALSE, core |-> {}, extras |-> {}]

EmptyDir ==
  [builds |-> <<>>, spring |-> <<>>, listable |-> TRUE, goMod |-> "absent",
   rootMain |-> FALSE, cmds |-> {}, cmdDenied |-> FALSE, goDirect |-> {}, goSum |-> {},
   pyproject |-> NoManifest, requirements |-> NoManifest, uvLock |-> FALSE,
   oddPoetry |-> FALSE, files |-> {}, manage |-> FALSE, wsgi |-> <<>>]

Build(name, state, boot, mentions, deps) ==
  [name |-> name, state |-> state, boot |-> boot, mentions |-> mentions, deps |-> deps]
Spring(profile, ext, port, exposes, datasource) ==
  [profile |-> profile, ext |-> ext, ok |-> TRUE, port |-> port,
   exposes |-> exposes, datasource |-> datasource]

Boot3 == [EmptyDir EXCEPT
  !.builds = <<Build("gradle", "text", 3, {"spring-boot"}, {"actuator", "jpa"})>>,
  !.spring = <<Spring(FALSE, "yml", 8081, FALSE, FALSE),
               Spring(TRUE, "properties", 8082, TRUE, FALSE)>>]
Boot2 == [EmptyDir EXCEPT
  !.builds = <<Build("pom", "text", 2, {"spring-boot"}, {"actuator", "kafka"})>>,
  !.spring = <<Spring(FALSE, "properties", 70000, FALSE, FALSE)>>]
Plain == [EmptyDir EXCEPT
  !.builds = <<Build("pom", "text", 0, {"ktor", "micronaut"}, {})>>,
  !.spring = <<Spring(TRUE, "yaml", 9999, FALSE, TRUE)>>]
BrokenGradle == [EmptyDir EXCEPT
  !.builds = <<Build("gradle", "unreadable", 0, {}, {})>>,
  !.spring = <<Spring(FALSE, "yml", NoPort, FALSE, TRUE)>>]

Gradle3 == [EmptyDir EXCEPT
  !.builds = <<Build("gradle", "text", 3, {"spring-boot"}, {})>>]

WithGo(dir, cmds) == [dir EXCEPT !.goMod = "ok", !.cmds = cmds]
Denied(dir) == [dir EXCEPT !.listable = FALSE]
DeniedCmd(dir) == [WithGo(dir, {}) EXCEPT !.cmdDenied = TRUE]
WithPom(dir, state) ==
  [dir EXCEPT !.builds = Append(@, Build("pom", state, 0, {}, {}))]

FastApi == [EmptyDir EXCEPT
  !.pyproject = Manifest({}, {}),
  !.requirements = Manifest({"fastapi", "uvicorn"}, {}),
  !.files = {"main.py"}]
Flask == [EmptyDir EXCEPT !.requirements = Manifest({"flask"}, {}),
                          !.goMod = "nameless"]
OddPoetry == [FastApi EXCEPT !.oddPoetry = TRUE]
Locked == [FastApi EXCEPT !.pyproject = NoManifest, !.uvLock = TRUE]
Django == [EmptyDir EXCEPT
  !.pyproject = Manifest({"django", "gunicorn"}, {}), !.uvLock = TRUE,
  !.manage = TRUE, !.wsgi = <<"site">>]

Module(absolute, colons, name, inside, dir) ==
  [absolute |-> absolute, colons |-> colons, name |-> name, inside |-> inside,
   dir |-> dir]
NoModules == <<<<>>, <<>>, <<>>>>
Single(dir) == [root |-> dir, settings |-> NoModules]

Multi ==
  [root |-> [Plain EXCEPT !.spring = <<Spring(FALSE, "yaml", 8083, FALSE, FALSE)>>],
   settings |-> <<<<Module(TRUE, "none", <<"api">>, FALSE, EmptyDir),
                    Module(FALSE, "inside", <<"nested">>, TRUE, Boot3)>>,
                  <<Module(FALSE, "leading", <<"worker">>, TRUE, Boot2),
                    Module(FALSE, "none", <<"api">>, TRUE, Boot3),
                    Module(FALSE, "none", <<"nested">>, TRUE, BrokenGradle),
                    Module(FALSE, "none", <<"nested", "api">>, TRUE, EmptyDir)>>,
                  <<>>>>]

MCProjects ==
  {Multi} \cup
  {Single(d) : d \in {EmptyDir, Boot3, Boot2, Plain,
                      WithGo(BrokenGradle, {"api", "worker"}),
                      WithGo(EmptyDir, {"worker"}),
                      WithGo(Boot3, {}),
                      DeniedCmd(FastApi),
                      WithPom(FastApi, "entities"), WithPom(Gradle3, "entities"),
                      OddPoetry,
                      FastApi, Locked, Flask, Django, Denied(Django)}}

-----------------------------------------------------------------------------
(* Users.                                                                  *)

Unusable == Node("unusable", "", NoNumber)
MCReplies ==
  {Unasked,
   [asks |-> TRUE, app_name |-> <<Text("api")>>,
    port |-> <<Text("?"), Node("text", "9000", 9000)>>,
    exposure |-> <<Text("everywhere")>>,
    namespace |-> <<Text("team-a")>>, resource_hint |-> <<Text("small")>>],
   [asks |-> TRUE, app_name |-> <<Unusable>>, port |-> <<Text("eighty")>>,
    exposure |-> <<Text("NodePort")>>,
    namespace |-> <<Text("?"), Text("")>>, resource_hint |-> <<Text("?"), Unusable>>],
   [asks |-> TRUE, app_name |-> <<Text("?"), Text("shop")>>,
    port |-> <<Number(9000, "9000")>>, exposure |-> <<Text("LoadBalancer")>>,
    namespace |-> <<Unusable>>, resource_hint |-> <<Text("large")>>]}

MCAnswers == {Nobody, <<"cancel">>, <<"api">>, <<"nested">>, <<"nested", "api">>,
              <<"else">>}

Edit(what, field, value) == [what |-> what, field |-> field, value |-> value]
MCEdits == {Edit("container", "runAsNonRoot", "false"),
            Edit("container", "runAsUser", 0),
            Edit("container", "pullPolicy", "Always"),
            Edit("pod", "runAsUser", 0),
            Edit("workload", "kind", "ReplicaSet"),
            Edit("workload", "gracePeriod", 60),
            Edit("service", "targetPort", 1),
            Edit("broken", "", "")}
=============================================================================
