----------------------------- MODULE Validators -----------------------------
(***************************************************************************)
(* scripts/validators: the rules, each on the part of a document it looks  *)
(* at, and K8sValidator.validate, which applies them file by file.  A file *)
(* is [parses, docs]; a result is a rule and its level, one for each rule  *)
(* and target.                                                             *)
(***************************************************************************)
EXTENDS Integers, Sequences, FiniteSets, Vocabulary

NotSet == -1

Must(rule, holds) == {[rule |-> rule, level |-> IF holds THEN "PASS" ELSE "FAIL"]}
Warn(rule, holds) == IF holds THEN {[rule |-> rule, level |-> "WARN"]} ELSE {}

\* A container's own setting, else the pod's.
EffectiveFlag(own, pods) == IF own # "unset" THEN own ELSE pods
EffectiveUser(own, pods) == IF own # NotSet THEN own ELSE pods

-----------------------------------------------------------------------------
(* Rules on a container.                                                   *)

\* Mutant of SEC001: what the pod says is enough.
SEC001ByPod(c, pod) == Must("SEC-001", pod.runAsNonRoot = "true")

SEC001(c, pod) ==
  Must("SEC-001", EffectiveFlag(c.runAsNonRoot, pod.runAsNonRoot) = "true")
SEC002(c) == Must("SEC-002", c.privileged # "true")
SEC003(c) == Must("SEC-003", c.escalation = "false")
SEC004(c) == Must("SEC-004", c.readOnlyRoot = "true")
SEC005(c) == Must("SEC-005", "ALL" \in c.drop)
SEC007(c, pod) == Must("SEC-007", EffectiveUser(c.runAsUser, pod.runAsUser) > 0)

\* secrets: the variables with a literal value and the name of a secret.
SEC009(c) == Must("SEC-009", c.secrets = {})

Tagged(image) == Images[image].tag \notin {"", "latest"}
IMG001(c) == Must("IMG-001", Tagged(c.image))
IMGW01(c) == Warn("IMG-W01", Tagged(c.image) /\ ~ Images[c.image].digest)
IMGW02(c) == Warn("IMG-W02", c.pullPolicy = "Always" /\ ~ Images[c.image].digest)

HasProbe(probe) == probe.kind # "none"
PRB001(c) == Must("PRB-001", HasProbe(c.probes.liveness))
PRB002(c) == Must("PRB-002", HasProbe(c.probes.readiness))

RES001(c) == Must("RES-001", c.cpuRequest # NotSet /\ c.cpuLimit # NotSet)
RESW01(c) == Warn("RES-W01", c.cpuRequest > 0 /\ c.cpuLimit > 4 * c.cpuRequest)

ContainerRules(c, pod) ==
  SEC001(c, pod) \cup SEC002(c) \cup SEC003(c) \cup SEC004(c) \cup SEC005(c)
    \cup SEC007(c, pod) \cup SEC009(c) \cup IMG001(c) \cup IMGW01(c)
    \cup IMGW02(c) \cup PRB001(c) \cup PRB002(c) \cup RES001(c) \cup RESW01(c)

-----------------------------------------------------------------------------
(* Rules on a pod, a StatefulSet, a Service and the whole set.             *)

SEC006(pod) == Must("SEC-006", pod.seccomp \in {"RuntimeDefault", "Localhost"})
SEC008(pod) == Must("SEC-008", pod.fsGroup > 0)
SA001(doc) == Must("SA-001", doc.automount = "false")
SA002(doc) == Must("SA-002", doc.serviceAccount # "")

LIFEW01(doc) == Warn("LIFE-W01", doc.gracePeriod < 30)

PodRules(doc) == SEC006(doc.security) \cup SEC008(doc.security) \cup SA001(doc)
                   \cup SA002(doc) \cup LIFEW01(doc)

STSW01(doc) == Warn("STS-W01", doc.claims = {})

SVC001(doc) == Must("SVC-001", TRUE)

\* Ports are compared within one file only; without a workload there is
\* nothing to compare with.
SVC002(service, docs) ==
  LET workloads == {i \in DOMAIN docs :
                      docs[i].kind \in {"Deployment", "StatefulSet", "DaemonSet"}}
      ports == UNION {{docs[i].containers[j].port :
                         j \in DOMAIN docs[i].containers} : i \in workloads}
  IN  IF ports = {} THEN {}
      ELSE Must("SVC-002", service.targetPort \in ports)

NETW01(docs) == Warn("NET-W01", \A doc \in docs : doc.kind # "NetworkPolicy")

-----------------------------------------------------------------------------
(* K8sValidator.                                                           *)

WorkloadKinds == {"Deployment", "StatefulSet", "DaemonSet", "Job", "CronJob",
                  "Pod"}

CheckPodSpec(doc) ==
  PodRules(doc) \cup UNION {ContainerRules(doc.containers[i], doc.security) :
                              i \in DOMAIN doc.containers}

\* A kind nobody has a rule for passes unseen.
ValidateDoc(doc, docs) ==
  CASE doc.kind \in WorkloadKinds ->
         CheckPodSpec(doc)
           \cup (IF doc.kind = "StatefulSet" THEN STSW01(doc) ELSE {})
    [] doc.kind = "Service" -> SVC001(doc) \cup SVC002(doc, docs)
    [] OTHER -> {}

DocsOf(file) == {file.docs[i] : i \in DOMAIN file.docs}

ExitCode(results) ==
  CASE \E r \in results : r.level = "FAIL" -> 1
    [] \A r \in results : r.level = "PASS" -> 0
    [] OTHER -> 2

\* Mutant of Validate: a document is compared with those of all files.
ValidateTogether(files) ==
  LET readable == {i \in DOMAIN files : files[i].parses}
      docs == [i \in 1 .. Len(files) |-> files[i].docs[1]]
      results ==
        (UNION {ValidateDoc(docs[i], docs) : i \in readable})
          \cup (UNION {Must("PARSE-ERR", FALSE) : i \in DOMAIN files \ readable})
          \cup NETW01(UNION {DocsOf(files[i]) : i \in readable})
  IN  [results |-> results, exitCode |-> ExitCode(results)]

Validate(files) ==
  LET readable == {i \in DOMAIN files : files[i].parses}
      results ==
        (UNION {UNION {ValidateDoc(doc, files[i].docs) : doc \in DocsOf(files[i])} :
                  i \in readable})
          \cup (UNION {Must("PARSE-ERR", FALSE) : i \in DOMAIN files \ readable})
          \cup NETW01(UNION {DocsOf(files[i]) : i \in readable})
  IN  [results |-> results, exitCode |-> ExitCode(results)]
=============================================================================
