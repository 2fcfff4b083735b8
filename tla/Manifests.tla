------------------------------ MODULE Manifests ------------------------------
(***************************************************************************)
(* scripts/manifest_generator.py with the templates it renders: what it    *)
(* refuses, and the Kubernetes documents it makes from the inputs and the  *)
(* analysis.  YAML booleans are "true", "false" or "unset".                *)
(***************************************************************************)
EXTENDS Integers, Sequences, FiniteSets, Vocabulary

Unset == -1

-----------------------------------------------------------------------------
(* What is refused.                                                        *)

ValidImageReference(image) ==
  LET parts == Images[image] IN
  /\ parts.wellFormed
  /\ parts.tag # "" \/ parts.digest
  /\ parts.tag # "latest"

NameRefused(inputs) ==
  inputs.appName \notin Labels \/ inputs.namespace \notin Labels

Exposures == {"ClusterIP", "NodePort", "LoadBalancer"}

\* None leaves the field out, "" turns dynamic provisioning off.
StorageClassRefused(class) ==
  /\ class.kind # "null"
  /\ ~ (class.kind = "text" /\ class.text \in StorageClasses \cup {""})

EntryRefused(entry) ==
  \/ ~ entry.exact   \* not a dict of exactly namespace and port
  \/ entry.namespace \notin Labels
  \/ entry.port \notin Ports

\* The value of network.allow_ingress_from or allow_egress_to; a false value
\* counts as none.
PeerEntries(value) == IF value.kind = "list" THEN Peers[value.text] ELSE {}

PeersRefused(value) ==
  \/ value.kind \notin {"list", "null", "missing"}
  \/ \E entry \in PeerEntries(value) : EntryRefused(entry)

\* Mutant of DeploymentRefused: the image is not looked at.
DeploymentRefusedByName(inputs, image) ==
  NameRefused(inputs) \/ inputs.port \notin Ports
DeploymentRefused(inputs, image) ==
  NameRefused(inputs) \/ inputs.port \notin Ports \/ ~ ValidImageReference(image)
ServiceRefused(inputs) ==
  NameRefused(inputs) \/ inputs.port \notin Ports
    \/ inputs.exposure \notin Exposures
StatefulSetRefused(inputs, image, cluster) ==
  DeploymentRefused(inputs, image) \/ StorageClassRefused(cluster.storageClass)
NetworkPolicyRefused(inputs, ingress, egress) ==
  NameRefused(inputs) \/ PeersRefused(ingress) \/ PeersRefused(egress)

-----------------------------------------------------------------------------
(* The documents.                                                          *)

\* The segments of the path, with dashes between them.
VolumeNameForPath(path) == IF path = <<>> THEN <<"root">> ELSE path

WritableVolumeMounts(paths) ==
  {[name |-> VolumeNameForPath(p), path |-> p] : p \in paths}
WritableVolumes(paths) == {VolumeNameForPath(p) : p \in paths}

ServiceAccountName(appName) == appName \o "-sa"

ASSUME SuffixAssumption == \A name \in Labels : ServiceAccountName(name) # ""

\* Mutant of PodSecurity: no seccomp profile.
PodSecurityUnconfined(uid) ==
  [runAsNonRoot |-> "true", runAsUser |-> uid, fsGroup |-> uid, seccomp |-> "unset"]

PodSecurity(uid) ==
  [runAsNonRoot |-> "true", runAsUser |-> uid, fsGroup |-> uid,
   seccomp |-> "RuntimeDefault"]

Container(inputs, defaults, probes, image, pullPolicy, portName, mounts) ==
  [image |-> image, pullPolicy |-> pullPolicy,
   port |-> inputs.port, portName |-> portName,
   runAsNonRoot |-> "unset", runAsUser |-> Unset,
   privileged |-> "false", escalation |-> "false", readOnlyRoot |-> "true",
   drop |-> {"ALL"}, secrets |-> {},
   cpuRequest |-> defaults.cpuRequest, cpuLimit |-> defaults.cpuLimit,
   probes |-> probes, mounts |-> mounts]

Workload(kind, inputs, defaults, container, volumes, claims) ==
  [kind |-> kind, name |-> inputs.appName, namespace |-> inputs.namespace,
   replicas |-> inputs.replicas,
   selector |-> inputs.appName, labels |-> inputs.appName,
   serviceAccount |-> ServiceAccountName(inputs.appName), automount |-> "false",
   gracePeriod |-> Unset, security |-> PodSecurity(defaults.runAsUser),
   containers |-> <<container>>, volumes |-> volumes, claims |-> claims]

Deployment(inputs, analysis, image) ==
  LET paths == analysis.defaults.writablePaths IN
  Workload("Deployment", inputs, analysis.defaults,
           Container(inputs, analysis.defaults, analysis.probes, image,
                     "IfNotPresent", "http", WritableVolumeMounts(paths)),
           WritableVolumes(paths), {})

\* Its mounts are in the template: the writable paths of the stack are not.
StatefulSet(inputs, analysis, image) ==
  Workload("StatefulSet", inputs, analysis.defaults,
           Container(inputs, analysis.defaults, analysis.probes, image,
                     "", "",
                     WritableVolumeMounts({<<"tmp">>, <<"data">>})),
           {<<"tmp">>}, {<<"data">>})

Service(inputs) ==
  [kind |-> "Service", name |-> inputs.appName, namespace |-> inputs.namespace,
   type |-> inputs.exposure, selector |-> inputs.appName,
   port |-> inputs.port, targetPort |-> inputs.port]

ServiceAccount(inputs) ==
  [kind |-> "ServiceAccount", name |-> ServiceAccountName(inputs.appName),
   namespace |-> inputs.namespace, automount |-> "false"]

\* Without entries nothing may come in, and only DNS may go out.
NetworkPolicy(inputs, ingress, egress) ==
  [kind |-> "NetworkPolicy", namespace |-> inputs.namespace,
   selector |-> inputs.appName,
   ingress |-> PeerEntries(ingress), egress |-> PeerEntries(egress)]
=============================================================================
