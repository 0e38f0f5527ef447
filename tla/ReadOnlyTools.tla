---------------------------- MODULE ReadOnlyTools ----------------------------
(***************************************************************************)
(* One call of a tool that only reads: those of DiagnosticsHandler and the *)
(* lists and getters of the other handlers.  A call makes its requests one *)
(* after the other, each of which sees the cluster at another moment, and  *)
(* puts together what it keeps of them; meanwhile the cluster changes      *)
(* under it and requests fail.                                             *)
(*                                                                         *)
(* An answer is made of one part for each request, a set of facts.  Fields *)
(* that are copied as they are (addresses, versions, ages, conditions,     *)
(* messages) are left out where no choice of the code depends on them.     *)
(***************************************************************************)
EXTENDS FiniteSets, Naturals, Sequences

CONSTANTS
  None,      \* no such object, no such label, no filter
  Nodes,     \* names of Nodes and of their StaticInstances
  Groups,    \* names of NodeGroups
  Roles,     \* what follows node-role.kubernetes.io/ in labels of Nodes
  Pods,      \* names of pods
  System,    \* those in the namespace d8-system
  Labelled,  \* those of System with the label app=deckhouse
  Modules,   \* names of modules
  Releases,  \* names of DeckhouseReleases and of ModuleReleases
  Sources,   \* names of ModuleSources and of ModuleUpdatePolicies
  Start,     \* the cluster that behaviours start with
  MaxChanges \* bound: how often the cluster changes

ASSUME PodAssumption == Labelled \subseteq System /\ System \subseteq Pods
ASSUME NoneAssumption == None \notin Releases \cup {"Pending", "Deployed"}

VARIABLES
  history, \* history[j][k][n]: the object of kind k named n, or None, as it was
           \* after j - 1 changes of the cluster since the call began
  call,    \* the tool and its arguments
  picked,  \* podName of GetDeckhouseLogs
  answer,  \* the parts of the answer that are there
  outcome, \* "running", "ok" or "error"
  lost     \* history: the requests that failed by themselves

callVars == <<call, picked, answer, outcome, lost>>
readVars == <<callVars, history>>

(* The cluster as it is. *)
cluster == history[Len(history)]

Names(k) == CASE k \in {"node", "instance", "events"} -> Nodes
              [] k = "group" -> Groups
              [] k = "pod" -> Pods
              [] k \in {"config", "module"} -> Modules
              [] k \in {"release", "moduleRelease"} -> Releases
              [] k \in {"source", "policy"} -> Sources
              [] k = "secret" -> {"d8-cluster-configuration"}

(* The keys of the Secret with the configurations of the cluster. *)
Keys == {"cluster-configuration.yaml", "static-cluster-configuration.yaml"}

(* The states of an object, as far as the tools look into it. *)
Values(k) ==
  CASE k = "node"     -> [ready : {"True", "Unknown", "none"}, group : Groups \cup {None},
                          roles : SUBSET Roles]
    [] k = "instance" -> [phase : {"", "Pending", "Running"}, group : Groups \cup {None}]
    [] k = "pod"      -> {"Pending", "Running", "Succeeded", "Failed"}
    [] k = "config"   -> [enabled : BOOLEAN, message : {"", "error"}]
    [] k = "release"  -> {"Pending", "Deployed", "Superseded"}
    [] k = "moduleRelease" -> [module : Modules, phase : {"Pending", "Deployed"}]
    [] k = "secret"   -> SUBSET Keys
    [] OTHER          -> {"old", "new"}

(* The kind of the objects that a request is about, and the requests that  *)
(* a tool makes.                                                           *)
About ==
  [nodes |-> "node", node |-> "node", instances |-> "instance", instance |-> "instance",
   groups |-> "group", group |-> "group", configs |-> "config", config |-> "config",
   modules |-> "module", releases |-> "release", pods |-> "pod", log |-> "pod",
   events |-> "events", moduleReleases |-> "moduleRelease", sources |-> "source",
   policies |-> "policy", secret |-> "secret"]
Requests(tool) ==
  CASE tool = "GetClusterStatus" -> <<"nodes", "groups", "configs", "releases", "pods">>
    [] tool = "ListNodes" -> <<"nodes">>
    [] tool = "ListNodeGroups" -> <<"groups">>
    [] tool = "ListStaticInstances" -> <<"instances">>
    [] tool = "ListUnhealthyPods" -> <<"pods">>
    [] tool = "ListModuleConfigs" -> <<"configs">>
    [] tool = "ListModules" -> <<"modules">>
    [] tool = "ListDeckhouseReleases" -> <<"releases">>
    [] tool = "GetNode" -> <<"node", "instance", "events">>
    [] tool = "GetNodeGroup" -> <<"group", "nodes">>
    [] tool = "GetDeckhouseLogs" -> <<"pods", "log">>
    [] tool = "GetNodeEvents" -> <<"events">>
    [] tool = "GetStaticInstance" -> <<"instance">>
    [] tool = "GetModuleConfig" -> <<"config">>
    [] tool = "GetPodLogs" -> <<"log">>
    [] tool = "ListModuleSources" -> <<"sources">>
    [] tool = "ListModuleUpdatePolicies" -> <<"policies">>
    [] tool = "ListModuleReleases" -> <<"moduleReleases">>
    [] tool \in {"GetClusterConfiguration", "GetStaticClusterConfiguration"} -> <<"secret">>

Optionally(S) == S \cup {None}
ToolCalls ==
  [tool : {"GetClusterStatus", "ListNodeGroups", "ListModules", "GetDeckhouseLogs",
           "ListModuleSources", "ListModuleUpdatePolicies",
           "GetClusterConfiguration", "GetStaticClusterConfiguration"}]
  \cup [tool : {"ListNodes"}, group : Optionally(Groups), role : Optionally(Roles),
        status : Optionally({"Ready", "NotReady"})]
  \cup [tool : {"ListStaticInstances"}, group : Optionally(Groups),
        phase : Optionally({"Pending", "Running"})]
  \cup [tool : {"ListUnhealthyPods"}, namespace : Optionally({"d8-system"})]
  \cup [tool : {"ListModuleConfigs"}, enabled : Optionally(BOOLEAN)]
  \cup [tool : {"ListDeckhouseReleases"}, phase : Optionally(Values("release"))]
  \cup [tool : {"ListModuleReleases"}, module : Optionally(Modules),
        phase : Optionally({"Pending", "Deployed"})]
  \cup [tool : {"GetNode", "GetNodeEvents", "GetStaticInstance"}, name : Nodes]
  \cup [tool : {"GetNodeGroup"}, name : Groups]
  \cup [tool : {"GetModuleConfig"}, name : Modules]
  \cup [tool : {"GetPodLogs"}, name : Pods]
------------------------------------------------------------------------------
(* What a request contributes to the answer: the sets of facts that the    *)
(* code may make of the objects it is given.  The set is empty if the code *)
(* turns what the server says into an error.                               *)
Present(k) == {n \in Names(k) : cluster[k][n] # None}
Matches(filter, value) == filter \in {None, value}

isNodeReady(n) == cluster.node[n].ready = "True"
Status(n) == IF isNodeReady(n) THEN "Ready" ELSE "NotReady"

(* The loop over the labels of a Node stops at the first role of a Go map. *)
RolesOf(n) == IF cluster.node[n].roles = {} THEN {None} ELSE cluster.node[n].roles
RolePicks == {f \in [Present("node") -> UNION {RolesOf(n) : n \in Present("node")}] :
                \A n \in Present("node") : f[n] \in RolesOf(n)}
nodeToInfo(n, role) ==
  <<"node", n, [status |-> Status(n), group |-> cluster.node[n].group, role |-> role]>>

NodeSummary ==
  LET ready == {n \in Present("node") : isNodeReady(n)}
  IN  <<"nodes", Cardinality(Present("node")), Cardinality(ready),
        Cardinality(Present("node") \ ready)>>

matchesNodeFilter(n, role) ==
  /\ Matches(call.group, cluster.node[n].group)
  /\ Matches(call.status, Status(n))
  /\ Matches(call.role, role)

ListNodes ==
  {{nodeToInfo(n, f[n]) : n \in {m \in Present("node") : matchesNodeFilter(m, f[m])}} :
     f \in RolePicks}

NodeNames ==
  {<<"member", n, None>> : n \in {m \in Present("node") : cluster.node[m].group = call.name}}

NodeParts ==
  CASE call.tool = "GetClusterStatus" -> {{NodeSummary}}
    [] call.tool = "GetNodeGroup" -> {NodeNames}
    [] call.tool = "ListNodes" -> ListNodes

ListStaticInstances ==
  {<<"instance", n, cluster.instance[n].phase>> :
     n \in {m \in Present("instance") : /\ Matches(call.group, cluster.instance[m].group)
                                        /\ Matches(call.phase, cluster.instance[m].phase)}}

ErroredModules ==
  {<<"errored", m, None>> : m \in {c \in Present("config") : cluster.config[c].message # ""}}
ListModuleConfigs ==
  {<<"config", m, cluster.config[m]>> :
     m \in {c \in Present("config") : Matches(call.enabled, cluster.config[c].enabled)}}
ConfigParts == {IF call.tool = "GetClusterStatus" THEN ErroredModules ELSE ListModuleConfigs}

(* deckhouse_version is that of the last release found to be Deployed. *)
InPhase(p) == {r \in Present("release") : cluster.release[r] = p}
ReleaseInfo ==
  {{<<"pending", r>> : r \in InPhase("Pending")} \cup {<<"version", v>>} :
     v \in IF InPhase("Deployed") = {} THEN {None} ELSE InPhase("Deployed")}
ListDeckhouseReleases ==
  {<<"release", r, cluster.release[r]>> :
     r \in {q \in Present("release") : Matches(call.phase, cluster.release[q])}}
ReleaseParts ==
  IF call.tool = "GetClusterStatus" THEN ReleaseInfo ELSE {ListDeckhouseReleases}

(* module_name is required; the server selects by the label. *)
ListModuleReleases ==
  IF call.module = None THEN {}
  ELSE {{<<"moduleRelease", m, cluster.moduleRelease[m]>> :
           m \in {q \in Present("moduleRelease") :
                    /\ cluster.moduleRelease[q].module = call.module
                    /\ Matches(call.phase, cluster.moduleRelease[q].phase)}}}

isPodHealthy(p) == cluster.pod[p] \in {"Running", "Succeeded"}
Unhealthy(S) == {p \in Present("pod") \cap S : ~isPodHealthy(p)}

(* A mutant of findDeckhousePod: the label is not looked at. *)
findAnyPod == Present("pod") \cap System

(* The first pod with the label, whatever its phase. *)
findDeckhousePod == Present("pod") \cap Labelled

UnhealthyPodsCount == <<"unhealthy", Cardinality(Unhealthy(System))>>
ListUnhealthyPods ==
  {<<"pod", p, cluster.pod[p]>> :
     p \in Unhealthy(IF call.namespace = None THEN Pods ELSE System)}

PodParts ==
  CASE call.tool = "GetClusterStatus" -> {{UnhealthyPodsCount}}
    [] call.tool = "ListUnhealthyPods" -> {ListUnhealthyPods}
    [] call.tool = "GetDeckhouseLogs" -> {{<<"picked", p>>} : p \in findDeckhousePod}

(* A single object by its name.  GetNode takes the phase of the            *)
(* StaticInstance and drops an empty one.                                  *)
Single(k) ==
  IF cluster[k][call.name] = None THEN {} ELSE {{<<k, call.name, cluster[k][call.name]>>}}
NodePart ==
  IF cluster.node[call.name] = None THEN {}
  ELSE {{nodeToInfo(call.name, role)} : role \in RolesOf(call.name)}
siPhase ==
  LET si == cluster.instance[call.name]
  IN  IF si = None THEN {}
      ELSE {IF si.phase = "" THEN {} ELSE {<<"instance", call.name, si.phase>>}}
InstancePart == IF call.tool = "GetNode" THEN siPhase ELSE Single("instance")

(* The events of a Node are a list, which may be empty. *)
EventParts ==
  {IF cluster.events[call.name] = None THEN {}
   ELSE {<<"events", call.name, cluster.events[call.name]>>}}

(* The two getters of ConfigHandler: one key of the Secret. *)
SecretParts ==
  LET held == cluster.secret["d8-cluster-configuration"]
      key  == IF call.tool = "GetClusterConfiguration"
              THEN "cluster-configuration.yaml" ELSE "static-cluster-configuration.yaml"
  IN  IF held = None \/ key \notin held THEN {} ELSE {{<<"configuration", key>>}}

(* The kubelet has the log of a pod from when its container starts.        *)
LogOf(p) == IF cluster.pod[p] \in {None, "Pending"} THEN {} ELSE {{<<"log", p>>}}

GetDeckhouseLogs == LogOf(picked)
GetPodLogs == LogOf(call.name)

(* The lists without a filter. *)
Every(k) == {{<<k, n, cluster[k][n]>> : n \in Present(k)}}
ListNodeGroups == Every("group")
ListModules == Every("module")
ListModuleSources == Every("source")
ListModuleUpdatePolicies == Every("policy")

Parts(r) ==
  CASE r = "nodes" -> NodeParts               [] r = "node" -> NodePart
    [] r = "groups" -> ListNodeGroups         [] r = "group" -> Single("group")
    [] r = "instances" -> {ListStaticInstances} [] r = "instance" -> InstancePart
    [] r = "configs" -> ConfigParts           [] r = "config" -> Single("config")
    [] r = "modules" -> ListModules           [] r = "releases" -> ReleaseParts
    [] r = "sources" -> ListModuleSources     [] r = "moduleReleases" -> ListModuleReleases
    [] r = "policies" -> ListModuleUpdatePolicies
    [] r = "secret" -> SecretParts            [] r = "events" -> EventParts
    [] r = "pods" -> PodParts
    [] r = "log" -> IF call.tool = "GetPodLogs" THEN GetPodLogs ELSE GetDeckhouseLogs
------------------------------------------------------------------------------
(* The requests of the call, the one that is next, and what they are about. *)
Script == Requests(call.tool)
NextRequest == Script[Len(answer) + 1]
Asked == {Script[i] : i \in DOMAIN Script}

(* A mutant of Optional: the tools that make several requests give up at   *)
(* none but the first that fails.                                          *)
OptionalAfterFirst(r) == r # Script[1]

(* A mutant of Optional: GetNode insists on every part. *)
NothingOptional(r) == FALSE

(* GetNode ignores what goes wrong with its second and third request. *)
Optional(r) == call.tool = "GetNode" /\ r \in {"instance", "events"}

(* The call has begun. *)
ReadInit ==
  /\ history = <<Start>>
  /\ call \in ToolCalls
  /\ picked = None /\ answer = <<>> /\ outcome = "running" /\ lost = {}

GoOn(part) ==
  /\ answer' = Append(answer, part)
  /\ outcome' = IF Len(answer) + 1 = Len(Script) THEN "ok" ELSE "running"

(* The next request is answered. *)
Answered ==
  /\ outcome = "running"
  /\ \E part \in Parts(NextRequest) :
       /\ GoOn(part)
       /\ picked' = IF call.tool = "GetDeckhouseLogs" /\ NextRequest = "pods"
                    THEN (CHOOSE f \in part : TRUE)[2] ELSE picked
  /\ UNCHANGED <<call, lost>>

(* The next request gets an error: there is no such object, or something   *)
(* went wrong on the way.                                                  *)
Unanswered ==
  /\ outcome = "running"
  /\ \/ Parts(NextRequest) = {} /\ UNCHANGED lost
     \/ lost' = lost \cup {NextRequest}
  /\ IF Optional(NextRequest) THEN GoOn({})
     ELSE outcome' = "error" /\ UNCHANGED answer
  /\ UNCHANGED <<call, picked>>

(* Somebody creates, changes or deletes an object that the call may read.  *)
Change ==
  /\ outcome = "running" /\ Len(history) <= MaxChanges
  /\ \E r \in Asked : \E n \in Names(About[r]), v \in Optionally(Values(About[r])) :
       /\ v # cluster[About[r]][n]
       /\ history' = Append(history, [cluster EXCEPT ![About[r]][n] = v])
  /\ UNCHANGED callVars

Request == (Answered \/ Unanswered) /\ UNCHANGED history
ReadNext == Change \/ Request

ReadSpec == ReadInit /\ [][ReadNext]_readVars
==============================================================================
