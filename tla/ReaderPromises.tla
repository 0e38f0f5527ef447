--------------------------- MODULE ReaderPromises ----------------------------
(***************************************************************************)
(* What the reading tools promise, as the descriptions of their requests   *)
(* and answers in proto/deckhouse/v1 have it, and with it the properties   *)
(* of ReadOnlyTools.  The promises look at a cluster and at a part of an   *)
(* answer; how the tools come by the part is not used here.                *)
(***************************************************************************)
EXTENDS ReadOnlyTools

(* The objects of kind k that the call asks for in cluster c. *)
Filtered(filter, value) == filter # None => value = filter
Wanted(k, n, c) ==
  LET o == c[k][n] tool == call.tool
  IN  /\ o # None
      /\ tool = "ListNodes" =>
           /\ Filtered(call.group, o.group)
           /\ call.status # None => (o.ready = "True" <=> call.status = "Ready")
           /\ call.role # None => call.role \in o.roles
      /\ tool = "ListStaticInstances" =>
           Filtered(call.group, o.group) /\ Filtered(call.phase, o.phase)
      /\ tool = "ListUnhealthyPods" =>
           o \notin {"Running", "Succeeded"} /\ (call.namespace # None => n \in System)
      /\ tool = "ListModuleConfigs" => Filtered(call.enabled, o.enabled)
      /\ tool = "ListDeckhouseReleases" => Filtered(call.phase, o)
      /\ tool = "ListModuleReleases" =>
           o.module = call.module /\ Filtered(call.phase, o.phase)
      /\ tool = "GetNodeGroup" => IF k = "node" THEN o.group = call.name ELSE n = call.name
      /\ tool \in {"GetNode", "GetNodeEvents", "GetStaticInstance", "GetModuleConfig"} =>
           n = call.name
      /\ tool = "GetNode" /\ k = "instance" => o.phase # ""
      /\ tool = "GetClusterStatus" /\ k = "config" => o.message # ""

(* What may be said of object n of kind k in cluster c. *)
Describes(said, k, n, c) ==
  LET o == c[k][n] tool == call.tool
  IN  CASE k = "node" /\ tool \in {"ListNodes", "GetNode"} ->
             /\ said.status = IF o.ready = "True" THEN "Ready" ELSE "NotReady"
             /\ said.group = o.group
             /\ said.role \in o.roles \/ (said.role = None /\ o.roles = {})
        [] k = "instance" /\ tool = "GetNode" -> said = o.phase
        [] k = "instance" /\ tool = "ListStaticInstances" -> said = o.phase
        [] k = "node" /\ tool = "GetNodeGroup" -> said = None
        [] k = "config" /\ tool = "GetClusterStatus" -> said = None
        [] OTHER -> said = o

(* A Node that has the role asked for and another one.  "Filter by node    *)
(* role label" (diagnostics.proto) would have it listed; nodeToInfo looks  *)
(* at one label only, and which one is up to a Go map.                     *)
Ambiguous(k, n, c) ==
  call.tool = "ListNodes" /\ call.role # None /\ c[k][n].roles # {call.role}

(* The part lists the objects that are asked for, each once and as it is.  *)
(* A Node with several roles may be missing from a list by role.           *)
Lists(part, k, c) ==
  /\ \A f \in part : /\ f[2] \in Names(k) /\ Wanted(k, f[2], c)
                     /\ Describes(f[3], k, f[2], c)
  /\ \A f, g \in part : f[2] = g[2] => f = g
  /\ \A n \in Names(k) : Wanted(k, n, c) =>
       (\E f \in part : f[2] = n) \/ Ambiguous(k, n, c)

(* The numbers and the version in the answer of GetClusterStatus.  Pods    *)
(* are counted "across all namespaces" in diagnostics.proto, and in        *)
(* d8-system by the code; the latter is meant here.                        *)
CountsNodes(part, c) ==
  LET all == {n \in Nodes : c.node[n] # None}
  IN  \E f \in part :
        /\ part = {f}
        /\ f[2] = Cardinality(all)
        /\ f[3] = Cardinality({n \in all : c.node[n].ready = "True"})
        /\ f[4] = Cardinality({n \in all : c.node[n].ready # "True"})
CountsPods(part, c) ==
  \A f \in part :
    f[2] = Cardinality({p \in System : c.pod[p] \notin {None, "Running", "Succeeded"}})
TellsReleases(part, c) ==
  /\ \A x \in Releases : c.release[x] = "Pending" <=> <<"pending", x>> \in part
  /\ \E v \in Releases \cup {None} :
       /\ {f \in part : f[1] = "version"} = {<<"version", v>>}
       /\ IF v = None THEN \A x \in Releases : c.release[x] # "Deployed"
          ELSE c.release[v] = "Deployed"

KeyWanted ==
  IF call.tool = "GetStaticClusterConfiguration" THEN "static-cluster-configuration.yaml"
  ELSE "cluster-configuration.yaml"
KeyHeld(c) ==
  LET held == c.secret["d8-cluster-configuration"] IN held # None /\ KeyWanted \in held

Started(p, c) == c.pod[p] \notin {None, "Pending"}

(* The part for request r is what the call may be told of cluster c. *)
Right(r, part, c) ==
  CASE call.tool = "GetClusterStatus" /\ r = "nodes" -> CountsNodes(part, c)
    [] call.tool = "GetClusterStatus" /\ r = "releases" -> TellsReleases(part, c)
    [] call.tool = "GetClusterStatus" /\ r = "pods" -> part # {} /\ CountsPods(part, c)
    [] call.tool = "GetDeckhouseLogs" /\ r = "pods" -> picked \in Labelled /\ c.pod[picked] # None
    [] call.tool = "GetDeckhouseLogs" /\ r = "log" ->
         part = {<<"log", picked>>} /\ Started(picked, c)
    [] call.tool = "GetPodLogs" -> part = {<<"log", call.name>>} /\ Started(call.name, c)
    [] r = "secret" ->
         KeyHeld(c) /\ part = {<<"configuration", KeyWanted>>}
    [] OTHER ->
         /\ Lists(part, About[r], c)
         /\ r \in {"node", "group", "config"} \/ call.tool = "GetStaticInstance" => part # {}

(* The cluster has what request r cannot do without. *)
Servable(r, c) ==
  /\ r \in {"node", "group", "config"} \/ call.tool = "GetStaticInstance" =>
       c[About[r]][call.name] # None
  /\ call.tool = "GetPodLogs" => Started(call.name, c)
  /\ call.tool = "ListModuleReleases" => call.module # None
  /\ r = "secret" => KeyHeld(c)
------------------------------------------------------------------------------
Moments == 1 .. Len(history)

(* An answer could be given by one look at the cluster for each part, in   *)
(* the order of the requests and all during the call, that finds exactly   *)
(* what the part says: the parts of GetClusterStatus, GetNode and          *)
(* GetNodeGroup may contradict each other, but none stands for an earlier  *)
(* or later time, none goes back behind another, and on a quiet cluster    *)
(* they agree.  Only the StaticInstance and the events of GetNode may be   *)
(* missing, after an error that the answer does not mention.  The Deckhouse *)
(* pod whose log is answered was there when the pods were listed.          *)
AnswerRegular ==
  outcome = "ok" =>
    \E at \in [DOMAIN Script -> Moments] :
      /\ \A i, j \in DOMAIN Script : i <= j => at[i] <= at[j]
      /\ \A i \in DOMAIN Script :
           \/ Right(Script[i], answer[i], history[at[i]])
           \/ /\ call.tool = "GetNode" /\ i > 1
              /\ Script[i] \in lost /\ answer[i] = {}

(* Without a request that goes wrong by itself, a tool answers an error    *)
(* only if, at some moment of the call, something it needs was missing.  A *)
(* cloud node without a StaticInstance is no error of GetNode.  For        *)
(* GetDeckhouseLogs it is a pod with the label app=deckhouse: there was    *)
(* none, or one that the list may have had was without a log at that       *)
(* moment or later, whatever other pods d8-system has.  That is less than  *)
(* the log of "the Deckhouse controller pod running in d8-system" of       *)
(* diagnostics.proto: a pod with the label that has not started may be     *)
(* picked, and end the call, while another one runs.                       *)
ErrorsJustified ==
  outcome = "error" /\ lost = {} =>
    \/ \E i \in DOMAIN Script, j \in Moments : ~Servable(Script[i], history[j])
    \/ /\ call.tool = "GetDeckhouseLogs"
       /\ \/ \E j \in Moments : \A p \in Labelled : history[j].pod[p] = None
          \/ \E p \in Labelled, i, j \in Moments :
               i <= j /\ history[i].pod[p] # None /\ ~Started(p, history[j])
==============================================================================
