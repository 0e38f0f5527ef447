------------------------- MODULE ModuleSourceProofs --------------------------
(***************************************************************************)
(* Theorems about ModuleSource, for any calls and any releases, and about  *)
(* ReadOnlyTools, for any cluster.  The two have nothing in common but     *)
(* this module.                                                            *)
(***************************************************************************)
EXTENDS ModuleSource, ReaderPromises, SequenceTheorems, TLAPS

USE DEF vars

(* Only unforced deletions list, and they list before they delete.         *)
Placed ==
  \A c \in Calls :
    /\ pc[c] = "list" => Kind[c] = "delete"
    /\ c \in checked => pc[c] \notin {"idle", "list", "create"}

(* A call in flight has seen the present.                                  *)
SeesThePresent == \A c \in Calls : pc[c] \in InFlight => (References # {}) \in seen[c]

(* What references the source when a call that found nothing is about to   *)
(* delete it came later.                                                   *)
OnlyNewcomers ==
  \A c \in Calls : c \in checked /\ pc[c] = "delete" => References \subseteq since[c]

IInv == TypeOK /\ Placed /\ SeesThePresent /\ OnlyNewcomers /\ RefusedTruthfully

LEMMA InitInv == Init => IInv
<1> SUFFICES ASSUME Init PROVE IInv
  OBVIOUS
<1>1. source \in BOOLEAN  BY Zenon DEF Init
<1>2. TypeOK  BY <1>1 DEF Init, TypeOK
<1> QED
  BY <1>2 DEF IInv, Init, Placed, SeesThePresent, OnlyNewcomers, RefusedTruthfully, InFlight

(* One step of one call.                                                   *)
LEMMA StepInv ==
  ASSUME IInv, NEW c \in Calls, Step(c)
  PROVE  IInv'
<1> USE DEF IInv, TypeOK, InFlight, Goto
<1>1. label' = label /\ References' = References
  BY DEF Step, Begin, List, ListFails, DeleteTaken, CreateTaken, RequestFails, References
<1>2. since' = since
  BY DEF Step, Begin, List, ListFails, DeleteTaken, CreateTaken, RequestFails
<1>3. seen' = [d \in Calls |->
        IF pc'[d] \in InFlight THEN seen[d] \cup {References' # {}} ELSE seen[d]]
  BY DEF Step, Begin, List, ListFails, DeleteTaken, CreateTaken, RequestFails, Witness
<1>4. PICK l \in {"ok", "refused", "error"} \cup InFlight : pc' = [pc EXCEPT ![c] = l]
  BY KindAssumption
     DEF Step, Begin, List, ListFails, DeleteTaken, CreateTaken, RequestFails
<1>5. source' \in BOOLEAN
  BY Zenon DEF Step, Begin, List, ListFails, DeleteTaken, CreateTaken, RequestFails
<1>6. seen' \in [Calls -> SUBSET BOOLEAN] /\ \A d \in Calls : seen[d] \subseteq seen'[d]
  BY <1>3
<1>7. CASE List(c)
  <2>1. checked' = checked \cup {c} /\ Kind[c] = "delete" /\ pc[c] = "list"
    BY <1>7 DEF List, Placed
  <2>2. pc'[c] = IF References # {} THEN "refused" ELSE "delete"
    BY <1>7 DEF List, Blocking
  <2>3. TypeOK'  BY <1>1, <1>2, <1>4, <1>5, <1>6, <2>1
  <2>4. Placed'  BY <1>4, <2>1, <2>2 DEF Placed
  <2>5. SeesThePresent'  BY <1>3 DEF SeesThePresent
  <2>6. OnlyNewcomers'  BY <1>1, <1>2, <1>4, <2>1, <2>2 DEF OnlyNewcomers
  <2>7. RefusedTruthfully'
    <3>1. pc'[c] = "refused" => TRUE \in seen[c]  BY <2>1, <2>2 DEF SeesThePresent
    <3> QED  BY <1>4, <1>6, <3>1 DEF RefusedTruthfully
  <2> QED  BY <2>3, <2>4, <2>5, <2>6, <2>7
<1>8. CASE ~List(c)
  <2>1. /\ checked' = checked
        /\ pc'[c] # "refused"
        /\ pc'[c] = "list" => Kind[c] = "delete"
        /\ c \in checked => pc'[c] \notin {"idle", "list", "create", "delete"}
    BY <1>8, <1>4, KindAssumption
       DEF Step, Begin, ListFails, DeleteTaken, CreateTaken, RequestFails, Placed
  <2>2. TypeOK'  BY <1>1, <1>2, <1>4, <1>5, <1>6, <2>1
  <2>3. Placed'  BY <1>4, <2>1 DEF Placed
  <2>4. SeesThePresent'  BY <1>3 DEF SeesThePresent
  <2>5. OnlyNewcomers'  BY <1>1, <1>2, <1>4, <2>1 DEF OnlyNewcomers
  <2>6. RefusedTruthfully'  BY <1>4, <1>6, <2>1 DEF RefusedTruthfully
  <2> QED  BY <2>2, <2>3, <2>4, <2>5, <2>6
<1> QED  BY <1>7, <1>8

(* One step of everybody else.                                             *)
LEMMA WorldInv ==
  ASSUME IInv, ReleaseChanges \/ SourceChanges
  PROVE  IInv'
<1> USE DEF IInv, TypeOK, InFlight
<1>1. pc' = pc /\ checked' = checked
  BY DEF ReleaseChanges, SourceChanges
<1>2. seen' = [d \in Calls |->
        IF pc'[d] \in InFlight THEN seen[d] \cup {References' # {}} ELSE seen[d]]
  BY DEF ReleaseChanges, SourceChanges, Witness
<1>3. seen' \in [Calls -> SUBSET BOOLEAN] /\ \A d \in Calls : seen[d] \subseteq seen'[d]
  BY <1>2
<1>4. Placed' /\ SeesThePresent' /\ RefusedTruthfully'
  BY <1>1, <1>2, <1>3 DEF Placed, SeesThePresent, RefusedTruthfully
<1>5. CASE SourceChanges
  <2>1. label' = label /\ since' = since /\ source' \in BOOLEAN
    BY <1>5, Zenon DEF SourceChanges
  <2>2. TypeOK'  BY <1>1, <1>3, <2>1
  <2>3. OnlyNewcomers'  BY <1>1, <2>1 DEF OnlyNewcomers, References
  <2> QED  BY <1>4, <2>2, <2>3
<1>6. CASE ReleaseChanges
  <2>1. PICK r \in ModuleReleases, l \in Labels :
          /\ label' = [label EXCEPT ![r] = l]
          /\ since' = [c \in Calls |->
               IF l = "own" /\ c \in checked THEN since[c] \cup {r} ELSE since[c]]
    BY <1>6 DEF ReleaseChanges
  <2>2. source' = source  BY <1>6 DEF ReleaseChanges
  <2>3. TypeOK'
    <3>1. since' \in [Calls -> SUBSET ModuleReleases] /\ label' \in [ModuleReleases -> Labels]
      BY <2>1
    <3> QED  BY <1>1, <1>3, <2>2, <3>1
  <2>4. OnlyNewcomers'
    <3> SUFFICES ASSUME NEW c \in Calls, c \in checked, pc[c] = "delete", NEW q \in References'
                 PROVE  q \in since'[c]
      BY <1>1 DEF OnlyNewcomers
    <3>1. q \in ModuleReleases /\ label'[q] = "own"  BY DEF References
    <3>2. CASE q = r  BY <2>1, <3>1, <3>2
    <3>3. CASE q # r  BY <2>1, <3>1, <3>3 DEF OnlyNewcomers, References
    <3> QED  BY <3>2, <3>3
  <2> QED  BY <1>4, <2>3, <2>4
<1> QED  BY <1>5, <1>6

LEMMA Invariance == Spec => []IInv
<1>1. IInv /\ [Next]_vars => IInv'
  <2> SUFFICES ASSUME IInv, [Next]_vars PROVE IInv'
    OBVIOUS
  <2>1. CASE UNCHANGED vars
    BY <2>1 DEF IInv, TypeOK, Placed, SeesThePresent, OnlyNewcomers, RefusedTruthfully,
       References, InFlight
  <2> QED  BY <2>1, StepInv, WorldInv DEF Next
<1> QED  BY <1>1, InitInv, PTL DEF Spec
------------------------------------------------------------------------------
(* TypeOK: a deletion that is refused was not forced and has received a    *)
(* list of the releases.                                                   *)
THEOREM TypeCorrect == Spec => []TypeOK
<1>1. IInv => TypeOK  BY DEF IInv
<1> QED  BY <1>1, Invariance, PTL

(* RefusedTruthfully: a deletion is refused only if a ModuleRelease of the *)
(* source existed during the call.                                         *)
THEOREM RefusalCorrect == Spec => []RefusedTruthfully
<1>1. IInv => RefusedTruthfully  BY DEF IInv
<1> QED  BY <1>1, Invariance, PTL

(* RaceOnlyWithNewcomers: a deletion that has made its check takes the     *)
(* source only from ModuleReleases that came to it after the list.         *)
THEOREM RaceBounded == Spec => RaceOnlyWithNewcomers
<1>1. IInv /\ [Next]_vars =>
        [\A c \in checked : DeleteTaken(c) => References \subseteq since[c]]_vars
  BY DEF IInv, TypeOK, OnlyNewcomers, DeleteTaken
<1> QED  BY <1>1, Invariance, PTL DEF Spec, RaceOnlyWithNewcomers
------------------------------------------------------------------------------
(* The names of the tools, and the arguments that they have.               *)
ToolNames ==
  {"GetClusterStatus", "ListNodeGroups", "ListModules", "GetDeckhouseLogs",
   "ListModuleSources", "ListModuleUpdatePolicies",
   "GetClusterConfiguration", "GetStaticClusterConfiguration", "ListNodes",
   "ListStaticInstances", "ListUnhealthyPods", "ListModuleConfigs",
   "ListDeckhouseReleases", "ListModuleReleases", "GetNode",
   "GetNodeEvents", "GetStaticInstance", "GetNodeGroup",
   "GetModuleConfig", "GetPodLogs"}

LEMMA Arguments ==
  ASSUME call \in ToolCalls
  PROVE  /\ call.tool \in ToolNames
         /\ call.tool = "ListNodes" => call.status \in {"Ready", "NotReady", None}
         /\ call.tool \in {"GetNode", "GetNodeEvents", "GetStaticInstance"} => call.name \in Nodes
         /\ call.tool = "GetNodeGroup" => call.name \in Groups
         /\ call.tool = "GetModuleConfig" => call.name \in Modules
         /\ call.tool = "GetPodLogs" => call.name \in Pods
BY DEF ToolCalls, ToolNames, Optionally

(* The requests of the tools.                                              *)
LEMMA Scripts ==
  ASSUME call \in ToolCalls
  PROVE  /\ Script \in Seq(Asked) /\ Script # <<>>
         /\ call.tool = "GetDeckhouseLogs" => Script = <<"pods", "log">>
<1>1. call.tool \in ToolNames  BY Arguments
<1>2. \E S : Script \in Seq(S) /\ Script # <<>>
  <2> DEFINE S == {"nodes", "groups", "configs", "releases", "pods", "instances", "modules",
                   "node", "instance", "events", "group", "log", "config", "sources",
                   "policies", "moduleReleases", "secret"}
             tool == call.tool
             scripts == {<<"nodes", "groups", "configs", "releases", "pods">>, <<"nodes">>,
                         <<"groups">>, <<"instances">>, <<"pods">>, <<"configs">>,
                         <<"modules">>, <<"releases">>, <<"node", "instance", "events">>,
                         <<"group", "nodes">>, <<"pods", "log">>, <<"events">>,
                         <<"instance">>, <<"config">>, <<"log">>, <<"sources">>,
                         <<"policies">>, <<"moduleReleases">>, <<"secret">>}
  <2>1. Requests(tool) \in scripts
    <3> HIDE DEF tool
    <3> QED  BY <1>1 DEF ToolNames, Requests, tool
  <2>2. \A a, b, c, d, e \in S : /\ <<a, b, c>> \in Seq(S)
                                /\ <<a, b, c, d, e>> \in Seq(S)
    <3> HIDE DEF S
    <3> QED  OBVIOUS
  <2>3. \A x \in {"nodes", "groups", "configs", "releases", "pods", "instances", "modules",
                  "node", "instance", "events", "group", "log", "config", "sources",
                  "policies", "moduleReleases", "secret"} : x \in S
    OBVIOUS
  <2>4. ASSUME NEW s \in scripts PROVE s \in Seq(S) /\ s # <<>>
    <3> HIDE DEF S
    <3>1. CASE s \in {<<"nodes">>, <<"groups">>, <<"instances">>, <<"pods">>, <<"configs">>,
                     <<"modules">>, <<"releases">>, <<"events">>, <<"instance">>, <<"config">>,
                     <<"log">>, <<"sources">>, <<"policies">>, <<"moduleReleases">>,
                     <<"secret">>}
      <4>1. PICK a \in S : s = <<a>>  BY <2>3, <3>1
      <4> QED  BY <4>1
    <3>2. CASE s \in {<<"group", "nodes">>, <<"pods", "log">>}
      <4>1. PICK a \in S, b \in S : s = <<a, b>>  BY <2>3, <3>2
      <4> QED  BY <4>1
    <3>3. CASE s = <<"node", "instance", "events">>  BY <2>2, <2>3, <3>3
    <3>4. CASE s = <<"nodes", "groups", "configs", "releases", "pods">>
      BY <2>2, <2>3, <3>4
    <3> QED  BY <3>1, <3>2, <3>3, <3>4
  <2> QED  BY <2>1, <2>4 DEF Script
<1>3. PICK S : Script \in Seq(S) /\ Script # <<>>  BY <1>2
<1>4. call.tool = "GetDeckhouseLogs" => Script = <<"pods", "log">>
  BY DEF Script, Requests
<1>5. \A i \in DOMAIN Script : Script[i] \in Asked  BY DEF Asked
<1>6. Script \in Seq(Asked)  BY <1>3, <1>5
<1> QED  BY <1>3, <1>4, <1>6

LEMMA AskedBy ==
  ASSUME call \in ToolCalls, NEW r \in Asked
  PROVE  \/ call.tool = "GetClusterStatus" /\ r \in {"nodes", "groups", "configs", "releases", "pods"}
         \/ call.tool = "ListNodes" /\ r = "nodes"
         \/ call.tool = "ListNodeGroups" /\ r = "groups"
         \/ call.tool = "ListStaticInstances" /\ r = "instances"
         \/ call.tool = "ListUnhealthyPods" /\ r = "pods"
         \/ call.tool = "ListModuleConfigs" /\ r = "configs"
         \/ call.tool = "ListModules" /\ r = "modules"
         \/ call.tool = "ListDeckhouseReleases" /\ r = "releases"
         \/ call.tool = "GetNode" /\ r \in {"node", "instance", "events"}
         \/ call.tool = "GetNodeGroup" /\ r \in {"group", "nodes"}
         \/ call.tool = "GetDeckhouseLogs" /\ r \in {"pods", "log"}
         \/ call.tool = "GetNodeEvents" /\ r = "events"
         \/ call.tool = "GetStaticInstance" /\ r = "instance"
         \/ call.tool = "GetModuleConfig" /\ r = "config"
         \/ call.tool = "GetPodLogs" /\ r = "log"
         \/ call.tool = "ListModuleSources" /\ r = "sources"
         \/ call.tool = "ListModuleUpdatePolicies" /\ r = "policies"
         \/ call.tool = "ListModuleReleases" /\ r = "moduleReleases"
         \/ call.tool \in {"GetClusterConfiguration", "GetStaticClusterConfiguration"} /\ r = "secret"
<1>1. call.tool \in ToolNames  BY Arguments
<1>2. PICK i \in DOMAIN Script : r = Script[i]  BY DEF Asked
<1> DEFINE tool == call.tool
<1>3. i \in DOMAIN Requests(tool) /\ r = Requests(tool)[i] /\ tool \in ToolNames
  BY <1>1, <1>2 DEF Script
<1> HIDE DEF tool
<1>4. CASE tool = "GetClusterStatus"
  <2>1. Requests(tool) = <<"nodes", "groups", "configs", "releases", "pods">>
    BY <1>4 DEF Requests
  <2> QED  BY <1>3, <1>4, <2>1 DEF tool
<1>5. CASE tool = "GetNode"
  <2>1. Requests(tool) = <<"node", "instance", "events">>  BY <1>5 DEF Requests
  <2> QED  BY <1>3, <1>5, <2>1 DEF tool
<1>6. CASE tool = "GetNodeGroup"
  <2>1. Requests(tool) = <<"group", "nodes">>  BY <1>6 DEF Requests
  <2> QED  BY <1>3, <1>6, <2>1 DEF tool
<1>7. CASE tool = "GetDeckhouseLogs"
  <2>1. Requests(tool) = <<"pods", "log">>  BY <1>7 DEF Requests
  <2> QED  BY <1>3, <1>7, <2>1 DEF tool
<1>8. CASE tool \notin {"GetClusterStatus", "GetNode", "GetNodeGroup", "GetDeckhouseLogs"}
  <2>1. /\ Requests("ListNodes") = <<"nodes">>
        /\ Requests("ListNodeGroups") = <<"groups">>
        /\ Requests("ListStaticInstances") = <<"instances">>
        /\ Requests("ListUnhealthyPods") = <<"pods">>
        /\ Requests("ListModuleConfigs") = <<"configs">>
        /\ Requests("ListModules") = <<"modules">>
        /\ Requests("ListDeckhouseReleases") = <<"releases">>
        /\ Requests("GetNodeEvents") = <<"events">>
    BY DEF Requests
  <2>2. /\ Requests("GetStaticInstance") = <<"instance">>
        /\ Requests("GetModuleConfig") = <<"config">>
        /\ Requests("GetPodLogs") = <<"log">>
        /\ Requests("ListModuleSources") = <<"sources">>
        /\ Requests("ListModuleUpdatePolicies") = <<"policies">>
        /\ Requests("ListModuleReleases") = <<"moduleReleases">>
        /\ Requests("GetClusterConfiguration") = <<"secret">>
        /\ Requests("GetStaticClusterConfiguration") = <<"secret">>
    BY DEF Requests
  <2>3. \A x : <<x>>[1] = x /\ DOMAIN <<x>> = {1}  OBVIOUS
  <2>4. \A x : Requests(tool) = <<x>> => r = x  BY <1>3, <2>3
  <2>5. tool \in ToolNames \ {"GetClusterStatus", "GetNode", "GetNodeGroup", "GetDeckhouseLogs"}
    BY <1>3, <1>8
  <2> QED  BY <2>1, <2>2, <2>4, <2>5 DEF ToolNames, tool
<1> QED  BY <1>4, <1>5, <1>6, <1>7, <1>8

(* As long as the call goes on, there is another request to make; an       *)
(* answer has a part for each request.                                     *)
Scripted ==
  /\ call \in ToolCalls
  /\ \E S : history \in Seq(S) /\ history # <<>>
  /\ \E S : answer \in Seq(S)
  /\ outcome \in {"running", "ok", "error"}
  /\ outcome = "running" => Len(answer) < Len(Script)
  /\ outcome = "ok" => Len(answer) = Len(Script)

(* A part that is there says what held at a moment, or is one that GetNode *)
(* may do without.                                                         *)
Told(i, j) ==
  \/ Right(Script[i], answer[i], history[j])
  \/ call.tool = "GetNode" /\ i > 1 /\ Script[i] \in lost /\ answer[i] = {}

(* The parts so far could be given by one look for each, in this order. *)
Explained ==
  \E at \in [1 .. Len(answer) -> Moments] :
    /\ \A i, j \in 1 .. Len(answer) : i <= j => at[i] <= at[j]
    /\ \A i \in 1 .. Len(answer) : Told(i, at[i])

ReadInv == Scripted /\ Explained /\ ErrorsJustified

(* A sequence with something appended.                                     *)
LEMMA Appended ==
  ASSUME NEW S, NEW s \in Seq(S), NEW e
  PROVE  /\ \E T : Append(s, e) \in Seq(T)
         /\ Append(s, e) # <<>>
         /\ Len(s) \in Nat /\ Len(Append(s, e)) = Len(s) + 1
         /\ \A i \in 1 .. Len(s) : Append(s, e)[i] = s[i]
         /\ Append(s, e)[Len(s) + 1] = e
<1>1. s \in Seq(S \cup {e})  OBVIOUS
<1>2. Append(s, e) \in Seq(S \cup {e})  BY <1>1, AppendProperties
<1> QED  BY <1>1, <1>2, AppendProperties, LenProperties

(* What was right of a cluster stays so.                                   *)
LEMMA SameRight ==
  ASSUME call' = call, picked' = picked
  PROVE  \A r, part, c : Right(r, part, c)' <=> Right(r, part, c)
<1>1. \A k, n, c : Wanted(k, n, c)' <=> Wanted(k, n, c)  BY DEF Wanted
<1>2. \A said, k, n, c : Describes(said, k, n, c)' <=> Describes(said, k, n, c)
  BY DEF Describes
<1>3. \A k, n, c : Ambiguous(k, n, c)' <=> Ambiguous(k, n, c)  BY DEF Ambiguous
<1>4. \A part, k, c : Lists(part, k, c)' <=> Lists(part, k, c)
  BY <1>1, <1>2, <1>3 DEF Lists
<1>5. KeyWanted' = KeyWanted /\ \A c : KeyHeld(c)' <=> KeyHeld(c)  BY DEF KeyWanted, KeyHeld
<1> QED  BY <1>4, <1>5 DEF Right

LEMMA SameServable ==
  ASSUME call' = call
  PROVE  /\ \A r, c : Servable(r, c)' <=> Servable(r, c)
         /\ \A p, c : Started(p, c)' <=> Started(p, c)
<1>1. \A c : KeyHeld(c)' <=> KeyHeld(c)  BY DEF KeyHeld, KeyWanted
<1>2. \A p, c : Started(p, c)' <=> Started(p, c)  BY DEF Started
<1> QED  BY <1>1, <1>2 DEF Servable

LEMMA ChangeKeeps ==
  ASSUME ReadInv, Change
  PROVE  ReadInv'
<1>1. callVars' = callVars /\ outcome = "running"  BY DEF Change
<1>2. PICK c : history' = Append(history, c)  BY DEF Change
<1>3. PICK S : history \in Seq(S)  BY DEF ReadInv, Scripted
<1>4. /\ \E T : history' \in Seq(T)
      /\ history' # <<>>
      /\ Moments = 1 .. Len(history) /\ Moments' = 1 .. Len(history) + 1 /\ Len(history) \in Nat
      /\ \A j \in Moments : history'[j] = history[j]
  <2>1. /\ \E T : Append(history, c) \in Seq(T)
        /\ Append(history, c) # <<>>
        /\ Len(history) \in Nat /\ Len(Append(history, c)) = Len(history) + 1
        /\ \A j \in 1 .. Len(history) : Append(history, c)[j] = history[j]
    <3> DEFINE s == history
    <3>1. s \in Seq(S)  BY <1>3
    <3> HIDE DEF s
    <3>2. /\ \E T : Append(s, c) \in Seq(T)
          /\ Append(s, c) # <<>>
          /\ Len(s) \in Nat /\ Len(Append(s, c)) = Len(s) + 1
          /\ \A j \in 1 .. Len(s) : Append(s, c)[j] = s[j]
      <4>1. s \in Seq(S \cup {c})  BY <3>1
      <4>2. Append(s, c) \in Seq(S \cup {c})  BY <4>1, AppendProperties
      <4>3. Len(s) \in Nat /\ Len(Append(s, c)) = Len(s) + 1  BY <4>1, AppendProperties, LenProperties
      <4>4. \A j \in 1 .. Len(s) : Append(s, c)[j] = s[j]  BY <4>1, AppendProperties
      <4> QED  BY <4>1, <4>2, <4>3, <4>4, AppendProperties
    <3> QED  BY <3>2 DEF s
  <2>2. Moments = 1 .. Len(history) /\ Moments' = 1 .. Len(history')  BY DEF Moments
  <2>3. Len(history') = Len(history) + 1  BY <1>2, <2>1, Zenon
  <2>4. \A j \in 1 .. Len(history) : history'[j] = history[j]  BY <1>2, <2>1, Zenon
  <2>5. (\E T : history' \in Seq(T)) /\ history' # <<>>  BY <1>2, <2>1, Zenon
  <2> QED  BY <2>1, <2>2, <2>3, <2>4, <2>5, Zenon
<1>5. Script' = Script  BY <1>1 DEF callVars, Script
<1>6. Scripted'  BY <1>1, <1>4, <1>5 DEF callVars, ReadInv, Scripted
<1>7. Explained'
  <2>1. PICK at \in [1 .. Len(answer) -> Moments] :
          /\ \A i, j \in 1 .. Len(answer) : i <= j => at[i] <= at[j]
          /\ \A i \in 1 .. Len(answer) : Told(i, at[i])
    BY DEF ReadInv, Explained
  <2>2. ASSUME NEW i \in 1 .. Len(answer), Told(i, at[i]) PROVE Told(i, at[i])'
    <3>1. at[i] \in Moments  BY <2>1
    <3>2. history'[at[i]] = history[at[i]]  BY <3>1, <1>4
    <3>3. Right(Script[i], answer[i], history[at[i]])' <=> Right(Script[i], answer[i], history[at[i]])
      BY <1>1, <1>5, <3>2, SameRight DEF callVars
    <3> QED  BY <1>1, <1>5, <2>2, <3>3 DEF Told, callVars
  <2>3. at \in [1 .. Len(answer) -> Moments]' BY <1>1, <1>4, <2>1 DEF callVars
  <2> QED  BY <1>1, <2>1, <2>2, <2>3 DEF callVars, Explained
<1> QED  BY <1>1, <1>6, <1>7 DEF callVars, ReadInv, ErrorsJustified

(* A part made of one fact for each member of M, which are the objects     *)
(* that are asked for.                                                     *)
LEMMA Listed ==
  ASSUME NEW k, NEW tag, NEW M, NEW said, NEW part,
         part = {<<tag, n, said[n]>> : n \in M},
         M \subseteq Names(k),
         \A n \in M : Wanted(k, n, cluster) /\ Describes(said[n], k, n, cluster),
         \A n \in Names(k) : Wanted(k, n, cluster) => n \in M \/ Ambiguous(k, n, cluster)
  PROVE  Lists(part, k, cluster)
<1>1. ASSUME NEW f \in part
      PROVE  /\ f[2] \in Names(k) /\ Wanted(k, f[2], cluster)
             /\ Describes(f[3], k, f[2], cluster)
  <2>1. PICK n \in M : f = <<tag, n, said[n]>>  OBVIOUS
  <2>2. f[2] = n /\ f[3] = said[n]  BY <2>1
  <2> QED  BY <2>2
<1>2. ASSUME NEW f \in part, NEW g \in part, f[2] = g[2] PROVE f = g
  <2>1. PICK m \in M : f = <<tag, m, said[m]>>  OBVIOUS
  <2>2. PICK n \in M : g = <<tag, n, said[n]>>  OBVIOUS
  <2> QED  BY <1>2, <2>1, <2>2
<1>3. ASSUME NEW n \in M PROVE \E f \in part : f[2] = n
  <2>1. <<tag, n, said[n]>> \in part /\ <<tag, n, said[n]>>[2] = n  OBVIOUS
  <2> QED  BY <2>1
<1> QED  BY <1>1, <1>2, <1>3 DEF Lists

(* The parts that list Nodes, or are about one.                            *)
LEMMA NodePartsRight ==
  ASSUME call \in ToolCalls, NEW r \in Asked, NEW part \in Parts(r), r \in {"nodes", "node"}
  PROVE  Right(r, part, cluster)
<1>1. About[r] = "node" /\ Names("node") = Nodes  BY DEF About, Names
<1>2. CASE call.tool = "GetClusterStatus"
  <2>1. r = "nodes" /\ part = {NodeSummary}  BY <1>2, AskedBy DEF Parts, NodeParts
  <2> DEFINE ready == {n \in Present("node") : isNodeReady(n)}
  <2>2. /\ NodeSummary[2] = Cardinality(Present("node"))
        /\ NodeSummary[3] = Cardinality(ready)
        /\ NodeSummary[4] = Cardinality(Present("node") \ ready)
    BY DEF NodeSummary
  <2>3. Present("node") = {n \in Nodes : cluster.node[n] # None}
    BY <1>1 DEF Present
  <2>4. /\ ready = {n \in Present("node") : cluster.node[n].ready = "True"}
        /\ Present("node") \ ready = {n \in Present("node") : cluster.node[n].ready # "True"}
    BY DEF isNodeReady
  <2>5. CountsNodes(part, cluster)
    <3> HIDE DEF ready
    <3> QED  BY <2>1, <2>2, <2>3, <2>4 DEF CountsNodes
  <2> QED  BY <1>2, <2>1, <2>5 DEF Right
<1>3. CASE call.tool = "ListNodes"
  <2>1. r = "nodes" /\ part \in ListNodes  BY <1>3, AskedBy DEF Parts, NodeParts
  <2>2. PICK f \in RolePicks :
          part = {nodeToInfo(n, f[n]) : n \in {m \in Present("node") : matchesNodeFilter(m, f[m])}}
    BY <2>1 DEF ListNodes
  <2> DEFINE M == {m \in Present("node") : matchesNodeFilter(m, f[m])}
             said == [n \in M |-> [status |-> Status(n), group |-> cluster.node[n].group, role |-> f[n]]]
  <2>3. part = {<<"node", n, said[n]>> : n \in M}  BY <2>2 DEF nodeToInfo
  <2>4. \A n \in Present("node") : f[n] \in RolesOf(n)  BY DEF RolePicks
  <2>5. M \subseteq Names("node")  BY DEF Present
  <2>6. ASSUME NEW n \in M
        PROVE  Wanted("node", n, cluster) /\ Describes(said[n], "node", n, cluster)
    <3>1. f[n] \in RolesOf(n) /\ cluster.node[n] # None  BY <2>4 DEF Present
    <3>2. Wanted("node", n, cluster)
      BY <1>3, <3>1
      DEF Wanted, Filtered, matchesNodeFilter, Matches, Status, isNodeReady, RolesOf
    <3>3. Describes(said[n], "node", n, cluster)
      BY <1>3, <3>1 DEF Describes, RolesOf, Status, isNodeReady
    <3> QED  BY <3>2, <3>3
  <2>7. ASSUME NEW n \in Names("node"), Wanted("node", n, cluster)
        PROVE  n \in M \/ Ambiguous("node", n, cluster)
    <3> SUFFICES ASSUME ~Ambiguous("node", n, cluster) PROVE n \in M
      OBVIOUS
    <3>1. n \in Present("node")  BY <2>7 DEF Wanted, Present
    <3>2. f[n] \in RolesOf(n)  BY <2>4, <3>1
    <3>3. Matches(call.group, cluster.node[n].group)
      BY <1>3, <2>7 DEF Wanted, Filtered, Matches
    <3>4. Matches(call.status, Status(n))
      BY <1>3, <2>7, Arguments DEF Wanted, Matches, Status, isNodeReady
    <3>5. Matches(call.role, f[n])
      BY <1>3, <3>2 DEF Ambiguous, Matches, RolesOf
    <3> QED  BY <3>1, <3>3, <3>4, <3>5 DEF matchesNodeFilter
  <2>8. Lists(part, "node", cluster)
    <3> HIDE DEF M, said
    <3> QED  BY <2>3, <2>5, <2>6, <2>7, Listed
  <2> QED  BY <1>1, <1>3, <2>1, <2>8 DEF Right
<1>4. CASE call.tool = "GetNodeGroup"
  <2>1. r = "nodes" /\ part = NodeNames  BY <1>4, AskedBy DEF Parts, NodeParts
  <2> DEFINE M == {m \in Present("node") : cluster.node[m].group = call.name}
             said == [n \in M |-> None]
  <2>2. part = {<<"member", n, said[n]>> : n \in M}  BY <2>1 DEF NodeNames
  <2>3. M \subseteq Names("node")  BY DEF Present
  <2>4. \A n \in M : Wanted("node", n, cluster) /\ Describes(said[n], "node", n, cluster)
    BY <1>4 DEF Present, Wanted, Describes
  <2>5. \A n \in Names("node") : Wanted("node", n, cluster) => n \in M
    BY <1>4 DEF Present, Wanted
  <2>6. Lists(part, "node", cluster)
    <3> HIDE DEF M, said
    <3> QED  BY <2>2, <2>3, <2>4, <2>5, Listed
  <2> QED  BY <1>1, <1>4, <2>1, <2>6 DEF Right
<1>5. CASE call.tool = "GetNode"
  <2>1. r = "node" /\ call.name \in Nodes  BY <1>5, AskedBy, Arguments
  <2>2. cluster.node[call.name] # None /\ \E role \in RolesOf(call.name) : part = {nodeToInfo(call.name, role)}
    BY <2>1 DEF Parts, NodePart
  <2>3. PICK role \in RolesOf(call.name) : part = {nodeToInfo(call.name, role)}  BY <2>2
  <2> DEFINE M == {call.name}
             said == [n \in M |-> [status |-> Status(n), group |-> cluster.node[n].group, role |-> role]]
  <2>4. M \subseteq Names("node") /\ part = {<<"node", n, said[n]>> : n \in M}  BY <1>1, <2>1, <2>3 DEF nodeToInfo
  <2>5. \A n \in M : Wanted("node", n, cluster) /\ Describes(said[n], "node", n, cluster)
    BY <1>5, <2>2 DEF Wanted, Describes, RolesOf, Status, isNodeReady
  <2>6. \A n \in Names("node") : Wanted("node", n, cluster) => n \in M
    BY <1>5 DEF Wanted
  <2>7. Lists(part, "node", cluster)
    <3> HIDE DEF M, said
    <3> QED  BY <2>4, <2>5, <2>6, Listed
  <2> QED  BY <1>1, <1>5, <2>1, <2>3, <2>7 DEF Right
<1> QED  BY <1>2, <1>3, <1>4, <1>5, AskedBy

(* The lists of everything of one kind, but for Nodes.                     *)
LEMMA EveryRight ==
  ASSUME NEW k, NEW part \in Every(k), k \in {"group", "module", "source", "policy"},
         call.tool \in {"GetClusterStatus", "ListNodeGroups", "ListModules",
                        "ListModuleSources", "ListModuleUpdatePolicies"}
  PROVE  Lists(part, k, cluster)
<1> DEFINE said == [n \in Present(k) |-> cluster[k][n]]
<1>1. part = {<<k, n, said[n]>> : n \in Present(k)}  BY DEF Every
<1>2. Present(k) \subseteq Names(k)  BY DEF Present
<1>3. \A n \in Present(k) : Wanted(k, n, cluster) /\ Describes(said[n], k, n, cluster)
  BY DEF Present, Wanted, Describes
<1>4. \A n \in Names(k) : Wanted(k, n, cluster) => n \in Present(k)
  BY DEF Present, Wanted
<1> HIDE DEF said
<1> QED  BY <1>1, <1>2, <1>3, <1>4, Listed

(* The parts about one object that is asked for by its name.               *)
LEMMA SingleRight ==
  ASSUME call \in ToolCalls, NEW k, NEW part \in Single(k),
         \/ k = "group" /\ call.tool = "GetNodeGroup"
         \/ k = "config" /\ call.tool = "GetModuleConfig"
         \/ k = "instance" /\ call.tool = "GetStaticInstance"
  PROVE  Lists(part, k, cluster) /\ part # {}
<1> DEFINE M == {call.name}
           said == [n \in M |-> cluster[k][n]]
<1>1. cluster[k][call.name] # None /\ part = {<<k, call.name, cluster[k][call.name]>>}
  BY DEF Single
<1>2. part = {<<k, n, said[n]>> : n \in M}  BY <1>1
<1>3. M \subseteq Names(k)  BY Arguments DEF Names
<1>4. \A n \in M : Wanted(k, n, cluster) /\ Describes(said[n], k, n, cluster)
  BY <1>1 DEF Wanted, Describes
<1>5. \A n \in Names(k) : Wanted(k, n, cluster) => n \in M  BY DEF Wanted
<1>6. part # {}  BY <1>1
<1> HIDE DEF M, said
<1> QED  BY <1>2, <1>3, <1>4, <1>5, <1>6, Listed

(* The parts about StaticInstances and events.                             *)
LEMMA InstancePartsRight ==
  ASSUME call \in ToolCalls, NEW r \in Asked, NEW part \in Parts(r),
         r \in {"instances", "instance", "events"}
  PROVE  Right(r, part, cluster)
<1>1. CASE r = "instances"
  <2>1. call.tool = "ListStaticInstances" /\ part = ListStaticInstances
    BY <1>1, AskedBy DEF Parts
  <2> DEFINE M == {m \in Present("instance") : /\ Matches(call.group, cluster.instance[m].group)
                                               /\ Matches(call.phase, cluster.instance[m].phase)}
             said == [n \in M |-> cluster.instance[n].phase]
  <2>2. part = {<<"instance", n, said[n]>> : n \in M}  BY <2>1 DEF ListStaticInstances
  <2>3. M \subseteq Names("instance")  BY DEF Present
  <2>4. \A n \in M : Wanted("instance", n, cluster) /\ Describes(said[n], "instance", n, cluster)
    BY <2>1 DEF Present, Wanted, Filtered, Matches, Describes
  <2>5. \A n \in Names("instance") : Wanted("instance", n, cluster) => n \in M
    BY <2>1 DEF Present, Wanted, Filtered, Matches
  <2>6. Lists(part, "instance", cluster)
    <3> HIDE DEF M, said
    <3> QED  BY <2>2, <2>3, <2>4, <2>5, Listed
  <2> QED  BY <1>1, <2>1, <2>6 DEF Right, About
<1>2. CASE r = "instance" /\ call.tool = "GetStaticInstance"
  <2>1. part \in Single("instance")  BY <1>2 DEF Parts, InstancePart
  <2> QED  BY <1>2, <2>1, SingleRight DEF Right, About
<1>3. CASE r = "instance" /\ call.tool = "GetNode"
  <2> DEFINE M == {n \in {call.name} : cluster.instance[n].phase # ""}
             said == [n \in M |-> cluster.instance[n].phase]
  <2>1. part \in siPhase  BY <1>3 DEF Parts, InstancePart
  <2>2. cluster.instance[call.name] # None  BY <2>1 DEF siPhase
  <2>3. part = {<<"instance", n, said[n]>> : n \in M}  BY <2>1 DEF siPhase
  <2>4. M \subseteq Names("instance")  BY <1>3, Arguments DEF Names
  <2>5. \A n \in M : Wanted("instance", n, cluster) /\ Describes(said[n], "instance", n, cluster)
    BY <1>3, <2>2 DEF Wanted, Describes
  <2>6. \A n \in Names("instance") : Wanted("instance", n, cluster) => n \in M
    BY <1>3 DEF Wanted
  <2>7. Lists(part, "instance", cluster)
    <3> HIDE DEF M, said
    <3> QED  BY <2>3, <2>4, <2>5, <2>6, Listed
  <2> QED  BY <1>3, <2>7 DEF Right, About
<1>4. CASE r = "events"
  <2>1. call.tool \in {"GetNode", "GetNodeEvents"} /\ part \in EventParts
    BY <1>4, AskedBy DEF Parts
  <2> DEFINE M == {n \in {call.name} : cluster.events[n] # None}
             said == [n \in M |-> cluster.events[n]]
  <2>2. part = {<<"events", n, said[n]>> : n \in M}  BY <2>1 DEF EventParts
  <2>3. M \subseteq Names("events")  BY <2>1, Arguments DEF Names
  <2>4. \A n \in M : Wanted("events", n, cluster) /\ Describes(said[n], "events", n, cluster)
    BY <2>1 DEF Wanted, Describes
  <2>5. \A n \in Names("events") : Wanted("events", n, cluster) => n \in M
    BY <2>1 DEF Wanted
  <2>6. Lists(part, "events", cluster)
    <3> HIDE DEF M, said
    <3> QED  BY <2>2, <2>3, <2>4, <2>5, Listed
  <2> QED  BY <1>4, <2>1, <2>6 DEF Right, About
<1> QED  BY <1>1, <1>2, <1>3, <1>4, AskedBy

(* The parts about ModuleConfigs and ModuleReleases. *)
LEMMA ModulePartsRight ==
  ASSUME call \in ToolCalls, NEW r \in Asked, NEW part \in Parts(r),
         r \in {"configs", "moduleReleases"}
  PROVE  Right(r, part, cluster)
<1>1. CASE r = "configs" /\ call.tool = "GetClusterStatus"
  <2>1. part = ErroredModules  BY <1>1 DEF Parts, ConfigParts
  <2> DEFINE M == {m \in Present("config") : cluster.config[m].message # ""}
             said == [n \in M |-> None]
  <2>2. part = {<<"errored", n, said[n]>> : n \in M}  BY <2>1 DEF ErroredModules
  <2>3. M \subseteq Names("config")  BY DEF Present
  <2>4. \A n \in M : Wanted("config", n, cluster) /\ Describes(said[n], "config", n, cluster)
    BY <1>1 DEF Present, Wanted, Describes
  <2>5. \A n \in Names("config") : Wanted("config", n, cluster) => n \in M
    BY <1>1 DEF Present, Wanted
  <2>6. Lists(part, "config", cluster)
    <3> HIDE DEF M, said
    <3> QED  BY <2>2, <2>3, <2>4, <2>5, Listed
  <2> QED  BY <1>1, <2>6 DEF Right, About
<1>2. CASE r = "configs" /\ call.tool = "ListModuleConfigs"
  <2>1. part = ListModuleConfigs  BY <1>2 DEF Parts, ConfigParts
  <2> DEFINE M == {c \in Present("config") : Matches(call.enabled, cluster.config[c].enabled)}
             said == [n \in M |-> cluster.config[n]]
  <2>2. part = {<<"config", n, said[n]>> : n \in M}  BY <2>1 DEF ListModuleConfigs
  <2>3. M \subseteq Names("config")  BY DEF Present
  <2>4. \A n \in M : Wanted("config", n, cluster) /\ Describes(said[n], "config", n, cluster)
    BY <1>2 DEF Present, Wanted, Filtered, Matches, Describes
  <2>5. \A n \in Names("config") : Wanted("config", n, cluster) => n \in M
    BY <1>2 DEF Present, Wanted, Filtered, Matches
  <2>6. Lists(part, "config", cluster)
    <3> HIDE DEF M, said
    <3> QED  BY <2>2, <2>3, <2>4, <2>5, Listed
  <2> QED  BY <1>2, <2>6 DEF Right, About
<1>3. CASE r = "moduleReleases"
  <2>1. call.tool = "ListModuleReleases" /\ part \in ListModuleReleases
    BY <1>3, AskedBy DEF Parts
  <2> DEFINE M == {q \in Present("moduleRelease") :
                     /\ cluster.moduleRelease[q].module = call.module
                     /\ Matches(call.phase, cluster.moduleRelease[q].phase)}
             said == [n \in M |-> cluster.moduleRelease[n]]
  <2>2. part = {<<"moduleRelease", n, said[n]>> : n \in M}  BY <2>1 DEF ListModuleReleases
  <2>3. M \subseteq Names("moduleRelease")  BY DEF Present
  <2>4. \A n \in M : /\ Wanted("moduleRelease", n, cluster)
                     /\ Describes(said[n], "moduleRelease", n, cluster)
    BY <2>1 DEF Present, Wanted, Filtered, Matches, Describes
  <2>5. \A n \in Names("moduleRelease") : Wanted("moduleRelease", n, cluster) => n \in M
    BY <2>1 DEF Present, Wanted, Filtered, Matches
  <2>6. Lists(part, "moduleRelease", cluster)
    <3> HIDE DEF M, said
    <3> QED  BY <2>2, <2>3, <2>4, <2>5, Listed
  <2> QED  BY <1>3, <2>1, <2>6 DEF Right, About
<1> QED  BY <1>1, <1>2, <1>3, AskedBy

(* The parts about DeckhouseReleases. *)
LEMMA ReleasePartsRight ==
  ASSUME call \in ToolCalls, NEW part \in Parts("releases"), "releases" \in Asked
  PROVE  Right("releases", part, cluster)
<1>1. CASE call.tool = "GetClusterStatus"
  <2>1. PICK v \in IF InPhase("Deployed") = {} THEN {None} ELSE InPhase("Deployed") :
          part = {<<"pending", x>> : x \in InPhase("Pending")} \cup {<<"version", v>>}
    BY <1>1 DEF Parts, ReleaseParts, ReleaseInfo
  <2>2. \A x \in Releases : /\ cluster.release[x] = "Pending" <=> x \in InPhase("Pending")
                            /\ cluster.release[x] = "Deployed" <=> x \in InPhase("Deployed")
    BY NoneAssumption DEF InPhase, Present, Names
  <2>3. InPhase("Deployed") \subseteq Releases  BY DEF InPhase, Present, Names
  <2>4. \A x \in Releases : cluster.release[x] = "Pending" <=> <<"pending", x>> \in part
    BY <2>1, <2>2
  <2>5. {f \in part : f[1] = "version"} = {<<"version", v>>}  BY <2>1
  <2>6. /\ v \in Releases \cup {None}
        /\ IF v = None THEN \A x \in Releases : cluster.release[x] # "Deployed"
           ELSE cluster.release[v] = "Deployed"
    BY <2>1, <2>2, <2>3, NoneAssumption
  <2> QED  BY <1>1, <2>4, <2>5, <2>6 DEF Right, TellsReleases
<1>2. CASE call.tool = "ListDeckhouseReleases"
  <2>1. part = ListDeckhouseReleases  BY <1>2 DEF Parts, ReleaseParts
  <2> DEFINE M == {q \in Present("release") : Matches(call.phase, cluster.release[q])}
             said == [n \in M |-> cluster.release[n]]
  <2>2. part = {<<"release", n, said[n]>> : n \in M}  BY <2>1 DEF ListDeckhouseReleases
  <2>3. M \subseteq Names("release")  BY DEF Present
  <2>4. \A n \in M : Wanted("release", n, cluster) /\ Describes(said[n], "release", n, cluster)
    BY <1>2 DEF Present, Wanted, Filtered, Matches, Describes
  <2>5. \A n \in Names("release") : Wanted("release", n, cluster) => n \in M
    BY <1>2 DEF Present, Wanted, Filtered, Matches
  <2>6. Lists(part, "release", cluster)
    <3> HIDE DEF M, said
    <3> QED  BY <2>2, <2>3, <2>4, <2>5, Listed
  <2> QED  BY <1>2, <2>6 DEF Right, About
<1> QED  BY <1>1, <1>2, AskedBy

(* The parts about pods, but for the choice of GetDeckhouseLogs. *)
LEMMA PodPartsRight ==
  ASSUME call \in ToolCalls, NEW part \in Parts("pods"), "pods" \in Asked,
         call.tool # "GetDeckhouseLogs"
  PROVE  Right("pods", part, cluster)
<1>1. CASE call.tool = "GetClusterStatus"
  <2>1. part = {UnhealthyPodsCount}  BY <1>1 DEF Parts, PodParts
  <2>2. Unhealthy(System) = {p \in System : cluster.pod[p] \notin {None, "Running", "Succeeded"}}
    BY PodAssumption DEF Unhealthy, Present, Names, isPodHealthy
  <2>3. UnhealthyPodsCount[2] = Cardinality(Unhealthy(System))  BY DEF UnhealthyPodsCount
  <2>4. part # {} /\ CountsPods(part, cluster)  BY <2>1, <2>2, <2>3 DEF CountsPods
  <2> QED  BY <1>1, <2>4 DEF Right
<1>2. CASE call.tool = "ListUnhealthyPods"
  <2>1. part = ListUnhealthyPods  BY <1>2 DEF Parts, PodParts
  <2> DEFINE M == Unhealthy(IF call.namespace = None THEN Pods ELSE System)
             said == [n \in M |-> cluster.pod[n]]
  <2>2. part = {<<"pod", n, said[n]>> : n \in M}  BY <2>1 DEF ListUnhealthyPods
  <2>3. M \subseteq Names("pod")  BY DEF Unhealthy, Present
  <2>4. \A n \in M : Wanted("pod", n, cluster) /\ Describes(said[n], "pod", n, cluster)
    BY <1>2 DEF Unhealthy, isPodHealthy, Present, Wanted, Describes
  <2>5. \A n \in Names("pod") : Wanted("pod", n, cluster) => n \in M
    BY <1>2 DEF Unhealthy, isPodHealthy, Present, Names, Wanted
  <2>6. Lists(part, "pod", cluster)
    <3> HIDE DEF M, said
    <3> QED  BY <2>2, <2>3, <2>4, <2>5, Listed
  <2> QED  BY <1>2, <2>6 DEF Right, About
<1> QED  BY <1>1, <1>2, AskedBy

(* What a request contributes to the answer is right of the cluster that   *)
(* it sees.                                                                *)
LEMMA PartRight ==
  ASSUME call \in ToolCalls, NEW r \in Asked, NEW part \in Parts(r),
         ~ (call.tool = "GetDeckhouseLogs" /\ r = "pods")
  PROVE  Right(r, part, cluster)
<1>1. CASE r \in {"nodes", "node"}  BY <1>1, NodePartsRight
<1>2. CASE r \in {"instances", "instance", "events"}  BY <1>2, InstancePartsRight
<1>3. CASE r \in {"configs", "moduleReleases"}  BY <1>3, ModulePartsRight
<1>4. CASE r = "releases"  BY <1>4, ReleasePartsRight
<1>5. CASE r = "pods"  BY <1>5, PodPartsRight
<1>6. CASE r \in {"groups", "modules", "sources", "policies"}
  <2>1. /\ part \in Every(About[r])
        /\ About[r] \in {"group", "module", "source", "policy"}
    BY <1>6 DEF Parts, About, ListNodeGroups, ListModules, ListModuleSources,
                ListModuleUpdatePolicies
  <2>2. call.tool \in {"GetClusterStatus", "ListNodeGroups", "ListModules",
                       "ListModuleSources", "ListModuleUpdatePolicies"}
    BY <1>6, AskedBy
  <2>3. Lists(part, About[r], cluster)  BY <2>1, <2>2, EveryRight
  <2> QED  BY <1>6, <2>2, <2>3 DEF Right
<1>7. CASE r = "group"
  <2>1. call.tool = "GetNodeGroup" /\ part \in Single("group")  BY <1>7, AskedBy DEF Parts
  <2> QED  BY <1>7, <2>1, SingleRight DEF Right, About
<1>8. CASE r = "config"
  <2>1. call.tool = "GetModuleConfig" /\ part \in Single("config")  BY <1>8, AskedBy DEF Parts
  <2> QED  BY <1>8, <2>1, SingleRight DEF Right, About
<1>9. CASE r = "secret"
  <2>1. call.tool \in {"GetClusterConfiguration", "GetStaticClusterConfiguration"}
    BY <1>9, AskedBy
  <2>2. KeyHeld(cluster) /\ part = {<<"configuration", KeyWanted>>}
    BY <1>9, <2>1 DEF Parts, SecretParts, KeyHeld, KeyWanted
  <2> QED  BY <1>9, <2>1, <2>2 DEF Right
<1>10. CASE r = "log"
  <2>1. call.tool \in {"GetPodLogs", "GetDeckhouseLogs"}  BY <1>10, AskedBy
  <2>2. \A p : part \in LogOf(p) => part = {<<"log", p>>} /\ Started(p, cluster)
    BY DEF LogOf, Started
  <2>3. CASE call.tool = "GetPodLogs"
    <3>1. part \in LogOf(call.name)  BY <1>10, <2>3 DEF Parts, GetPodLogs
    <3>2. part = {<<"log", call.name>>} /\ Started(call.name, cluster)  BY <2>2, <3>1
    <3> QED  BY <1>10, <2>3, <3>2 DEF Right
  <2>4. CASE call.tool = "GetDeckhouseLogs"
    <3>1. part \in LogOf(picked)  BY <1>10, <2>4 DEF Parts, GetDeckhouseLogs
    <3>2. part = {<<"log", picked>>} /\ Started(picked, cluster)  BY <2>2, <3>1
    <3> QED  BY <1>10, <2>4, <3>2 DEF Right
  <2> QED  BY <2>1, <2>3, <2>4
<1> QED
  BY <1>1, <1>2, <1>3, <1>4, <1>5, <1>6, <1>7, <1>8, <1>9, <1>10, AskedBy

(* ReadInv holds at first, and every step preserves it.                   *)
LEMMA InitReads == ReadInit => ReadInv
<1> SUFFICES ASSUME ReadInit PROVE ReadInv
  OBVIOUS
<1>1. call \in ToolCalls /\ history = <<Start>> /\ answer = <<>> /\ outcome = "running"
  BY DEF ReadInit
<1>2. Len(Script) > 0
  <2>1. Script \in Seq(Asked) /\ Script # <<>>  BY <1>1, Scripts
  <2> QED  BY <2>1, EmptySeq, LenProperties
<1>3. (\E S : history \in Seq(S)) /\ history # <<>>
  <2>1. history \in Seq({Start})  BY <1>1
  <2> QED  BY <1>1, <2>1
<1>4. Len(answer) = 0 /\ \E S : answer \in Seq(S)  BY <1>1
<1>5. Scripted  BY <1>1, <1>2, <1>3, <1>4 DEF Scripted
<1>6. Explained
  <2>1. 1 .. Len(answer) = {}  BY <1>4
  <2>2. [i \in 1 .. Len(answer) |-> 1] \in [1 .. Len(answer) -> Moments]  BY <2>1
  <2> QED  BY <2>1, <2>2 DEF Explained
<1> QED  BY <1>1, <1>5, <1>6 DEF ReadInv, ErrorsJustified

(* The next request is one of the tool's.                                  *)
LEMMA NextIsAsked ==
  ASSUME Scripted, outcome = "running"
  PROVE  /\ Len(answer) \in Nat /\ Len(answer) + 1 \in DOMAIN Script
         /\ NextRequest \in Asked
         /\ Len(history) \in Moments /\ Moments = 1 .. Len(history) /\ Len(history) \in Nat
         /\ call.tool = "GetDeckhouseLogs" /\ NextRequest = "pods" => Len(answer) = 0
         /\ call.tool = "GetDeckhouseLogs" /\ NextRequest = "log" => Len(answer) = 1
<1>1. Script \in Seq(Asked)  BY Scripts DEF Scripted
<1>2. Len(answer) \in Nat /\ Len(answer) < Len(Script)  BY DEF Scripted
<1>3. Len(answer) + 1 \in DOMAIN Script  BY <1>1, <1>2, LenProperties
<1>4. Len(history) \in Nat /\ Len(history) # 0
  BY EmptySeq, LenProperties DEF Scripted
<1>5. ASSUME call.tool = "GetDeckhouseLogs"
      PROVE  /\ NextRequest = "pods" => Len(answer) = 0
             /\ NextRequest = "log" => Len(answer) = 1
  <2>1. Script = <<"pods", "log">>  BY <1>5, Scripts DEF Scripted
  <2> DEFINE n == Len(answer)
  <2>2. n \in Nat /\ n < 2  BY <1>2, <2>1
  <2>3. NextRequest = <<"pods", "log">>[n + 1]  BY <2>1 DEF NextRequest
  <2> HIDE DEF n
  <2>4. CASE n = 0  BY <2>3, <2>4 DEF n
  <2>5. CASE n = 1  BY <2>3, <2>5 DEF n
  <2> QED  BY <2>2, <2>4, <2>5
<1> QED  BY <1>1, <1>2, <1>3, <1>4, <1>5 DEF NextRequest, Moments, Asked

(* A part that is right of the cluster, or that GetNode may do without,    *)
(* goes with the parts before it.                                          *)
LEMMA ExplainedOn ==
  ASSUME ReadInv, outcome = "running", NEW part, GoOn(part), history' = history, call' = call,
         lost \subseteq lost',
         picked' = picked \/ Len(answer) = 0,
         \/ \A r, c : r = NextRequest /\ c = cluster => Right(r, part, c)'
         \/ /\ call.tool = "GetNode" /\ Len(answer) > 0
            /\ NextRequest \in lost' /\ part = {}
  PROVE  Scripted' /\ Explained'
<1> DEFINE n == Len(answer)
<1>1. /\ n \in Nat /\ Len(history) \in Moments /\ n + 1 \in DOMAIN Script
      /\ Moments = 1 .. Len(history) /\ Len(history) \in Nat
  BY NextIsAsked DEF ReadInv
<1> PICK S : answer \in Seq(S)  BY DEF ReadInv, Scripted
<1>2. /\ \E T : answer' \in Seq(T)
      /\ Len(answer') = n + 1
      /\ \A i \in 1 .. n : answer'[i] = answer[i]
      /\ answer'[n + 1] = part
  <2>1. answer' = Append(answer, part)  BY DEF GoOn
  <2>2. /\ \E T : Append(answer, part) \in Seq(T)
        /\ Len(Append(answer, part)) = n + 1
        /\ \A i \in 1 .. n : Append(answer, part)[i] = answer[i]
        /\ Append(answer, part)[n + 1] = part
    BY Appended
  <2> QED  BY <2>1, <2>2, Zenon
<1>3. Script' = Script /\ Moments' = Moments  BY DEF Script, Moments
<1>4. Scripted'
  <2>1. Len(Script) \in Nat /\ n < Len(Script)
    BY Scripts, LenProperties DEF ReadInv, Scripted
  <2> QED  BY <1>1, <1>2, <1>3, <2>1 DEF ReadInv, Scripted, GoOn
<1>5. PICK at \in [1 .. n -> Moments] :
        /\ \A i, j \in 1 .. n : i <= j => at[i] <= at[j]
        /\ \A i \in 1 .. n : Told(i, at[i])
  BY DEF ReadInv, Explained
<1> PICK on : on = [i \in 1 .. n + 1 |-> IF i = n + 1 THEN Len(history) ELSE at[i]]
  OBVIOUS
<1>6. on \in [1 .. Len(answer') -> Moments']
  BY <1>1, <1>2, <1>3, <1>5
<1>7. ASSUME NEW i \in 1 .. Len(answer'), NEW j \in 1 .. Len(answer'), i <= j
      PROVE  on[i] <= on[j]
  <2>1. ASSUME NEW l \in 1 .. n PROVE on[l] = at[l] /\ at[l] \in 1 .. Len(history)
    <3>1. l \in 1 .. n + 1 /\ l # n + 1  BY <1>1
    <3>2. on[l] = at[l]  BY <3>1
    <3> QED  BY <1>1, <1>5, <3>2
  <2>2. on[n + 1] = Len(history)  BY <1>1
  <2>3. i \in Nat /\ j \in Nat /\ i <= n + 1 /\ j <= n + 1 /\ i >= 1 /\ j >= 1  BY <1>1, <1>2
  <2>4. CASE j = n + 1
    <3>1. on[j] = Len(history)  BY <2>2, <2>4
    <3>2. CASE i = n + 1
      <4>1. on[i] = Len(history)  BY <2>2, <3>2
      <4> QED  BY <1>1, <3>1, <4>1
    <3>3. CASE i # n + 1
      <4>1. i \in 1 .. n  BY <1>1, <2>3, <3>3
      <4>2. on[i] \in 1 .. Len(history)  BY <2>1, <4>1
      <4> QED  BY <1>1, <3>1, <4>2
    <3> QED  BY <3>2, <3>3
  <2>5. CASE j # n + 1
    <3>1. i \in 1 .. n /\ j \in 1 .. n  BY <1>1, <1>7, <2>3, <2>5
    <3> QED  BY <1>5, <1>7, <2>1, <3>1
  <2> QED  BY <2>4, <2>5
<1>8. ASSUME NEW i \in 1 .. Len(answer') PROVE Told(i, on[i])'
  <2>1. CASE i = n + 1
    <3>1. /\ on[i] = Len(history) /\ answer'[i] = part
          /\ Script'[i] = NextRequest /\ history'[on[i]] = cluster
      BY <1>1, <1>2, <1>3, <2>1 DEF cluster, NextRequest
    <3> QED  BY <1>1, <1>2, <1>3, <2>1, <3>1 DEF Told
  <2>2. CASE i # n + 1
    <3>1. i \in 1 .. n /\ on[i] = at[i] /\ answer'[i] = answer[i] /\ picked' = picked
      BY <1>1, <1>2, <2>2
    <3>2. Told(i, at[i])  BY <1>5, <3>1
    <3>3. Right(Script[i], answer[i], history[at[i]])' <=> Right(Script[i], answer[i], history[at[i]])
      BY <1>3, <3>1, SameRight
    <3> QED  BY <1>3, <3>1, <3>2, <3>3 DEF Told
  <2> QED  BY <2>1, <2>2
<1>9. Explained'  BY <1>6, <1>7, <1>8 DEF Explained
<1> QED  BY <1>4, <1>9

LEMMA AnsweredKeeps ==
  ASSUME ReadInv, Answered, history' = history
  PROVE  ReadInv'
<1>1. outcome = "running" /\ call' = call /\ lost' = lost  BY DEF Answered
<1>2. PICK part \in Parts(NextRequest) :
        /\ GoOn(part)
        /\ picked' = IF call.tool = "GetDeckhouseLogs" /\ NextRequest = "pods"
                     THEN (CHOOSE f \in part : TRUE)[2] ELSE picked
  BY DEF Answered
<1>3. NextRequest \in Asked /\ call \in ToolCalls  BY <1>1, NextIsAsked DEF ReadInv, Scripted
<1>4. ErrorsJustified'  BY <1>2 DEF GoOn, ErrorsJustified
<1>5. CASE call.tool = "GetDeckhouseLogs" /\ NextRequest = "pods"
  <2>1. PICK p \in findDeckhousePod : part = {<<"picked", p>>}
    BY <1>2, <1>5 DEF Parts, PodParts
  <2>2. (CHOOSE f \in part : TRUE) = <<"picked", p>>  BY <2>1
  <2>3. picked' = p
    <3>1. picked' = (CHOOSE f \in part : TRUE)[2]  BY <1>2, <1>5
    <3>2. picked' = <<"picked", p>>[2]  BY <2>2, <3>1
    <3> QED  BY <3>2
  <2>4. picked' \in Labelled /\ cluster.pod[picked'] # None
    BY <2>1, <2>3 DEF findDeckhousePod, Present
  <2>5. \A r, c : r = NextRequest /\ c = cluster => Right(r, part, c)'
    BY <1>1, <1>5, <2>4 DEF Right
  <2>6. Len(answer) = 0  BY <1>1, <1>5, NextIsAsked DEF ReadInv
  <2> QED  BY <1>1, <1>2, <1>4, <2>5, <2>6, ExplainedOn DEF ReadInv
<1>6. CASE ~ (call.tool = "GetDeckhouseLogs" /\ NextRequest = "pods")
  <2>1. picked' = picked  BY <1>2, <1>6
  <2>2. Right(NextRequest, part, cluster)  BY <1>3, <1>6, PartRight
  <2>3. \A r, c : r = NextRequest /\ c = cluster => Right(r, part, c)'
    BY <1>1, <2>1, <2>2, SameRight
  <2> QED  BY <1>1, <1>2, <1>4, <2>1, <2>3, ExplainedOn DEF ReadInv
<1> QED  BY <1>5, <1>6

(* The roles of the Nodes can always be picked.                            *)
LEMMA RolesPicked == RolePicks # {}
<1> DEFINE f == [n \in Present("node") |-> CHOOSE role \in RolesOf(n) : TRUE]
<1>1. \A n \in Present("node") : RolesOf(n) # {}  BY DEF RolesOf
<1>2. \A n \in Present("node") : f[n] \in RolesOf(n)  BY <1>1
<1>3. f \in [Present("node") -> UNION {RolesOf(n) : n \in Present("node")}]  BY <1>2
<1> HIDE DEF f
<1> QED  BY <1>2, <1>3 DEF RolePicks

(* A request for which the code finds nothing to say, and which the tool   *)
(* cannot do without.                                                      *)
LEMMA NothingToSay ==
  ASSUME call \in ToolCalls, NEW r \in Asked, Parts(r) = {}, ~Optional(r)
  PROVE  \/ ~Servable(r, cluster)
         \/ /\ call.tool = "GetDeckhouseLogs"
            /\ \/ r = "pods" /\ \A p \in Labelled : cluster.pod[p] = None
               \/ r = "log" /\ ~Started(picked, cluster)
<1>1. CASE r = "nodes"
  <2>1. call.tool \in {"GetClusterStatus", "ListNodes", "GetNodeGroup"}  BY <1>1, AskedBy
  <2>2. ListNodes # {}
    <3>1. PICK f : f \in RolePicks  BY RolesPicked
    <3> DEFINE listed == {nodeToInfo(n, f[n]) : n \in {m \in Present("node") : matchesNodeFilter(m, f[m])}}
    <3>2. listed \in ListNodes  BY <3>1, Zenon DEF ListNodes
    <3> QED  BY <3>2
  <2> QED  BY <1>1, <2>1, <2>2 DEF Parts, NodeParts
<1>2. CASE r = "node"
  <2>1. cluster.node[call.name] = None
    <3>1. RolesOf(call.name) # {}  BY DEF RolesOf
    <3> QED  BY <1>2, <3>1 DEF Parts, NodePart
  <2> QED  BY <1>2, <2>1 DEF Servable, About
<1>3. CASE r \in {"group", "config"} \/ (r = "instance" /\ call.tool = "GetStaticInstance")
  <2>1. Single(About[r]) = {}  BY <1>3 DEF Parts, InstancePart, About
  <2>2. cluster[About[r]][call.name] = None  BY <2>1 DEF Single
  <2> QED  BY <1>3, <2>2 DEF Servable
<1>4. CASE r = "instance" /\ call.tool # "GetStaticInstance"
  <2>1. call.tool = "GetNode"  BY <1>4, AskedBy
  <2> QED  BY <1>4, <2>1 DEF Optional
<1>5. CASE r = "releases"
  <2>1. ReleaseInfo # {}
    <3> DEFINE S == IF InPhase("Deployed") = {} THEN {None} ELSE InPhase("Deployed")
    <3>1. PICK v : v \in S  OBVIOUS
    <3> QED  BY <3>1 DEF ReleaseInfo
  <2> QED  BY <1>5, <2>1 DEF Parts, ReleaseParts
<1>6. CASE r = "moduleReleases"
  <2>1. call.tool = "ListModuleReleases"  BY <1>6, AskedBy
  <2> QED  BY <1>6, <2>1 DEF Parts, ListModuleReleases, Servable
<1>7. CASE r = "pods"
  <2>1. call.tool \in {"GetClusterStatus", "ListUnhealthyPods", "GetDeckhouseLogs"}
    BY <1>7, AskedBy
  <2>2. call.tool = "GetDeckhouseLogs" /\ findDeckhousePod = {}
    BY <1>7, <2>1 DEF Parts, PodParts
  <2>3. \A p \in Labelled : cluster.pod[p] = None
    BY <2>2, PodAssumption DEF findDeckhousePod, Present, Names
  <2> QED  BY <1>7, <2>2, <2>3
<1>8. CASE r = "secret"
  <2>1. call.tool \in {"GetClusterConfiguration", "GetStaticClusterConfiguration"}
    BY <1>8, AskedBy
  <2>2. ~KeyHeld(cluster)  BY <1>8, <2>1 DEF Parts, SecretParts, KeyHeld, KeyWanted
  <2> QED  BY <1>8, <2>2 DEF Servable
<1>9. CASE r = "log"
  <2>1. call.tool \in {"GetPodLogs", "GetDeckhouseLogs"}  BY <1>9, AskedBy
  <2>2. \A p : LogOf(p) = {} => ~Started(p, cluster)  BY DEF LogOf, Started
  <2>3. CASE call.tool = "GetPodLogs"
    <3>1. ~Started(call.name, cluster)
      BY <1>9, <2>2, <2>3 DEF Parts, GetPodLogs
    <3> QED  BY <2>3, <3>1 DEF Servable
  <2>4. CASE call.tool = "GetDeckhouseLogs"
    <3>1. ~Started(picked, cluster)
      BY <1>9, <2>2, <2>4 DEF Parts, GetDeckhouseLogs
    <3> QED  BY <1>9, <2>4, <3>1
  <2> QED  BY <2>1, <2>3, <2>4
<1>10. CASE r \in {"groups", "modules", "sources", "policies", "instances", "configs", "events"}
  BY <1>10
  DEF Parts, ListNodeGroups, ListModules, ListModuleSources, ListModuleUpdatePolicies, Every,
      ConfigParts, EventParts
<1> QED
  BY <1>1, <1>2, <1>3, <1>4, <1>5, <1>6, <1>7, <1>8, <1>9, <1>10, AskedBy

(* What GetNode does without, it may.                                      *)
LEMMA OptionalMissing ==
  ASSUME call \in ToolCalls, NEW r \in Asked, Parts(r) = {}, Optional(r)
  PROVE  Right(r, {}, cluster)
<1>1. call.tool = "GetNode" /\ r = "instance"
  BY DEF Optional, Parts, EventParts
<1>2. cluster.instance[call.name] = None
  BY <1>1 DEF Parts, InstancePart, siPhase
<1>3. \A n : ~Wanted("instance", n, cluster)  BY <1>1, <1>2 DEF Wanted
<1>4. Lists({}, "instance", cluster)  BY <1>3 DEF Lists
<1> QED  BY <1>1, <1>4 DEF Right, About

LEMMA UnansweredKeeps ==
  ASSUME ReadInv, Unanswered, history' = history
  PROVE  ReadInv'
<1>1. outcome = "running" /\ call' = call /\ picked' = picked  BY DEF Unanswered
<1>2. \/ Parts(NextRequest) = {} /\ lost' = lost
      \/ lost' = lost \cup {NextRequest}
  BY DEF Unanswered
<1>3. /\ NextRequest \in Asked /\ call \in ToolCalls
      /\ Len(answer) \in Nat /\ Len(answer) + 1 \in DOMAIN Script
  BY <1>1, NextIsAsked DEF ReadInv, Scripted
<1>4. CASE Optional(NextRequest)
  <2>1. GoOn({})  BY <1>4 DEF Unanswered
  <2>2. ErrorsJustified'  BY <2>1 DEF GoOn, ErrorsJustified
  <2>3. CASE Parts(NextRequest) = {}
    <3>1. Right(NextRequest, {}, cluster)  BY <1>3, <1>4, <2>3, OptionalMissing
    <3>2. \A r, c : r = NextRequest /\ c = cluster => Right(r, {}, c)'
      BY <1>1, <3>1, SameRight
    <3>3. lost \subseteq lost'  BY <1>2
    <3> QED  BY <1>1, <2>1, <2>2, <3>2, <3>3, ExplainedOn DEF ReadInv
  <2>4. CASE lost' = lost \cup {NextRequest}
    <3>1. call.tool = "GetNode" /\ NextRequest \in {"instance", "events"}
      BY <1>4 DEF Optional
    <3>2. Script[1] = "node"
      <4>1. Script = <<"node", "instance", "events">>  BY <3>1 DEF Script, Requests
      <4> QED  BY <4>1
    <3>3. Len(answer) > 0
      <4>1. Len(answer) # 0  BY <3>1, <3>2 DEF NextRequest
      <4> QED  BY <1>3, <4>1
    <3>4. lost \subseteq lost' /\ NextRequest \in lost'  BY <2>4
    <3> QED  BY <1>1, <2>1, <2>2, <3>1, <3>3, <3>4, ExplainedOn DEF ReadInv
  <2> QED  BY <1>2, <2>3, <2>4
<1>5. CASE ~Optional(NextRequest)
  <2>1. outcome' = "error" /\ answer' = answer /\ Script' = Script /\ Moments' = Moments
    BY <1>1, <1>5 DEF Unanswered, Script, Moments
  <2>2. Scripted'  BY <1>1, <2>1 DEF ReadInv, Scripted
  <2>3. Explained'
    <3>1. PICK at \in [1 .. Len(answer) -> Moments] :
            /\ \A i, j \in 1 .. Len(answer) : i <= j => at[i] <= at[j]
            /\ \A i \in 1 .. Len(answer) : Told(i, at[i])
      BY DEF ReadInv, Explained
    <3>2. lost \subseteq lost'  BY <1>2
    <3>3. ASSUME NEW i \in 1 .. Len(answer), Told(i, at[i]) PROVE Told(i, at[i])'
      <4>1. Right(Script[i], answer[i], history[at[i]])' <=> Right(Script[i], answer[i], history[at[i]])
        BY <1>1, <2>1, SameRight
      <4> QED  BY <1>1, <2>1, <3>2, <3>3, <4>1 DEF Told
    <3> QED  BY <2>1, <3>1, <3>3 DEF Explained
  <2>4. ASSUME lost' = {}
        PROVE  \/ \E i \in DOMAIN Script, j \in Moments : ~Servable(Script[i], history[j])
               \/ /\ call.tool = "GetDeckhouseLogs"
                  /\ \/ \E j \in Moments : \A p \in Labelled : history[j].pod[p] = None
                     \/ \E p \in Labelled, i, j \in Moments :
                          i <= j /\ history[i].pod[p] # None /\ ~Started(p, history[j])
    <3>1. Parts(NextRequest) = {}  BY <1>2, <2>4
    <3>2. Len(history) \in Moments /\ cluster = history[Len(history)]
          /\ Moments = 1 .. Len(history) /\ Len(history) \in Nat
      BY <1>1, NextIsAsked DEF ReadInv, cluster
    <3>3. CASE ~Servable(NextRequest, cluster)
      <4>1. NextRequest = Script[Len(answer) + 1]  BY DEF NextRequest
      <4> QED  BY <1>3, <3>2, <3>3, <4>1
    <3>4. CASE call.tool = "GetDeckhouseLogs" /\ \A p \in Labelled : cluster.pod[p] = None
      BY <3>2, <3>4
    <3>5. CASE call.tool = "GetDeckhouseLogs" /\ NextRequest = "log" /\ ~Started(picked, cluster)
      <4>1. Len(answer) = 1 /\ Script[1] = "pods"
        <5>1. Script = <<"pods", "log">>  BY <1>3, <3>5, Scripts
        <5> QED  BY <1>1, <3>5, <5>1, NextIsAsked DEF ReadInv
      <4>2. PICK at \in [1 .. Len(answer) -> Moments] : \A i \in 1 .. Len(answer) : Told(i, at[i])
        BY DEF ReadInv, Explained
      <4>3. at[1] \in Moments /\ Told(1, at[1])  BY <4>1, <4>2
      <4>4. Right("pods", answer[1], history[at[1]])  BY <3>5, <4>1, <4>3 DEF Told
      <4>5. picked \in Labelled /\ history[at[1]].pod[picked] # None
        BY <3>5, <4>4 DEF Right
      <4>6. at[1] <= Len(history)  BY <3>2, <4>3
      <4> QED  BY <3>2, <3>5, <4>3, <4>5, <4>6
    <3> QED  BY <1>3, <1>5, <3>1, <3>3, <3>4, <3>5, NothingToSay
  <2>5. ErrorsJustified'  BY <1>1, <2>1, <2>4, SameServable DEF ErrorsJustified
  <2> QED  BY <2>2, <2>3, <2>5 DEF ReadInv
<1> QED  BY <1>4, <1>5

LEMMA ReadStutter ==
  ASSUME ReadInv, UNCHANGED readVars
  PROVE  ReadInv'
<1>1. /\ history' = history /\ call' = call /\ picked' = picked
      /\ answer' = answer /\ outcome' = outcome /\ lost' = lost
      /\ Script' = Script /\ Moments' = Moments
  BY DEF readVars, callVars, Script, Moments
<1>2. Scripted'  BY <1>1 DEF ReadInv, Scripted
<1>3. \A i, j : Told(i, j)' <=> Told(i, j)
  <2>1. ASSUME NEW i, NEW j
        PROVE  Right(Script[i], answer[i], history[j])' <=> Right(Script[i], answer[i], history[j])
    BY <1>1, SameRight
  <2> QED  BY <1>1, <2>1 DEF Told
<1>4. Explained'  BY <1>1, <1>3 DEF ReadInv, Explained
<1>5. ErrorsJustified'  BY <1>1, SameServable DEF ReadInv, ErrorsJustified
<1> QED  BY <1>2, <1>4, <1>5 DEF ReadInv

LEMMA ReadInvariance == ReadSpec => []ReadInv
<1>1. ReadInv /\ [ReadNext]_readVars => ReadInv'
  BY ChangeKeeps, AnsweredKeeps, UnansweredKeeps, ReadStutter DEF ReadNext, Request
<1> QED  BY <1>1, InitReads, PTL DEF ReadSpec

(* AnswerRegular: whatever the cluster is, however often it changes during *)
(* the call and whichever requests fail, each part of an answer is what    *)
(* one look at the cluster finds, in the order of the requests, but for    *)
(* what GetNode does without.                                              *)
THEOREM AnswersCorrect == ReadSpec => []AnswerRegular
<1>1. ReadInv => AnswerRegular
  <2> SUFFICES ASSUME ReadInv, outcome = "ok" PROVE AnswerRegular
    BY DEF AnswerRegular
  <2>1. DOMAIN Script = 1 .. Len(answer)
    BY Scripts, LenProperties DEF ReadInv, Scripted
  <2> QED  BY <2>1 DEF ReadInv, Explained, Told, AnswerRegular
<1> QED  BY <1>1, ReadInvariance, PTL

(* ErrorsJustified: unless a request fails by itself, an error means that  *)
(* the cluster was without something that the call cannot do without.      *)
THEOREM ErrorsCorrect == ReadSpec => []ErrorsJustified
<1>1. ReadInv => ErrorsJustified  BY DEF ReadInv
<1> QED  BY <1>1, ReadInvariance, PTL
==============================================================================
