# deckhouse-mcp: verification project

`deckhouse-mcp` is a server that offers the administration of a Deckhouse
(Kubernetes) cluster to AI assistants as MCP tools. This directory holds TLA+
models of its tools and of the process that serves them, what TLC checks about
them on small instances, and theorems about them that TLAPS checks for every
value of the constants.

The program keeps no state of its own between calls. What makes it hard is that
a tool call is a sequence of API requests on objects that everybody else keeps
writing: controllers, the scheduler, kubelets, operators with `kubectl`, and
other calls of the same server (an assistant that retries a call it believes
lost runs two of them at once). Each request may fail, succeed with its answer
lost, or meet an object that has changed since it was read.

Paths below are relative to the repository root (`src/` here).

## Inventory

| Component | State | Operations | Interaction and difficulty |
|---|---|---|---|
| API server, as used through `internal/k8s/client.go` | the objects of the cluster, each under a resourceVersion | GET, PUT, merge PATCH, POST, DELETE, eviction, list | A PUT carries the resourceVersion of an earlier GET and may meet a Conflict; a PATCH, a DELETE and an eviction go by name, whatever the object has become |
| Cluster configuration, `internal/handler/config.go` | a version inside a YAML document inside a Secret | `UpdateKubernetesVersion`, two getters | A read-modify-write loop with three attempts on Conflict, state carried from attempt to attempt, a panic on an empty document |
| Node scheduling, `internal/handler/nodes.go` | `spec.unschedulable` | `CordonNode`, `UncordonNode` | Two GETs and a PUT; uncordon skips the PUT when it looks unnecessary |
| Drain, `nodes.go` | work-set, counters, deadline of one call | `DrainNode` | Minutes long; pods listed once and then addressed by name; disruption budgets; deadline read twice; cancellation |
| Removal, `nodes.go` | loop over listed pods | `RemoveNode` | Lookup, cordon, list, deletions, removal of the StaticInstance: any of them may fail half-way |
| Provisioning, `nodes.go` | SSHCredentials, StaticInstance; phase and deadline of one call | `AddWorkerNode`, `WaitNodeReady`, the creations and deletions on their own | Two creations that are not atomic together, racing with other calls; a polling loop that Deckhouse need not end |
| Module configuration, `internal/handler/modules.go` | one ModuleConfig | `EnableModule`, `DisableModule`, `UpdateModuleSettings`, `SetModuleMaintenance`, three readers | GET/PUT pairs without retry beside blind merge patches on the same object; a recursive JSON merge over a randomly ordered map |
| Sources, `internal/handler/sources.go` | ModuleSource, ModuleReleases with a label | `CreateModuleSource`, `DeleteModuleSource`, `CreateModuleUpdatePolicy`, lists | Check, then act; the check is skipped when its list fails |
| Releases, `internal/handler/releases.go` | an annotation, and a status that Deckhouse derives from it | `ApproveRelease`, two readers | A GET for the answer and a blind patch; approval stands in two places |
| Node groups, `nodes.go` | none | `CreateNodeGroup`, `CreateNodeGroupConfiguration`, `DeleteNodeGroup` | One request after local validation |
| Diagnostics, `internal/handler/diagnostics.go` | none | eleven read-only tools | Up to five requests per answer, each at another moment; errors ignored in one tool only; a pod picked from a list and addressed later |
| Server, `cmd/deckhouse-mcp/main.go` | listener, signal context | start, serve, shut down | A select between the listener's error and a signal; SSE streams that keep a graceful shutdown waiting; a shutdown timeout shorter than a drain; calls cut off in the middle |
| Generated code under `proto/` | none | registration, messages, schemas | none |

What makes each component correct, in a sentence:

- *Configuration*: an update of the version is atomic, happens once, reports
  the version it replaced, gives up only under real contention, and ends.
- *Scheduling*: success means that the Node was as asked for at some moment of
  the call; nobody's change of the Node is undone.
- *Drain*: the answer accounts for every listed pod exactly once and claims no
  eviction that did not happen; the cordon precedes the list, so that what may
  run on is known; it ends soon after its deadline and says so.
- *Removal*: the StaticInstance goes only after the pods of the list.
- *Provisioning*: the machine is bound to the key of the caller that got it;
  the answer tells Running from a timeout; the wait is bounded.
- *Modules*: each tool changes its field only, starting from the object it
  meets; the merge is RFC 7396 in every order of the keys.
- *Sources*: a refusal has a reason; a check that was made misses only releases
  that came after it.
- *Releases*: `previous_approved` tells who set the annotation; an approval is
  read back; a call approves at most once, whatever becomes of the process.
- *Readers*: each part of an answer is what the tool's description promises, of
  the cluster as it was at one moment of the call; an error has a reason.
- *Server*: a signal or a failed listener ends the process; a signal alone
  leaves connected clients the whole grace period.

The hazards behind these sentences, each at its line, are in `PROJECT.json`
(`hazards`), with the properties that would catch them; three have none, and
say why.

## Modules

Every action is one API request, one wait, or one step of somebody else. A
request that changes the cluster has two outcomes for the caller: its answer
arrives, or it is lost and the call sees an error. A request that fails without
effect (not found, forbidden, cancelled, a broken connection) is an action of
its own. `ReleaseApproval`, where the end of the process is the subject, goes
one step further and lets a request that has been sent take effect at any time,
also after its call or its process has ended; elsewhere a request whose answer
is lost has taken effect by the time its call ends. Variables marked *history*
in the modules are not in the program; they remember what a property has to
compare with.

| Module | Models | State against code |
|---|---|---|
| `ApiServer` | optimistic concurrency | `Accepts`: the resourceVersion that `client.UpdateSecret`, `UpdateModuleConfig`, `CordonNode` and `UncordonNode` leave in the fetched object; `Stored`: a PUT that changes nothing does not move the resourceVersion |
| `KubernetesVersion` | `ConfigHandler.UpdateKubernetesVersion` for any number of calls | `attempt` is the loop variable, `snap` the fetched Secret, `prev` is `previousVersion`, which survives an attempt; the panic on a nil map (`config.go:102`) ends every call in flight; `Blank` is a field that holds the empty string, which `previousVersion` takes over and an absent field does not |
| `AtomicVersion` | abstract: an update of the version in one step, with its answer; foreign writes are counted, so that a second write of a call cannot pass for one | refined by `KubernetesVersion` (`AtomicSpec`) |
| `NodeCordon` | `NodesHandler.CordonNode`, `UncordonNode` and the client functions of the same names | `previous` is `previousState`, `snap` the Node of the second GET |
| `NodePods` | external: a Node and the pods around it | names are reused by StatefulSets, uids are not; a pod is *unbound* between the scheduler's choice and its binding; `seen` is the cordon as the scheduler's cache has it, which may lag behind the Node; a *tolerant* pod tolerates the taint of a cordon |
| `DrainNode` (extends `NodePods`) | `NodesHandler.DrainNode` | `pending` is the work-set, `todo` the rest of the round, `evicted`, `failedPods`, `timedOut` the answer, `wakeAt` the timer, `LeaveLoop` and `Return` the two readings of the clock, `deadline` as computed from `timeout_seconds` |
| `RemoveNode` (extends `NodePods`) | `NodesHandler.RemoveNode` with `drainNode` | `todo` is the rest of the range over the list, `drained` the flag of the answer |
| `WorkerNode` | `AddWorkerNode` (`provisionNodeResources`, `pollStaticInstance`), `WaitNodeReady`, and the deleting tools | `creds` and `inst` remember the call that created them; `left` is the time to `deadline`, `nap` the timer |
| `ModuleConfig` | the four writing tools of `ModulesHandler` on one object | `snap` is `moduleConfig`, `previous` is `prevEnabled`; settings are documents of `JsonDocuments`, and the merge is one step here |
| `JsonDocuments` | JSON documents and patches as maps from paths; abstract: `Merged`, what RFC 7396 says of applying a patch, path by path | a document holds `Object` at the path of each nested object, so that depth is no limit |
| `JsonMergePatch` | `mergeJSONPatch` on nested documents | `at` is the object that the innermost call merges, `pending` the keys no loop has taken yet; one step per key, in any order, and one per return |
| `AtomicUpdate` | abstract: a tool's change of one object in one step, made at most once, during the call | refined by `NodeCordon` and by `ModuleConfig` (`AtomicSpec` of each), with its own effects |
| `ModuleSource` | `CreateModuleSource`, `DeleteModuleSource`, `countSourceReferences` | `label` is the label "source" of each ModuleRelease |
| `ReleaseApproval` | `ReleasesHandler.ApproveRelease` and the field `approved` of `GetDeckhouseRelease` | `annotated` is the annotation, `approved` the status, `prev` is `prevApproved`; `wire` are the patches on their way to the server, `taken` those applied |
| `AtMostOnce` | abstract: calls that set a flag at most once, before a success, perhaps after an error | refined by `ServedReleases` (`AtMostOnceSpec`); written without reference to `ReleaseApproval` |
| `Server` | `run` and `serveUntilShutdown` | `listener` and `serverErr` are the goroutine and its channel, `main` the place of the main goroutine, `waited` the clock of `shutdownCtx`, `conn` the SSE connections; `Panics` is the panic of a tool call, which nothing recovers |
| `ServedReleases` | the two together: calls over connections to a process that ends and is started again | the variables of both, by `INSTANCE`; `starts` counts processes |
| `ReadOnlyTools` | one call of any of the twenty tools that only read | `history` is the cluster, change by change, since the call began; `answer` holds one part for each request made, `picked` is `podName` of `GetDeckhouseLogs`; what a tool makes of the objects is an operator of its name, or of its helper's |
| `ReaderPromises` (extends `ReadOnlyTools`) | what `proto/deckhouse/v1` says these tools answer, as predicates on a cluster and a part of an answer | no operator of the code's model is used in it except the names of the requests and of the objects |

`MC...` modules give the constants their values. `...Proofs` modules hold the
theorems. Operators introduced by "A mutant of ..." are plausible bugs of the
definition below them; `PROJECT.json` names a property that each one breaks, and
nothing in the models uses them.

`DrainNode` and `RemoveNode` are compositions of a call with the cluster of
`NodePods`; all multi-call modules (`KubernetesVersion`, `NodeCordon`,
`WorkerNode`, `ModuleConfig`, `ModuleSource`) compose the calls with each other
and with the other writers of the object in one next-state relation.
`ServedReleases` composes two modules that know nothing of each other: a call
begins only over an open connection to a server that accepts, goes on only
while the process runs, and fails when it ends; what it has sent by then is on
the wire and arrives or gets lost at any later time. `ApproveRelease` stands
there for every tool: what the composition shows about being cut off and
restarted does not depend on what the call does. The panic of the composition
is that of any call, `UpdateKubernetesVersion` on an empty document being the
one that `KubernetesVersion` shows to be possible.

In `ReadOnlyTools` an answer is a sequence of parts, one for each request, and
a part is a set of facts about objects. Fields that are copied without a choice
(addresses, versions, ages, messages, the lines of a log and the filter on
them) are left out; a field that the code chooses is not, and where the choice
follows the order of a Go map (the role of a Node) or of a list (the Deckhouse
pod, the deployed release) every outcome is possible. What a part should be is
written a second time, in `ReaderPromises`, from the descriptions that the
tools give their clients: which objects are wanted, what may be said of each,
what the numbers count, and which objects a tool cannot do without. The
properties compare the two and use the code's notions (`Parts`, `Optional`,
`matchesNodeFilter`, ...) nowhere, so that a wrong filter, a dropped error or
an error too many shows.

## Runs

Each run is one `.cfg` of the same name.

| Run | Checks | Bounds, and why they are enough |
|---|---|---|
| `KubernetesVersion` | `ReportedIsReplaced`, `ExhaustedOnlyUnderContention`, `TypeOK`, the refinement `AtomicSpec`, `EveryCallEnds` | two calls with different versions; other writers up to revision 3, enough to spend all three attempts and to go on after them |
| `NodeCordon` | `SuccessWasTrue`, `PreviousIsReplaced`, `TypeOK`, the refinement `AtomicSpec` | two cordons, an uncordon, two other writes: one write before and one after each GET of a call |
| `DrainNode` | `Accounting`, `CountedAreLeaving`, `OnlyLateBindingsRemain`, `TimedOutIffPending`, `AtMostOneLateRound`, `TypeOK`, and `DrainEnds` | two pods to evict, so that one may be pending while the other has failed, of which one tolerates the cordon; the clock runs past the deadline; one pod is recreated under an old name, by a scheduler that may not have seen the cordon. Mirror and DaemonSet pods are left to `RemoveNode`, whose list treats them alike but for the mirror pods |
| `RemoveNode` | `RemovedOnlyAfterDrain`, `OnlyLateBindingsRemain`, `TypeOK` | an ordinary, a mirror and a DaemonSet pod, one recreation, two writes of the Node by others: both the cordon's Conflict and a later uncordon |
| `WorkerNode` | `CredsAreOwn`, `AnswerMatchesPhase`, `OverrunBounded`, `TypeOK`, and `WaitEnds` | two `AddWorkerNode` and a `WaitNodeReady` for one node; timeouts of zero and one polling interval; counters are followed only as far as a comparison can tell |
| `ModuleConfig` | `PreviousIsReplaced`, `SuccessMeansWritten`, `TypeOK`, the refinement `AtomicSpec` | a toggle, a merge, an empty merge and a pause at once; settings of two keys, of which the merge removes one, with one value, since how values are merged is the subject of `JsonMergePatch`; one foreign write |
| `JsonMergePatch` | `MatchesRFC7396` | every document and patch two levels deep over two keys and two scalars: all pairs of absent, scalar, object and null meet, at both levels; the theorem covers any depth |
| `ModuleSource` | `RefusedTruthfully`, `RaceOnlyWithNewcomers`, `TypeOK` | a deletion with and one without force and a creation; two releases, one to be found and one to come late |
| `ServedReleases` | `PreviousAnnotation`, `ReadYourApproval`, `CutOffOnlyAfterGrace`, `TypeOK`, the refinement `AtMostOnceSpec`, and `ProcessEnds` | two calls of two clients, one change by an operator between their requests or before a late patch, a grace period of two ticks so that a shutdown may end before, during and at it, two starts of the process |
| `ReadOnlyTools` | `AnswerRegular`, `ErrorsJustified` | every tool with every combination of filters, two changes of the cluster anywhere between its requests: one makes two parts disagree, the second brings back what the first took away; two Nodes of which one has two roles, a pending and a running Deckhouse pod beside two others |

The two runs that expect a violation use the modules of the run they are named
after.

What the less obvious ones say:

- `CountedAreLeaving` and `Accounting` together make `evicted_count` and
  `failed_pods` trustworthy when answers are lost, pods vanish by themselves or
  come back under their names.
- `OnlyLateBindingsRemain` names exactly what may run on after a drain or a
  removal: pods assigned before the list and bound after it, pods that tolerate
  a cordon, pods assigned by a scheduler whose cache had not seen the cordon
  (and, for a drain, what the answer itself calls failed or pending). It breaks
  when the list precedes the cordon, or a Conflict of the cordon is ignored.
- `PreviousIsReplaced` of `NodeCordon`: the two GETs of a cordon may disagree,
  but only if somebody changed the flag between them.
- `AtMostOneLateRound`: a drain starts at most one round after its deadline,
  however late its timers fire. `OverrunBounded` says less of the polling loop:
  no sleep is begun that reaches further past the deadline than one interval;
  late timers and long requests come on top.
- `AnswerMatchesPhase`: an answer without timeout rests on a poll that has read
  Running. It does not compare the phase in the answer with the StaticInstance
  at that moment, which may have changed, or have lost its phase, since.
- `CredsAreOwn`: of several `AddWorkerNode` calls for one node at most one goes
  past the creation of the SSHCredentials, unless somebody deletes some.
- `RaceOnlyWithNewcomers` delimits the race that `DeleteModuleSource` has: with
  a check, only releases that appear in the window lose their source.
- `PreviousAnnotation`: of several approvals at once, the one whose patch set
  the annotation is the one that answers `previous_approved` = false, unless
  somebody changed the annotation between the GET of the call and the arrival
  of its patch. It is about the annotation, not about the status, and so about
  less than the document says: see below.
- `AtMostOnceSpec`: through failure, panic, shutdown and restart, a call sets
  the annotation at most once, and has set it when it succeeds. A call that is
  told of an error may still set it later, since its patch may be on the wire;
  operators' changes are counted, so that a second patch cannot pass for one.
- `CutOffOnlyAfterGrace`, `ProcessEnds`: the shutdown waits for its clients as
  long as it may, and not longer. SSE streams never become idle by themselves,
  so that the deadline is what ends a shutdown with a client connected. Two
  things give no grace: a listener that fails and a call that panics.
- `AnswerRegular` is what a reader may rely on though the parts of an answer
  are not a snapshot: there are moments of the call, in the order of the
  requests, at which one look at the cluster finds exactly what each part says.
  It makes two exceptions, the optional parts of `GetNode` after an error, and
  a Node with several roles under a role filter. `ErrorsJustified` excludes an
  error on a cluster that has everything the tool asks for, whatever else there
  is; for `GetDeckhouseLogs` that is a log of every pod with the label. The two
  exceptions that contradict a description are listed below.

Deadlock checking is off where the system may stop for good: when all calls
have ended and the bounded other writers have nothing left to do. No property
depends on that. The runs with symmetry permute values that no definition
tells apart, and check no liveness.

### Disagreements between documents and code

Two runs show the code doing something else than a document says; each checks
one property that states the document, and TLC finds it violated.

| Run | The document | The code |
|---|---|---|
| `DrainNodeTarget` | `nodes.proto:96`: it evicts pods from the node | a pod is evicted by the name it had when the pods were listed, though its successor runs elsewhere |
| `ModuleSourceUnchecked` | `sources.proto:65`: without force the request fails when releases reference the source | when the list of releases fails, nothing is checked |

Four more need a single state to show, no interleaving. The models follow the
code in them, the properties say what the code does, and so they pass:

| Property | The document | The code, and the property |
|---|---|---|
| `PreviousAnnotation` | `releases.proto:156`: `previous_approved` is whether the release was already approved before the call | it is whether the annotation was there (`releases.go:147`); for a release that only `status.approved` calls approved it is false, though `GetDeckhouseRelease` says approved |
| `AnswerRegular` (`Ambiguous`) | `diagnostics.proto:186`: `ListNodes` filters by the label of the role | it filters by the one role that a Go map yields first (`diagnostics.go:311`): a Node with several roles may be missing on a cluster that does not change; no other Node may |
| `ErrorsJustified` | `diagnostics.proto:83`: the log is that of the Deckhouse pod running in `d8-system` | it is that of the first pod with the label, running or not (`diagnostics.go:598`), and an error if that one has no log, though another one runs |
| `AnswerRegular` (`CountsPods`) | `diagnostics.proto:135`: unhealthy pods are counted across all namespaces | they are counted in `d8-system` (`diagnostics.go:811`) |

Others met while modelling:

- Named by a property that says what holds instead: a drain may end while a
  pod runs on that was bound after the list (`nodes.go:398`,
  `nodes.proto:100`; `OnlyLateBindingsRemain`); `previous_state` is not always
  the value replaced (`nodes.proto:407`, `:427`; `PreviousIsReplaced`); the
  parts of `GetClusterStatus` come from different moments (`AnswerRegular`).
- Visible in `KubernetesVersion`: `previous_version` may be a version read by
  an attempt that met a Conflict although the field was absent in the end
  (`config.proto:92`); `AtomicVersion` leaves the answer open there.
- Visible in the code without a model: `UpdateModuleSettings` answers `updated`
  also when nothing changed (`modules.proto:244`); `WaitNodeReady` ignores
  `interval_seconds` (`nodes.proto:365`); `RemoveNode` deletes pods where its
  description (`nodes.proto:55`) says it evicts them, and `deploy/rbac.yaml`
  grants no deletion of pods; `DeleteModuleSource` counts releases in every
  phase where the documents say active ones; `ListDeckhouseReleases` reads
  `status.approved` alone where `GetDeckhouseRelease` also looks at the
  annotation; `ListUnhealthyPods` looks at
  the phase, which is Running for a pod in CrashLoopBackOff, and
  `exclude_completed` changes nothing; the events of a Node are the first ten
  the server lists, not the last; `ListModuleConfigs` reads `spec.version` as a
  string where `GetModuleConfig` reads a number.

## Fairness

Safety needs none. The liveness properties assume only what the Go runtime and
the HTTP client give:

- `KubernetesVersion`, `EveryCallEnds`: a request of a call is eventually
  answered by the server. A call that ends only because its requests fail
  without an answer is possible but does not count as progress. Nothing is
  assumed of other writers.
- `DrainNode`, `DrainEnds`: weak fairness of the call and of the clock.
  Disruption budgets may refuse for ever, kubelets may never finish a pod, the
  caller need not cancel.
- `WorkerNode`, `WaitEnds`: weak fairness of the clock and, for each call, of
  its requests and timers. Cancellation is not part of it, and Deckhouse may
  leave the StaticInstance in any phase for ever.
- `ServedReleases`, `ProcessEnds`: weak fairness of the goroutine that listens,
  of the main goroutine and of the clock. Calls may never return, clients may
  never leave, patches may stay on the wire, and no signal need come.

Two facts about `net/http` are assumed, as its documentation states them:
`Shutdown` closes the listener first and then waits until no connection is
active; a connection whose handler is still writing a response, as an SSE
stream does, is active.

## Theorems

Proved for every set of calls, pods, keys and values, every timeout and every
bound, from the assumptions named in the modules (types of the constants,
`Pods` finite, paths of documents closed under prefixes, `Object`, `Null`,
`None` and `Blank` different from the values, `Labelled` within `System` within
`Pods`).

- `KubernetesVersionProofs`: `TypeOK`, `ReportedIsReplaced`,
  `ExhaustedOnlyUnderContention`, the refinement of `AtomicVersion`, and two
  facts stated on the way, that a call writes once and loses nothing. The
  invariant ties the snapshot of a call to the Secret: as long as the
  resourceVersions are equal, the bodies are, and the foreign writes seen are
  at least the attempts spent. Refinement maps `PutSucceeds` and
  `PutAnswerLost` to the atomic update and all else to a stutter or the end of a call.
- `NodeCordonProofs`: `TypeOK`, `SuccessWasTrue`, `PreviousIsReplaced`, from the
  same relation of snapshots and Node, the fact that a call in flight has
  recorded the moments at which it was satisfied, and (`PreviousKnown`) that a
  call that met no change of the flag knows it; and the refinement of
  `AtomicUpdate`. A PUT that the server takes was computed from the Node as it
  stands, so it is `TakeEffect`; an uncordon that finds nothing to do takes its
  effect at its GET; every other end of a call is `Fail`.
- `DrainNodeProofs`: all six safety invariants of the run. None is inductive
  alone. `Accounting` needs that the work-set lies within the listed pods
  (`WorkSet`) and a bit of finite-set arithmetic (`CountedAccounts`,
  `RecordedAccounts`); `CountedAreLeaving` needs that uids are not reused and
  that no listed incarnation is unbound (`Incarnations`, `PodsAge`);
  `OnlyLateBindingsRemain` needs that the Node stays unschedulable from the
  cordon on, so that who comes later tolerates that or comes from a scheduler
  that lags, and that every assignment before the list was seen by it or
  remembered as unbound (`Cordoned`, `Newcomers`, `Seen`, `Going`);
  the two about time need the phases of the call (`Phased`).
- `RemoveNodeProofs`: all three invariants of the run, along the same lines: a
  listed incarnation that has been asked to go never runs again, and what the
  list did not hold was assigned before the cordon.
- `ServedReleasesProofs`: all five safety properties of the run. The calls keep
  an invariant (`CallInv`) whatever the process does: a patch that is not yet
  applied is on the wire or lost, a call has a right `prevApproved` while
  nobody interferes. From it follow `PreviousAnnotation` and `ReadYourApproval`,
  and with it every step maps to a step of `AtMostOnce` or to a stutter: an
  applied patch to `TakeEffect`, the end of the process to `Fail` of every call
  in flight. `CutOffOnlyAfterGrace` needs that the channel holds an error only
  when the listener has failed (`ProcessInv`).
- `WorkerNodeProofs`: all four safety invariants of the run.
- `ModuleConfigProofs`, about the merge: `MergeCorrect` proves `MatchesRFC7396`
  for documents of any depth and width and every order of the keys. The walk is
  a state machine rather than a recursion, so that an invariant (`MergeInv`,
  which TLC has checked on the instance of the run) can carry it: at every
  moment the target is `Merged` of the document and the part of the patch
  visited so far (`TargetKnown`), no nested key is visited before the objects
  above it (`VisitsInOrder`), and what is pending hangs below a loop that is on
  the stack (`WithinReach`), which is why nothing is pending at the end.
  `Merged` itself is defined path by path; `MergedIsRecursive` proves that it
  satisfies the recursive equations of the RFC: a null deletes, a scalar
  replaces, an object is merged with the object at its key or with an empty
  one, other keys stay.
- `ModuleConfigProofs`, about the tools: `TypeOK`, `PreviousIsReplaced`,
  `SuccessMeansWritten`, and the refinement of `AtomicUpdate`, with the relation
  of snapshots and object: the toggles and the merge of settings, which PUT what
  they computed from an earlier GET, and the blind maintenance patch are all
  `TakeEffect` of the object as it stands.
- `ModuleSourceProofs`, about `ModuleSource`: all three properties of the run.
  The invariant says that what references the source when a checked call is
  about to delete it has come since its list (`OnlyNewcomers`), and that a call
  in flight has recorded the present (`SeesThePresent`).
- `ModuleSourceProofs`, about `ReadOnlyTools` (the module holds both, which
  otherwise have nothing in common): `AnswersCorrect` and `ErrorsCorrect` prove
  `AnswerRegular` and `ErrorsJustified` for any cluster, any start and any
  number of changes. The bulk is `PartRight` and the lemmas before it: what the
  code makes of a cluster for a request is what `ReaderPromises` says of that
  request, tool by tool; `NothingToSay` and `OptionalMissing` say the same of
  errors. The invariant `ReadInv` adds time: the call keeps to the requests of
  its tool (`Scripted`), moments for the parts given so far exist, in order
  (`Explained`), and an error has its reason (`ErrorsJustified`). A change of
  the cluster only appends to the history, so that moments once found stay.

Lemmas about the models' operators are stated once and cited: those about paths
and `Merged` (`PrefixFacts`, `AbovePointwise`, `ParentFacts`, `MergedType`,
`MergedIdempotent`, ...) serve both the merge and the tools.

Only model-checked: the liveness properties (`EveryCallEnds`, `DrainEnds`,
`WaitEnds`, `ProcessEnds`), since fairness and ENABLED are out of the prover's
reach, and the two disagreements that have a run, which are counterexamples. Every invariant
and every action property of a run that passes is the statement of a theorem.

## Plan

Done, in the order of importance: `ApiServer` and `KubernetesVersion` (the one
loop with retries), `DrainNode` (the longest call), `NodeCordon`,
`ModuleConfig` and `JsonMergePatch`, `WorkerNode`, `RemoveNode`,
`ModuleSource`, `ReleaseApproval`, `Server` and their composition
`ServedReleases`, `ReadOnlyTools` with `ReaderPromises`; the theorems above.

Next:

1. The lemmas about `NodePods` that the proofs of `DrainNode` and `RemoveNode`
   share, moved to a place that both use.
2. An abstract specification of a drain, refined by `DrainNode` and by
   `RemoveNode`: which pods a drain takes responsibility for, and when it lets
   go of each.

## Not modelled, and why

- `CreateNodeGroup`, `CreateNodeGroupConfiguration`, `DeleteNodeGroup`,
  `CreateModuleUpdatePolicy`: one request after local validation of the
  arguments. Nothing can come between its steps, and what its failure leaves
  behind is what the API server says.
- Generated code, manifests, build files and integration scripts. The files
  `proto/deckhouse/v1/*.pb.go` and `*.mcp.go` hold about 12 250 of the 15 550
  lines of Go outside tests: message types, accessors, JSON schemas and one
  registration per tool, without a decision or a state. The hand-written code
  is some 3 300 lines, of which about two thirds are mapped.
- `newServer` and the reading of the in-cluster configuration: a straight line
  that ends the process when it fails.
- The transport: JSON-RPC framing, sessions and concurrency limits belong to
  the MCP library. The models assume only that calls of one server may overlap.
- Inside the models: wording of errors, elapsed times, YAML and JSON encoding.
  The YAML document of the Secret is one of the few forms that the handler can
  tell apart (`Forms` in `KubernetesVersion`).
