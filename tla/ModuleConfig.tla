---------------------------- MODULE ModuleConfig -----------------------------
(***************************************************************************)
(* The ModulesHandler tools that write one ModuleConfig: EnableModule and  *)
(* DisableModule (setModuleEnabled), UpdateModuleSettings and              *)
(* SetModuleMaintenance.  The first three GET the object, change one field *)
(* of spec and PUT it back, without a retry; the last sends a merge patch, *)
(* which the server applies to whatever it holds.  Deckhouse and operators *)
(* write the object as well.                                               *)
(*                                                                         *)
(* The settings are documents of JsonDocuments, and the merge takes one    *)
(* step here: that mergeJSONPatch computes Merged is the subject of        *)
(* JsonMergePatch.                                                         *)
(***************************************************************************)
EXTENDS ApiServer, JsonDocuments

CONSTANTS
  Calls,  \* the tool calls
  Kind,   \* Kind[c]: the tool, see Kinds
  Patch,  \* Patch[c]: the settings that an UpdateModuleSettings call sends
  Rests,  \* values of everything else in the object
  MaxRev  \* bound: other writers stop at this resourceVersion

Kinds == {"enable", "disable", "settings", "pause", "resume"}

ASSUME KindAssumption == Kind \in [Calls -> Kinds]
ASSUME PatchAssumption == \A c \in Calls : Patch[c] \in PatchDocuments
ASSUME MaxRevAssumption == MaxRev \in Nat

VARIABLES
  config,   \* the ModuleConfig in the API server
  pc,       \* pc[c]: where call c is, or how it ended
  snap,     \* snap[c]: moduleConfig, as the GET of call c returned it
  previous, \* previous[c]: prevEnabled
  writes,   \* history: how often the server took a write of call c
  replaced  \* history: the object's body just before that write

vars == <<config, pc, snap, previous, writes, replaced>>

(* spec.enabled may be absent; spec.maintenance is set or absent. *)
Bodies == [enabled : {"absent", "true", "false"}, settings : Documents,
           maintenance : BOOLEAN, rest : Rests]

Init ==
  /\ config \in [rv : {0}, body : Bodies]
  /\ pc       = [c \in Calls |-> "idle"]
  /\ snap     = [c \in Calls |-> config]
  /\ previous = [c \in Calls |-> FALSE]
  /\ writes   = [c \in Calls |-> 0]
  /\ replaced = [c \in Calls |-> config.body]

Goto(c, l) == pc' = [pc EXCEPT ![c] = l]
Toggles == {"enable", "disable"}
Patches == {"pause", "resume"}

(* A call that merges no settings is rejected before the cluster is asked. *)
RejectsEmpty(c) == Kind[c] = "settings" /\ DOMAIN Patch[c] = {}

Begin(c) ==
  /\ pc[c] = "idle"
  /\ Goto(c, CASE RejectsEmpty(c) -> "error"
               [] Kind[c] \in Patches -> "patch"
               [] OTHER -> "get")
  /\ UNCHANGED <<config, snap, previous, writes, replaced>>

(* A request fails without effect: not found, forbidden, cancelled. *)
RequestFails(c) ==
  /\ pc[c] \in {"get", "put", "patch"}
  /\ Goto(c, "error")
  /\ UNCHANGED <<config, snap, previous, writes, replaced>>

(* GetModuleConfig; for a toggle, prevEnabled is read from its answer. *)
Get(c) ==
  /\ pc[c] = "get"
  /\ snap' = [snap EXCEPT ![c] = config]
  /\ previous' = IF Kind[c] \in Toggles
                 THEN [previous EXCEPT ![c] = config.body.enabled = "true"]
                 ELSE previous
  /\ Goto(c, "put")
  /\ UNCHANGED <<config, writes, replaced>>

(* A mutant of Wanted: the document replaces the settings. *)
WantedReplacing(c, body) ==
  CASE Kind[c] = "settings" -> [body EXCEPT !.settings = Merged(<<>>, Patch[c])]
    [] Kind[c] \in Toggles ->
         [body EXCEPT !.enabled = IF Kind[c] = "enable" THEN "true" ELSE "false"]
    [] OTHER -> [body EXCEPT !.maintenance = Kind[c] = "pause"]

(* What call c makes of a body. *)
Wanted(c, body) ==
  CASE Kind[c] = "settings" -> [body EXCEPT !.settings = Merged(body.settings, Patch[c])]
    [] Kind[c] \in Toggles ->
         [body EXCEPT !.enabled = IF Kind[c] = "enable" THEN "true" ELSE "false"]
    [] OTHER -> [body EXCEPT !.maintenance = Kind[c] = "pause"]

(* A mutant of Write: when the answer is lost, the request is sent again. *)
WriteRetried(c, body) ==
  /\ config' = Stored(config, body)
  /\ writes' = [writes EXCEPT ![c] = @ + 1]
  /\ replaced' = [replaced EXCEPT ![c] = config.body]
  /\ \E l \in {"ok", pc[c]} : Goto(c, l)
  /\ UNCHANGED <<snap, previous>>

(* The server takes a write of call c; the answer arrives or is lost. *)
Write(c, body) ==
  /\ config' = Stored(config, body)
  /\ writes' = [writes EXCEPT ![c] = @ + 1]
  /\ replaced' = [replaced EXCEPT ![c] = config.body]
  /\ \E l \in {"ok", "error"} : Goto(c, l)
  /\ UNCHANGED <<snap, previous>>

(* UpdateModuleConfig is taken. *)
PutTaken(c) ==
  /\ pc[c] = "put"
  /\ Accepts(config, snap[c])
  /\ Write(c, Wanted(c, snap[c].body))

(* A mutant of PutConflicts: the Conflict is taken for success. *)
PutConflictsIgnored(c) ==
  /\ pc[c] = "put"
  /\ ~Accepts(config, snap[c])
  /\ Goto(c, "ok")
  /\ UNCHANGED <<config, snap, previous, writes, replaced>>

(* UpdateModuleConfig meets a newer object: the Conflict is returned. *)
PutConflicts(c) ==
  /\ pc[c] = "put"
  /\ ~Accepts(config, snap[c])
  /\ Goto(c, "error")
  /\ UNCHANGED <<config, snap, previous, writes, replaced>>

(* PatchModuleConfig: the server merges the patch into the current object. *)
PatchTaken(c) ==
  /\ pc[c] = "patch"
  /\ Write(c, Wanted(c, config.body))

OtherWriter ==
  /\ config.rv < MaxRev
  /\ \E b \in Bodies \ {config.body} : config' = Stored(config, b)
  /\ UNCHANGED <<pc, snap, previous, writes, replaced>>

Step(c) == RequestFails(c) \/ Get(c) \/ PutTaken(c) \/ PutConflicts(c) \/ PatchTaken(c)
Next == (\E c \in Calls : Begin(c) \/ Step(c)) \/ OtherWriter

Spec == Init /\ [][Next]_vars
------------------------------------------------------------------------------
TypeOK ==
  /\ config \in Objects(Bodies)
  /\ pc \in [Calls -> {"idle", "get", "put", "patch", "ok", "error"}]
  /\ snap \in [Calls -> Objects(Bodies)]
  /\ previous \in [Calls -> BOOLEAN]
  /\ writes \in [Calls -> 0..1]
  /\ replaced \in [Calls -> Bodies]

(* A successful toggle answers with the enabled state that its own write   *)
(* replaced ("Previous value of spec.enabled before this call",            *)
(* modules.proto lines 167 and 188); unlike CordonNode, which reads twice. *)
PreviousIsReplaced ==
  \A c \in Calls :
    pc[c] = "ok" /\ Kind[c] \in Toggles =>
      previous[c] <=> (replaced[c].enabled = "true")

(* Success means that the server took the write, and that there was        *)
(* something to write: neither a Conflict nor an empty document passes.    *)
SuccessMeansWritten ==
  \A c \in Calls : pc[c] = "ok" => writes[c] = 1 /\ ~RejectsEmpty(c)

(* What a tool promises: it sets one field of the object, and computes it  *)
(* from that field alone.                                                  *)
Promised(c, body) ==
  LET set(field, value) == [body EXCEPT ![field] = value]
  IN  CASE Kind[c] = "enable"   -> set("enabled", "true")
        [] Kind[c] = "disable"  -> set("enabled", "false")
        [] Kind[c] = "settings" -> set("settings", Merged(body.settings, Patch[c]))
        [] Kind[c] = "pause"    -> set("maintenance", TRUE)
        [] Kind[c] = "resume"   -> set("maintenance", FALSE)

(* Enabling, disabling, pausing, resuming and merging settings are atomic  *)
(* updates of the ModuleConfig: each is made once, to the object as it     *)
(* stands, whether it is computed by the server or from an earlier GET.    *)
(* An enable does not undo a pause or a change of settings that arrived    *)
(* after its GET, and a merge keeps what others have just added.           *)
Status == [c \in Calls |-> CASE pc[c] = "ok" -> "ok" [] pc[c] = "error" -> "failed"
                             [] OTHER -> "running"]
Atomic == INSTANCE AtomicUpdate WITH
  body <- config.body, status <- Status,
  Effect <- [c \in Calls |-> [b \in Bodies |-> Promised(c, b)]]
AtomicSpec == Atomic!Spec
==============================================================================
