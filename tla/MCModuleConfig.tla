--------------------------- MODULE MCModuleConfig ----------------------------
(* A toggle, a merge, an empty merge and a change of maintenance.  The     *)
(* settings have two keys, of which the merge deletes one; there is one    *)
(* value, an empty object, for more would only multiply the bodies.        *)
EXTENDS ModuleConfig, TLC

CONSTANTS toggle, merge, empty, pause, a, b, r1

MCCalls   == {toggle, merge, empty, pause}
MCKeys    == {a, b}
MCPaths   == {<<a>>, <<b>>}
MCScalars == {}
MCRests   == {r1}
MCPatch   == toggle :> <<>> @@ empty :> <<>> @@ pause :> <<>> @@ merge :> (<<a>> :> Null)
MCKind    == toggle :> "enable"  @@ merge :> "settings" @@ empty :> "settings" @@ pause :> "pause"
==============================================================================
