--------------------------- MODULE MC_EmailWorker ---------------------------
(* Two identities.  The passing run starts with none or one and reloads   *)
(* to non-empty sets; the shutdown run starts with one and never reloads; *)
(* the removal run starts with one and reloads to none or another one.    *)
EXTENDS EmailWorker

CONSTANTS i1, i2

MCIds == {i1, i2}
MCInitIds == {{}, {i1}}
MCIdSets == {{i1}, {i1, i2}, {i2}}
MCShutdownInitIds == {{i1}}
MCRemoveIdSets == {{}, {i2}}
=============================================================================
