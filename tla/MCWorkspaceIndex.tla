--------------------------- MODULE MCWorkspaceIndex --------------------------
(***************************************************************************)
(* Two plugin processes: each registers "." before it has parsed its flags *)
(* and its workspace after (main.go); the first also runs a caller of      *)
(* BootstrapProject.                                                       *)
(***************************************************************************)
EXTENDS WorkspaceIndex

MCProcessOf(c) == IF c = "plugin2" THEN "process2" ELSE "process1"

MCCalls(c) ==
    CASE c = "plugin1" -> <<".", "/w1">>
      [] c = "plugin2" -> <<".", "/w2">>
      [] c = "bootstrap" -> <<"/w3">>

=============================================================================
