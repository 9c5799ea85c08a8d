---------------------------- MODULE MCWinitDriver ----------------------------
(* A primary window that init() waits for and a second one. *)
EXTENDS WinitDriver

CONSTANTS w1, w2

MCWindows == {w1, w2}
MCInitWindows == <<w1>>
MCPrimary == {w1}
MCPlatforms == {"desktop", "mobile"}
=============================================================================
