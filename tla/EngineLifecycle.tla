--------------------------- MODULE EngineLifecycle ---------------------------
(***************************************************************************)
(* What an engine promises its application, whatever driver runs it        *)
(* (lib.rs, EngineStage; app/driver.rs, AppDriver): the stage moves along  *)
(* the documented graph only, and each hook of the application - init,     *)
(* suspend, resume, terminate - is executed exactly once per visit of its  *)
(* stage, before that stage is left.                                       *)
(***************************************************************************)
VARIABLES
  stage,   \* EngineStateInner::stage
  hooked   \* whether the hook of the current stage has been executed

\* EngineStage::validate_transition, without the transitions to itself.
Edges ==
  { <<"Init", "Running">>, <<"Running", "Suspending">>, <<"Suspending", "Suspended">>,
    <<"Suspended", "Resuming">>, <<"Resuming", "Running">>,
    <<"Running", "Stopping">>, <<"Suspended", "Stopping">>, <<"Stopping", "Stopped">> }

\* The stages during which a hook of the application is executed.
HookStages == {"Init", "Suspending", "Resuming", "Stopping"}

Init == stage = "Init" /\ hooked = FALSE

\* The hook of this stage has been executed.
Hook ==
  /\ stage \in HookStages /\ ~hooked
  /\ hooked' = TRUE
  /\ UNCHANGED stage

Transition ==
  /\ <<stage, stage'>> \in Edges
  /\ stage \in HookStages => hooked
  /\ hooked' = FALSE

Next == Hook \/ Transition

Spec == Init /\ [][Next]_<<stage, hooked>>
=============================================================================
