----------------------------- MODULE WinitDriver -----------------------------
(***************************************************************************)
(* The engine under WinitDriver (gui/window/winit.rs).  The thread of the  *)
(* event loop handles one event at a time: those of the windows, of the    *)
(* application's life, and those that other threads send to its proxy.     *)
(* The application's hooks run on background threads, one at a time; each  *)
(* window renders on a thread of its own, which takes what the event loop  *)
(* and the application ask of it from a queue.                             *)
(***************************************************************************)
EXTENDS Naturals, Sequences, Functions

CONSTANTS
  Windows,       \* the windows the application creates
  InitWindows,   \* those its init() creates and waits for, in this order
  Primary,       \* those made with exit_on_close
  Platforms,     \* "mobile": the application may be suspended; "desktop": not
  MaxResumed, MaxInputs,   \* bounds: repeated events, inputs of the windows
  NoPhase

ASSUME WinitDriverAssumption ==
  /\ InitWindows \in Seq(Windows) /\ Primary \subseteq Windows
  /\ NoPhase \notin {"init", "suspend", "terminate"}

VARIABLES
  platform,
  stage, hooked,   \* as in EngineLifecycle
  loop,            \* the event loop: "running", "panicked", "exited"
  events,          \* the EngineEvents that were sent to it
  background,      \* WindowOrchestrator::background_handle: a phase, or NoPhase
  hook,            \* the background thread: its phase and where it is
  map,             \* WindowOrchestrator::windows
  future,          \* window -> its CreateWindowFuture: "none", "sent", "ready"
  thread,          \* window -> its thread: "none", "render", "drain", "close", "ended"
  closing,         \* the windows whose tick has met CloseRequested
  requests,        \* window -> WindowHandle::requests
  cursor,          \* window -> the cursor the application wants, the one
                   \* there is, and whether the window has the focus
  resumed, inputs  \* how many of these events there were

appVars == <<platform, stage, hooked, hook>>
loopVars == <<loop, events, background, map, future, resumed>>
windowVars == <<thread, closing, requests, cursor, inputs>>
vars == <<appVars, loopVars, windowVars>>

Lifecycle == INSTANCE EngineLifecycle

Send(event) == events' = Append(events, event)
NoHook == [phase |-> NoPhase, at |-> "none", made |-> 0]
Phase(name) == [kind |-> "finish", phase |-> name]

Init ==
  /\ platform \in Platforms
  /\ stage = "Init" /\ hooked = FALSE /\ hook = NoHook
  /\ loop = "running" /\ events = <<>> /\ background = NoPhase /\ map = {}
  /\ future = [w \in Windows |-> "none"]
  /\ thread = [w \in Windows |-> "none"]
  /\ closing = {}
  /\ requests = [w \in Windows |-> <<>>]
  /\ cursor = [w \in Windows |-> [wanted |-> TRUE, shown |-> TRUE, focused |-> FALSE]]
  /\ resumed = 0 /\ inputs = 0

\* Mutant: an engine can be told to stop in any stage.
ValidAnywhere(next) == TRUE

\* EngineStage::validate_transition, for a change of the stage.
Valid(next) == stage = next \/ <<stage, next>> \in Lifecycle!Edges

Enter(next) ==
  /\ stage' = next
  /\ hooked' = IF next = stage THEN hooked ELSE FALSE

-----------------------------------------------------------------------------
(* The event loop *)

\* LifecyclePhase::spawn
SpawnPhase(phase) ==
  /\ background' = phase
  /\ hook' = [phase |-> phase, at |-> "hook", made |-> 0]

\* resumed: starts init() once, whatever the number of events.  The branch for
\* an engine that is Suspended is never taken: see FinishPhase.
Resumed ==
  /\ loop = "running" /\ resumed < MaxResumed
  /\ resumed' = resumed + 1
  /\ IF stage = "Init" /\ background = NoPhase
     THEN SpawnPhase("init") /\ UNCHANGED loop
     ELSE /\ loop' = IF stage = "Init" /\ background # "init" THEN "panicked" ELSE loop
          /\ UNCHANGED <<background, hook>>
  /\ UNCHANGED <<platform, stage, hooked, events, map, future, windowVars>>

\* suspended: may come at any time, and leaves the stage alone.
Suspended ==
  /\ loop = "running" /\ platform = "mobile" /\ background # "suspend"
  /\ IF background = NoPhase
     THEN SpawnPhase("suspend") /\ UNCHANGED loop
     ELSE loop' = "panicked" /\ UNCHANGED <<background, hook>>
  /\ UNCHANGED <<platform, stage, hooked, events, map, future, resumed, windowVars>>

\* user_event takes the event at the head.
Take(kind) ==
  /\ loop = "running" /\ events # <<>> /\ Head(events).kind = kind

\* Window::new: the window's thread starts at once.
NewWindow(w) == thread' = [thread EXCEPT ![w] = "render"]

\* CreateWindow: the window, its thread and its entry in the map are made
\* before the future yields the handle.
CreateWindow ==
  /\ Take("create")
  /\ LET w == Head(events).window
     IN /\ map' = map \cup {w}
        /\ future' = [future EXCEPT ![w] = "ready"]
        /\ NewWindow(w)
  /\ events' = Tail(events)
  /\ UNCHANGED <<appVars, loop, background, resumed, closing, requests, cursor, inputs>>

\* Engine::stop from the event loop: refused in some stages, nothing to do in
\* others.  The handler of the stage's event sends Stopping.
StopFromLoop ==
  IF Valid("Stopping") /\ stage # "Stopping"
  THEN Enter("Stopping") /\ events' = Append(Tail(events), [kind |-> "stopping"])
  ELSE events' = Tail(events) /\ UNCHANGED <<stage, hooked>>

\* Mutant: exit_on_close is not looked at.
CloseOnly ==
  /\ Take("closing") /\ thread[Head(events).window] = "ended"
  /\ map' = map \ {Head(events).window}
  /\ events' = Tail(events)
  /\ UNCHANGED <<stage, hooked, platform, hook, loop, background, future, resumed, windowVars>>

\* ClosingWindow: the entry goes, its thread is joined; a primary window stops
\* the engine.
ClosingWindow ==
  /\ Take("closing")
  /\ LET w == Head(events).window
     IN /\ thread[w] = "ended"
        /\ map' = map \ {w}
        /\ IF w \in Primary THEN StopFromLoop ELSE events' = Tail(events) /\ UNCHANGED <<stage, hooked>>
  /\ UNCHANGED <<platform, hook, loop, background, future, resumed, windowVars>>

Target == [init |-> "Running", suspend |-> "Suspended", terminate |-> "Stopped"]

\* FinishPhase joins the background thread and advances the stage, if it can;
\* after Terminate the loop exits.  From Running there is no way to Suspended:
\* the error is logged and the engine stays where it is.
FinishPhase ==
  /\ Take("finish")
  /\ hook.at = "done"
  /\ LET phase == Head(events).phase
         target == Target[phase]
     IN /\ background' = NoPhase
        /\ hook' = NoHook
        /\ loop' = IF background # phase THEN "panicked"
                   ELSE IF phase = "terminate" THEN "exited" ELSE loop
        /\ IF Valid(target) THEN Enter(target) ELSE UNCHANGED <<stage, hooked>>
  /\ events' = Tail(events)
  /\ UNCHANGED <<platform, map, future, resumed, windowVars>>

\* Stopping starts terminate(); a phase that is still under way is a panic.
Stopping ==
  /\ Take("stopping")
  /\ IF background = NoPhase
     THEN SpawnPhase("terminate") /\ UNCHANGED loop
     ELSE loop' = "panicked" /\ UNCHANGED <<background, hook>>
  /\ events' = Tail(events)
  /\ UNCHANGED <<platform, stage, hooked, map, future, resumed, windowVars>>

\* window_event and device_event hand an input over to the window's thread, if
\* the window is still in the map.
Ask(w, request) == requests' = [requests EXCEPT ![w] = Append(@, request)]

WindowEvents == {"CloseRequested", "Focused", "Unfocused", "Destroyed"}

WindowEvent(w, event) ==
  /\ loop = "running" /\ w \in map /\ inputs < MaxInputs
  /\ Ask(w, event)
  /\ inputs' = inputs + 1
  /\ UNCHANGED <<appVars, loopVars, thread, closing, cursor>>

UserEvent == CreateWindow \/ ClosingWindow \/ FinishPhase \/ Stopping

-----------------------------------------------------------------------------
(* The application: its hooks and its other threads *)

\* init() creates a window and waits for it; the other hooks just end.
\* WindowManager::create_window
RequestWindow(w) ==
  /\ future[w] = "none"
  /\ future' = [future EXCEPT ![w] = "sent"]
  /\ Send([kind |-> "create", window |-> w])

\* CreateWindowFuture::poll
Created(w) == future[w] = "ready"

HookStep ==
  /\ hook.at = "hook"
  /\ IF hook.phase = "init" /\ hook.made < Len(InitWindows)
     THEN LET w == InitWindows[hook.made + 1]
          IN \/ RequestWindow(w) /\ UNCHANGED <<hook, hooked>>
             \/ /\ Created(w)
                /\ hook' = [hook EXCEPT !.made = @ + 1]
                /\ UNCHANGED <<future, events, hooked>>
     ELSE /\ hook' = [hook EXCEPT !.at = "guard"]
          /\ hooked' = (hooked \/ hook.phase # "suspend")
          /\ UNCHANGED <<future, events>>
  /\ UNCHANGED <<platform, stage, loop, background, map, resumed, windowVars>>

\* DropSender: FinishPhase is sent before the thread has ended.
DropSender ==
  /\ hook.at = "guard"
  /\ hook' = [hook EXCEPT !.at = "done"]
  /\ Send(Phase(hook.phase))
  /\ UNCHANGED <<platform, stage, hooked, loop, background, map, future, resumed, windowVars>>

HookThread == HookStep \/ DropSender

\* Another thread of the application creates a window.
AppCreates(w) ==
  /\ w \notin Range(InitWindows) /\ stage # "Init" /\ loop = "running"
  /\ RequestWindow(w)
  /\ UNCHANGED <<appVars, loop, background, map, resumed, windowVars>>

\* Another thread stops the engine.
AppStops ==
  /\ Valid("Stopping") /\ stage # "Stopping"
  /\ Enter("Stopping")
  /\ Send([kind |-> "stopping"])
  /\ UNCHANGED <<platform, hook, loop, background, map, future, resumed, windowVars>>

\* WindowHandle::set_cursor_visible and request_close, as long as the handle
\* lives: a request to a window that has ended stays in its queue.
AppAsks(w, request) ==
  /\ Created(w) /\ inputs < MaxInputs
  /\ Ask(w, request)
  /\ inputs' = inputs + 1
  /\ UNCHANGED <<appVars, loopVars, thread, closing, cursor>>

-----------------------------------------------------------------------------
(* The thread of a window *)

\* Window::tick renders first.
Render(w) ==
  /\ thread[w] = "render"
  /\ thread' = [thread EXCEPT ![w] = "drain"]
  /\ UNCHANGED <<appVars, loopVars, closing, requests, cursor, inputs>>

\* Mutant: the window shows the cursor again whenever it gets the focus.
ApplyShowing(c, request) ==
  CASE request = "Show" -> [c EXCEPT !.wanted = TRUE, !.shown = TRUE]
    [] request = "Hide" -> [c EXCEPT !.wanted = FALSE, !.shown = FALSE]
    [] request = "Focused" -> [c EXCEPT !.focused = TRUE, !.shown = TRUE]
    [] request = "Unfocused" -> [c EXCEPT !.focused = FALSE, !.shown = TRUE]
    [] OTHER -> c

\* The cursor after a request; a window that is asked to hide it does so even
\* if another has the focus.
Apply(c, request) ==
  CASE request = "Show" -> [c EXCEPT !.wanted = TRUE, !.shown = TRUE]
    [] request = "Hide" -> [c EXCEPT !.wanted = FALSE, !.shown = FALSE]
    [] request = "Focused" -> [c EXCEPT !.focused = TRUE, !.shown = c.wanted]
    [] request = "Unfocused" -> [c EXCEPT !.focused = FALSE, !.shown = TRUE]
    [] OTHER -> c

\* The rest of tick, one request at a time: Destroyed ends it at once,
\* CloseRequested when the queue is empty.
Request(w) ==
  /\ thread[w] = "drain" /\ requests[w] # <<>>
  /\ LET request == Head(requests[w])
     IN /\ thread' = IF request = "Destroyed" THEN [thread EXCEPT ![w] = "close"] ELSE thread
        /\ closing' = IF request = "CloseRequested" THEN closing \cup {w} ELSE closing
        /\ cursor' = [cursor EXCEPT ![w] = Apply(@, request)]
  /\ requests' = [requests EXCEPT ![w] = Tail(@)]
  /\ UNCHANGED <<appVars, loopVars, inputs>>

EndTick(w) ==
  /\ thread[w] = "drain" /\ requests[w] = <<>>
  /\ thread' = [thread EXCEPT ![w] = IF w \in closing THEN "close" ELSE "render"]
  /\ UNCHANGED <<appVars, loopVars, closing, requests, cursor, inputs>>

\* The thread tells the event loop and ends.
CloseWindow(w) ==
  /\ thread[w] = "close"
  /\ thread' = [thread EXCEPT ![w] = "ended"]
  /\ Send([kind |-> "closing", window |-> w])
  /\ UNCHANGED <<appVars, loop, background, map, future, resumed, closing, requests, cursor, inputs>>

WindowThread(w) == Render(w) \/ Request(w) \/ EndTick(w) \/ CloseWindow(w)

Rest == loop # "running" /\ UNCHANGED vars

Next ==
  \/ Resumed \/ Suspended \/ UserEvent
  \/ HookThread \/ AppStops
  \/ \E w \in Windows :
       \/ AppCreates(w) \/ WindowThread(w)
       \/ \E event \in WindowEvents : WindowEvent(w, event)
       \/ \E request \in {"Show", "Hide", "CloseRequested"} : AppAsks(w, request)
  \/ Rest

\* All threads are scheduled.  The operating system resumes an application
\* that has started; it needs not have inputs for it.
Spec ==
  /\ Init /\ [][Next]_vars
  /\ WF_vars(UserEvent) /\ WF_vars(HookThread) /\ WF_vars(resumed = 0 /\ Resumed)
  /\ \A w \in Windows : WF_vars(WindowThread(w))

-----------------------------------------------------------------------------
(* Properties *)

Desktop == platform = "desktop"

\* On a desktop the driver keeps the promise of app/driver.rs:32-52: the hooks
\* run once per visit of their stage, on threads of their own, and the stage
\* moves on only when they have ended.
Promised == INSTANCE EngineLifecycle WITH
  stage <- IF Desktop THEN stage ELSE "Init", hooked <- Desktop /\ hooked
DesktopImplementsLifecycle == Promised!Spec

\* On a desktop an engine that is told to stop stops, and a primary window that
\* closes while it runs stops it (winit.rs:553-565), although the event loop has
\* to join the window's thread and the hook's.
StopsWithPrimary ==
  Desktop /\ stage \in {"Running", "Stopping"}
    /\ (stage = "Stopping" \/ \E w \in Primary : w \in map /\ thread[w] = "close")
  ~> stage = "Stopped" /\ loop = "exited"

\* A window that has the focus and nothing left to do shows the cursor
\* the application asked for last, in whatever order the changes of the focus
\* and the application's requests came (winit.rs:283-302).
CursorAsAsked ==
  \A w \in Windows : cursor[w].focused => cursor[w].shown = cursor[w].wanted

=============================================================================
