---------------------------- MODULE WindowProofs ----------------------------
(***************************************************************************)
(* Proofs about windows, what is drawn over them and what is played in     *)
(* them: WinitDriver, for any windows, any of them primary, any number of  *)
(* inputs and of resumed events; Console, for any keys, commands, texts    *)
(* and sizes; and ReversiGame, for any board, any bots and clients, any    *)
(* number of clicks and any search of the bots:                            *)
(*   - a window that has the focus shows the cursor it was asked to;       *)
(*   - on a desktop the driver, whose event loop learns of everything by   *)
(*     messages, still drives the application as EngineLifecycle promises; *)
(*   - however the console's thread, the field's and the window's          *)
(*     interleave, the console is shown exactly if it has the inputs;      *)
(*   - a client's view of the game shows the board once nothing is on its  *)
(*     way to it, in whatever order what was sent arrives;                 *)
(*   - whoever plays plays for its own seat, and one at a time;            *)
(*   - a turn takes the pieces it should, and counts them.                 *)
(***************************************************************************)
EXTENDS WinitDriver, Console, ReversiGame, FiniteSetTheorems, SequenceTheorems, WellFoundedInduction, TLAPS

-----------------------------------------------------------------------------
(* The winit driver.                                                        *)

Cursor == [wanted : BOOLEAN, shown : BOOLEAN, focused : BOOLEAN]

CursorInv ==
  cursor \in [Windows -> Cursor] /\ CursorAsAsked

\* Only the thread of a window changes its cursor, one request at a time.
LEMMA CursorStep == CursorInv /\ [Next]_vars => CursorInv'
<1> SUFFICES ASSUME CursorInv, [Next]_vars PROVE CursorInv'
  OBVIOUS
<1>1. ASSUME NEW w \in Windows, NEW request, cursor' = [cursor EXCEPT ![w] = Apply(@, request)]
      PROVE  CursorInv'
  <2>1. cursor[w] \in Cursor /\ (cursor[w].focused => cursor[w].shown = cursor[w].wanted)
    BY DEF CursorInv, CursorAsAsked
  <2>2. Apply(cursor[w], request) \in Cursor
    BY <2>1 DEF Apply, Cursor
  <2>3. Apply(cursor[w], request).focused =>
          Apply(cursor[w], request).shown = Apply(cursor[w], request).wanted
    BY <2>1 DEF Apply, Cursor
  <2>4. QED  BY <1>1, <2>2, <2>3 DEF CursorInv, CursorAsAsked
<1>2. ASSUME UNCHANGED cursor
      PROVE  CursorInv'
  BY <1>2 DEF CursorInv, CursorAsAsked
<1>3. ASSUME NEW w \in Windows, Request(w)
      PROVE  CursorInv'
  BY <1>1, <1>3 DEF Request
<1>4. QED
  BY <1>2, <1>3 DEF Next, vars, windowVars, Resumed, Suspended, UserEvent, CreateWindow, ClosingWindow,
     FinishPhase, Stopping, HookThread, HookStep, DropSender, AppStops, AppCreates, WindowThread,
     Render, EndTick, CloseWindow, WindowEvent, AppAsks, Rest

\* A window that has the focus shows the cursor the application asked for
\* last (winit.rs:283-302).
THEOREM CursorShownAsAsked == Spec => []CursorAsAsked
<1>1. Init => CursorInv
  BY DEF Init, CursorInv, CursorAsAsked, Cursor
<1>2. CursorInv => CursorAsAsked
  BY DEF CursorInv
<1>3. QED  BY <1>1, <1>2, CursorStep, PTL DEF Spec

-----------------------------------------------------------------------------
(* The lifecycle on a desktop.  The stage, the phase the event loop has    *)
(* started and the thread of the phase are kept in step by two events, one *)
(* that says a phase has finished and one that says the engine stops.      *)

Phases == {"init", "terminate"}

EngineEvent ==
  [kind : {"create", "closing"}, window : Windows] \cup [kind : {"stopping"}]
    \cup [kind : {"finish"}, phase : Phases]

Sent(s, kind) == \E i \in 1..Len(s) : s[i].kind = kind
AtMostOne(s, kind) == \A i, j \in 1..Len(s) : s[i].kind = kind /\ s[j].kind = kind => i = j
FinishOf(s, phase) == \A i \in 1..Len(s) : s[i].kind = "finish" => s[i].phase = phase

\* The background thread is the one of the phase that the loop has started.
HookInv ==
  /\ background = hook.phase
  /\ hook.made \in Nat
  /\ IF background = NoPhase THEN hook.at = "none"
     ELSE background \in Phases /\ hook.at \in {"hook", "guard", "done"}
  /\ hook = [phase |-> hook.phase, at |-> hook.at, made |-> hook.made]
  /\ hooked \in BOOLEAN /\ (hooked <=> hook.at \in {"guard", "done"})

\* A phase that has ended has sent one event that says so, and the engine's
\* stop one that starts terminate().
EventsInv ==
  /\ events \in Seq(EngineEvent)
  /\ AtMostOne(events, "finish") /\ AtMostOne(events, "stopping")
  /\ Sent(events, "finish") <=> hook.at = "done"
  /\ FinishOf(events, hook.phase)
  /\ Sent(events, "stopping") <=> stage = "Stopping" /\ background = NoPhase

StageInv ==
  \/ stage = "Init" /\ background \in {NoPhase, "init"}
  \/ stage \in {"Running", "Stopped"} /\ background = NoPhase
  \/ stage = "Stopping" /\ background \in {NoPhase, "terminate"}

LoopInv == HookInv /\ EventsInv /\ StageInv
DesktopInv == Desktop => LoopInv

Keeps == LoopInv' /\ [Lifecycle!Next]_<<stage, hooked>>
\* What an event loop that takes the first event and the senders that append
\* one make of these.
LEMMA SentAppended ==
  ASSUME NEW s \in Seq(EngineEvent), NEW e \in EngineEvent, NEW kind, NEW phase
  PROVE  /\ Append(s, e) \in Seq(EngineEvent)
         /\ Sent(Append(s, e), kind) <=> Sent(s, kind) \/ e.kind = kind
         /\ AtMostOne(s, kind) /\ (e.kind # kind \/ ~Sent(s, kind)) => AtMostOne(Append(s, e), kind)
         /\ FinishOf(s, phase) /\ (e.kind = "finish" => e.phase = phase)
              => FinishOf(Append(s, e), phase)
<1>1. /\ Len(s) \in Nat /\ Append(s, e) \in Seq(EngineEvent) /\ Len(Append(s, e)) = Len(s) + 1
      /\ \A i \in 1..Len(s) : Append(s, e)[i] = s[i]
      /\ Append(s, e)[Len(s) + 1] = e
  BY AppendProperties
<1> DEFINE r == Append(s, e)
           n == Len(s)
<1> HIDE DEF r, n
<1>2. n \in Nat /\ Len(r) = n + 1 /\ (\A i \in 1..n : r[i] = s[i]) /\ r[n + 1] = e
  BY <1>1 DEF r, n
<1>3. \A i \in 1..(n + 1) : i \in 1..n \/ i = n + 1
  BY <1>2
<1>4. Sent(r, kind) <=> Sent(s, kind) \/ e.kind = kind
  BY <1>2, <1>3 DEF Sent, n
<1>5. ASSUME AtMostOne(s, kind), e.kind # kind \/ ~Sent(s, kind)
      PROVE  AtMostOne(r, kind)
  BY <1>2, <1>3, <1>5 DEF AtMostOne, Sent, n
<1>6. ASSUME FinishOf(s, phase), e.kind = "finish" => e.phase = phase
      PROVE  FinishOf(r, phase)
  BY <1>2, <1>3, <1>6 DEF FinishOf, n
<1>7. QED  BY <1>1, <1>4, <1>5, <1>6 DEF r

LEMMA SentTaken ==
  ASSUME NEW s \in Seq(EngineEvent), s # <<>>, NEW kind, NEW phase
  PROVE  /\ Tail(s) \in Seq(EngineEvent) /\ Head(s) \in EngineEvent /\ Sent(s, Head(s).kind)
         /\ Head(s).kind # kind => (Sent(Tail(s), kind) <=> Sent(s, kind))
         /\ AtMostOne(s, kind) => AtMostOne(Tail(s), kind)
         /\ AtMostOne(s, kind) /\ Head(s).kind = kind => ~Sent(Tail(s), kind)
         /\ FinishOf(s, phase) => FinishOf(Tail(s), phase)
         /\ FinishOf(s, phase) /\ Head(s).kind = "finish" => Head(s).phase = phase
<1> DEFINE r == Tail(s)
           n == Len(s)
<1>1. /\ n \in Nat \ {0} /\ Head(s) = s[1] /\ Head(s) \in EngineEvent
      /\ r \in Seq(EngineEvent) /\ Len(r) = n - 1
      /\ \A i \in 1..(n - 1) : r[i] = s[i + 1] /\ i + 1 \in 1..n
  OBVIOUS
<1> HIDE DEF r
<1>2. \A i \in 1..n : i = 1 \/ (i - 1 \in 1..(n - 1) /\ r[i - 1] = s[i])
  BY <1>1
<1>3. 1 \in 1..n
  BY <1>1
<1>4. Sent(s, Head(s).kind)
  BY <1>1, <1>3 DEF Sent
<1>5. Head(s).kind # kind => (Sent(r, kind) <=> Sent(s, kind))
  BY SMTT(30), <1>1, <1>2 DEF Sent
<1>6. AtMostOne(s, kind) => AtMostOne(r, kind)
  BY SMTT(30), <1>1 DEF AtMostOne
<1>7. AtMostOne(s, kind) /\ Head(s).kind = kind => ~Sent(r, kind)
  <2> SUFFICES ASSUME AtMostOne(s, kind), s[1].kind = kind, NEW i \in 1..(n - 1), r[i].kind = kind
               PROVE  FALSE
    BY <1>1 DEF Sent
  <2>1. i + 1 \in 1..n /\ s[i + 1].kind = kind /\ i + 1 # 1
    BY <1>1
  <2>2. QED  BY <1>3, <2>1 DEF AtMostOne
<1>8. FinishOf(s, phase) => FinishOf(r, phase)
  BY <1>1 DEF FinishOf
<1>9. FinishOf(s, phase) /\ Head(s).kind = "finish" => Head(s).phase = phase
  BY <1>1, <1>3 DEF FinishOf
<1>10. QED  BY <1>1, <1>4, <1>5, <1>6, <1>7, <1>8, <1>9 DEF r
\* Events about windows change nothing of this.
LEMMA WindowEventsKeep ==
  ASSUME LoopInv, UNCHANGED <<stage, hooked, background, hook>>,
         \/ UNCHANGED events
         \/ \E e \in EngineEvent : e.kind \in {"create", "closing"} /\ events' = Append(events, e)
         \/ events # <<>> /\ Head(events).kind \in {"create", "closing"} /\ events' = Tail(events)
  PROVE  Keeps
<1>1. HookInv' /\ StageInv'
  BY DEF LoopInv, HookInv, StageInv
<1>2. events \in Seq(EngineEvent)
  BY DEF LoopInv, EventsInv
<1>3. EventsInv'
  <2>1. CASE UNCHANGED events
    BY <2>1 DEF LoopInv, EventsInv
  <2>2. ASSUME NEW e \in EngineEvent, e.kind \in {"create", "closing"}, events' = Append(events, e)
        PROVE  EventsInv'
    BY <1>2, <2>2, SentAppended DEF LoopInv, EventsInv
  <2>3. CASE events # <<>> /\ Head(events).kind \in {"create", "closing"} /\ events' = Tail(events)
    BY <1>2, <2>3, SentTaken DEF LoopInv, EventsInv
  <2>4. QED  BY <2>1, <2>2, <2>3
<1>4. QED  BY <1>1, <1>3 DEF Keeps, LoopInv

\* Whoever stops the engine stops one that runs, which has no phase under way;
\* rest is what is left of the events, those about windows aside.
LEMMA StopKeeps ==
  ASSUME LoopInv, NEW rest \in Seq(EngineEvent),
         \A kind \in {"finish", "stopping"} :
           (Sent(rest, kind) <=> Sent(events, kind)) /\ AtMostOne(rest, kind),
         FinishOf(rest, hook.phase),
         Valid("Stopping"), stage # "Stopping", Enter("Stopping"),
         events' = Append(rest, [kind |-> "stopping"]), UNCHANGED <<background, hook>>
  PROVE  Keeps
<1>1. stage = "Running" /\ background = NoPhase
  BY DEF Valid, Lifecycle!Edges, LoopInv, StageInv
<1>2. stage' = "Stopping" /\ hooked' = FALSE /\ ~hooked
  BY <1>1 DEF Enter, LoopInv, HookInv
<1>3. HookInv' /\ StageInv'
  BY <1>1, <1>2 DEF LoopInv, HookInv, StageInv
<1>4. EventsInv'
  <2>1. [kind |-> "stopping"] \in EngineEvent
    BY DEF EngineEvent
  <2>2. ~Sent(rest, "stopping")
    BY <1>1 DEF LoopInv, EventsInv
  <2> DEFINE e == [kind |-> "stopping"]
  <2>3. e.kind = "stopping" /\ e \in EngineEvent
    BY <2>1
  <2> HIDE DEF e
  <2>4. events' = Append(rest, e)
    BY DEF e
  <2>5. /\ Append(rest, e) \in Seq(EngineEvent)
        /\ Sent(Append(rest, e), "finish") <=> Sent(rest, "finish")
        /\ Sent(Append(rest, e), "stopping")
        /\ AtMostOne(Append(rest, e), "finish") /\ AtMostOne(Append(rest, e), "stopping")
        /\ FinishOf(Append(rest, e), hook.phase)
    BY <2>2, <2>3, SentAppended
  <2>6. QED  BY <1>1, <1>2, <2>4, <2>5 DEF LoopInv, EventsInv
<1>5. Lifecycle!Transition
  BY <1>1, <1>2 DEF Lifecycle!Transition, Lifecycle!Edges, Lifecycle!HookStages
<1>6. QED  BY <1>3, <1>4, <1>5 DEF Keeps, LoopInv, Lifecycle!Next

LEMMA CreateKeeps ==
  ASSUME LoopInv, CreateWindow
  PROVE  Keeps
BY WindowEventsKeep DEF CreateWindow, Take, appVars

\* A primary window that has closed stops the engine, if it runs.
LEMMA ClosingKeeps ==
  ASSUME LoopInv, ClosingWindow
  PROVE  Keeps
<1>1. /\ events # <<>> /\ Head(events).kind = "closing" /\ UNCHANGED <<background, hook>>
      /\ StopFromLoop \/ (events' = Tail(events) /\ UNCHANGED <<stage, hooked>>)
  BY DEF ClosingWindow, Take
<1>2. CASE events' = Tail(events) /\ UNCHANGED <<stage, hooked>>
  BY <1>1, <1>2, WindowEventsKeep
<1>3. CASE /\ Valid("Stopping") /\ stage # "Stopping" /\ Enter("Stopping")
           /\ events' = Append(Tail(events), [kind |-> "stopping"])
  <2>1. events \in Seq(EngineEvent) /\ FinishOf(events, hook.phase)
        /\ AtMostOne(events, "finish") /\ AtMostOne(events, "stopping")
    BY DEF LoopInv, EventsInv
  <2>2. /\ Tail(events) \in Seq(EngineEvent) /\ FinishOf(Tail(events), hook.phase)
        /\ \A kind \in {"finish", "stopping"} :
             (Sent(Tail(events), kind) <=> Sent(events, kind)) /\ AtMostOne(Tail(events), kind)
    BY <1>1, <2>1, SentTaken
  <2>3. QED  BY <1>1, <1>3, <2>2, StopKeeps
<1>4. QED  BY <1>1, <1>2, <1>3 DEF StopFromLoop

\* The phase whose end is announced is the one under way: its hook has run,
\* and the stage moves on.
LEMMA FinishKeeps ==
  ASSUME LoopInv, FinishPhase
  PROVE  Keeps
<1> DEFINE phase == Head(events).phase
<1>1. /\ events # <<>> /\ Head(events).kind = "finish" /\ hook.at = "done"
      /\ events' = Tail(events) /\ background' = NoPhase /\ hook' = NoHook
      /\ IF Valid(Target[phase]) THEN Enter(Target[phase]) ELSE UNCHANGED <<stage, hooked>>
  BY DEF FinishPhase, Take
<1>2. /\ events' \in Seq(EngineEvent) /\ ~Sent(events', "finish")
      /\ Sent(events', "stopping") <=> Sent(events, "stopping")
      /\ AtMostOne(events', "finish") /\ AtMostOne(events', "stopping")
      /\ phase = hook.phase
  BY <1>1, SentTaken DEF LoopInv, EventsInv
<1>3. hooked /\ background = phase /\ phase \in Phases /\ background # NoPhase
  BY <1>1, <1>2 DEF LoopInv, HookInv
<1> HIDE DEF phase
<1>4. \/ phase = "init" /\ stage = "Init" /\ Target[phase] = "Running"
      \/ phase = "terminate" /\ stage = "Stopping" /\ Target[phase] = "Stopped"
  BY <1>3 DEF LoopInv, StageInv, Phases, Target
<1>5. <<stage, Target[phase]>> \in Lifecycle!Edges /\ stage # Target[phase]
  BY <1>4 DEF Lifecycle!Edges
<1>6. stage' = Target[phase] /\ hooked' = FALSE
  BY <1>1, <1>5 DEF Valid, Enter
<1>7. HookInv'
  BY <1>1, <1>6 DEF HookInv, NoHook
<1>8. StageInv'
  BY <1>1, <1>4, <1>6 DEF StageInv
<1>9. EventsInv'
  <2>1. ~Sent(events, "stopping")
    BY <1>3 DEF LoopInv, EventsInv
  <2>2. stage' # "Stopping"
    BY <1>4, <1>6
  <2>3. FinishOf(events', hook'.phase)
    BY <1>2 DEF FinishOf, Sent
  <2>4. hook'.at = "none"
    BY <1>1 DEF NoHook
  <2>5. QED  BY <1>2, <2>1, <2>2, <2>3, <2>4 DEF EventsInv
<1>10. Lifecycle!Transition
  BY <1>3, <1>5, <1>6 DEF Lifecycle!Transition
<1>11. QED  BY <1>7, <1>8, <1>9, <1>10 DEF Keeps, LoopInv, Lifecycle!Next

\* A phase is started when none is under way.
LEMMA SpawnKeeps ==
  ASSUME LoopInv, NEW phase \in Phases, SpawnPhase(phase), background = NoPhase, UNCHANGED <<stage, hooked>>,
         IF phase = "init" THEN stage = "Init" /\ UNCHANGED events
         ELSE events # <<>> /\ Head(events).kind = "stopping" /\ events' = Tail(events)
  PROVE  Keeps
<1>1. hook' = [phase |-> phase, at |-> "hook", made |-> 0] /\ background' = phase /\ phase # NoPhase
  BY WinitDriverAssumption DEF SpawnPhase, Phases
<1>2. ~hooked /\ hook.at = "none"
  BY DEF LoopInv, HookInv
<1>3. HookInv'
  <2>1. hooked' \in BOOLEAN /\ ~hooked'
    BY <1>2 DEF LoopInv, HookInv
  <2>2. /\ hook'.phase = phase /\ hook'.at = "hook" /\ hook'.made = 0
        /\ hook' = [phase |-> hook'.phase, at |-> hook'.at, made |-> hook'.made]
    BY <1>1
  <2>3. QED  BY <1>1, <2>1, <2>2 DEF HookInv
<1>4. ~Sent(events, "finish")
  BY <1>2 DEF LoopInv, EventsInv
<1>5. CASE phase = "init"
  <2>1. FinishOf(events, phase)
    BY <1>4 DEF FinishOf, Sent
  <2>2. EventsInv' /\ StageInv'
    BY <1>1, <1>4, <1>5, <2>1 DEF LoopInv, EventsInv, StageInv
  <2>3. QED  BY <1>3, <2>2 DEF Keeps, LoopInv
<1>6. CASE phase = "terminate"
  <2>1. /\ events' \in Seq(EngineEvent) /\ Sent(events, "stopping")
        /\ Sent(events', "finish") <=> Sent(events, "finish")
        /\ ~Sent(events', "stopping")
        /\ AtMostOne(events', "finish") /\ AtMostOne(events', "stopping")
    <3>1. /\ events \in Seq(EngineEvent) /\ events # <<>> /\ Head(events).kind = "stopping"
          /\ events' = Tail(events)
          /\ AtMostOne(events, "finish") /\ AtMostOne(events, "stopping")
      BY <1>6 DEF LoopInv, EventsInv
    <3>2. QED  BY <3>1, SentTaken
  <2>2. stage = "Stopping"
    BY <2>1 DEF LoopInv, EventsInv
  <2>3. FinishOf(events', phase)
    BY <1>4, <2>1 DEF FinishOf, Sent
  <2>4. EventsInv' /\ StageInv'
    BY <1>1, <1>4, <1>6, <2>1, <2>2, <2>3 DEF EventsInv, StageInv
  <2>5. QED  BY <1>3, <2>4 DEF Keeps, LoopInv
<1>7. QED  BY <1>5, <1>6 DEF Phases

\* The background thread: it may ask for windows and wait for them; then its
\* hook has run, and it says so.
LEMMA HookThreadKeeps ==
  ASSUME LoopInv, HookThread
  PROVE  Keeps
<1>0. /\ hook = [phase |-> hook.phase, at |-> hook.at, made |-> hook.made] /\ hook.made \in Nat
      /\ background = hook.phase
  BY DEF LoopInv, HookInv
<1>1. CASE HookStep
  <2>1. hook.at = "hook" /\ UNCHANGED <<stage, background>> /\ ~hooked
        /\ hook.phase \in Phases /\ background # NoPhase
    BY <1>1 DEF HookStep, LoopInv, HookInv
  <2>2. ASSUME NEW w \in Windows, RequestWindow(w), UNCHANGED <<hook, hooked>>
        PROVE  Keeps
    <3>1. /\ [kind |-> "create", window |-> w] \in EngineEvent
          /\ [kind |-> "create", window |-> w].kind = "create"
      BY DEF EngineEvent
    <3>2. events' = Append(events, [kind |-> "create", window |-> w])
      BY <2>2 DEF RequestWindow, Send
    <3>3. QED  BY <2>1, <2>2, <3>1, <3>2, WindowEventsKeep
  <2>3. CASE hook' = [hook EXCEPT !.made = @ + 1] /\ UNCHANGED <<events, hooked>>
    <3>1. hook'.phase = hook.phase /\ hook'.at = hook.at /\ hook'.made \in Nat
          /\ hook' = [phase |-> hook'.phase, at |-> hook'.at, made |-> hook'.made]
      BY <1>0, <2>3
    <3>2. HookInv' /\ EventsInv' /\ StageInv'
      BY <2>1, <2>3, <3>1 DEF LoopInv, HookInv, EventsInv, StageInv
    <3>3. QED  BY <2>1, <2>3, <3>2 DEF Keeps, LoopInv
  <2>4. CASE hook' = [hook EXCEPT !.at = "guard"] /\ hooked' = (hooked \/ hook.phase # "suspend")
             /\ UNCHANGED events
    <3>1. hook'.phase = hook.phase /\ hook'.at = "guard" /\ hook'.made \in Nat
          /\ hook' = [phase |-> hook'.phase, at |-> hook'.at, made |-> hook'.made]
      BY <1>0, <2>4
    <3>2. hooked' = TRUE
      BY <2>1, <2>4 DEF Phases
    <3>3. HookInv' /\ EventsInv' /\ StageInv'
      BY <2>1, <2>4, <3>1, <3>2 DEF LoopInv, HookInv, EventsInv, StageInv
    <3>4. stage \in {"Init", "Stopping"}
      BY <2>1 DEF LoopInv, StageInv
    <3>5. Lifecycle!Hook
      BY <2>1, <3>2, <3>4 DEF Lifecycle!Hook, Lifecycle!HookStages
    <3>6. QED  BY <3>3, <3>5 DEF Keeps, LoopInv, Lifecycle!Next
  <2>5. CASE hook.phase = "init" /\ hook.made < Len(InitWindows)
    <3>1. hook.made + 1 \in 1..Len(InitWindows)
      BY <1>0, <2>5, WinitDriverAssumption
    <3>2. InitWindows[hook.made + 1] \in Windows
      BY <3>1, WinitDriverAssumption
    <3>3. QED  BY <1>1, <2>2, <2>3, <2>5, <3>2 DEF HookStep
  <2>6. QED  BY <1>1, <2>4, <2>5 DEF HookStep
<1>2. CASE DropSender
  <2> DEFINE e == Phase(hook.phase)
  <2>1. /\ hook.at = "guard" /\ UNCHANGED <<stage, hooked, background>>
        /\ hook' = [hook EXCEPT !.at = "done"] /\ events' = Append(events, e)
    BY <1>2 DEF DropSender, Send
  <2>2. hook'.phase = hook.phase /\ hook'.at = "done" /\ hook'.made = hook.made
        /\ hook' = [phase |-> hook'.phase, at |-> hook'.at, made |-> hook'.made]
    BY <1>0, <2>1
  <2>3. HookInv' /\ StageInv'
    BY <2>1, <2>2 DEF LoopInv, HookInv, StageInv
  <2>4. e \in EngineEvent /\ e.kind = "finish" /\ e.phase = hook.phase
    BY <2>1 DEF LoopInv, HookInv, Phase, EngineEvent
  <2> HIDE DEF e
  <2>5. ~Sent(events, "finish")
    BY <2>1 DEF LoopInv, EventsInv
  <2>6. /\ events' \in Seq(EngineEvent) /\ Sent(events', "finish")
        /\ Sent(events', "stopping") <=> Sent(events, "stopping")
        /\ AtMostOne(events', "finish") /\ AtMostOne(events', "stopping")
        /\ FinishOf(events', hook.phase)
    BY <2>1, <2>4, <2>5, SentAppended DEF LoopInv, EventsInv
  <2>7. EventsInv'
    BY <2>1, <2>2, <2>6 DEF LoopInv, EventsInv
  <2>8. QED  BY <2>1, <2>3, <2>7 DEF Keeps, LoopInv
<1>3. QED  BY <1>1, <1>2 DEF HookThread

LEMMA LoopStepKeeps ==
  ASSUME Desktop, LoopInv, [Next]_vars
  PROVE  Keeps
<1> USE DEF appVars, loopVars, windowVars
<1>1. CASE Resumed
  <2>1. CASE stage = "Init" /\ background = NoPhase
    BY <1>1, <2>1, SpawnKeeps DEF Resumed, Phases
  <2>2. QED  BY <1>1, <2>1, WindowEventsKeep DEF Resumed
<1>2. CASE Suspended
  BY <1>2 DEF Suspended, Desktop
<1>3. CASE Stopping
  <2>1. background = NoPhase
    <3>1. Sent(events, "stopping")
      BY <1>3, SentTaken DEF Stopping, Take, LoopInv, EventsInv
    <3>2. QED  BY <3>1 DEF LoopInv, EventsInv
  <2>2. QED  BY <1>3, <2>1, SpawnKeeps DEF Stopping, Take, Phases
<1>4. CASE UserEvent
  BY <1>3, <1>4, CreateKeeps, ClosingKeeps, FinishKeeps DEF UserEvent
<1>5. CASE HookThread
  BY <1>5, HookThreadKeeps
<1>6. CASE AppStops
  BY <1>6, StopKeeps DEF AppStops, Send, LoopInv, EventsInv
<1>7. ASSUME NEW w \in Windows, AppCreates(w) \/ CloseWindow(w)
      PROVE  Keeps
  <2>1. /\ [kind |-> "create", window |-> w] \in EngineEvent
        /\ [kind |-> "closing", window |-> w] \in EngineEvent
        /\ [kind |-> "create", window |-> w].kind = "create"
        /\ [kind |-> "closing", window |-> w].kind = "closing"
    BY DEF EngineEvent
  <2>2. QED  BY <1>7, <2>1, WindowEventsKeep DEF AppCreates, RequestWindow, CloseWindow, Send
<1>8. ASSUME NEW w \in Windows,
             \/ Render(w) \/ Request(w) \/ EndTick(w)
             \/ \E event \in WindowEvents : WindowEvent(w, event)
             \/ \E request \in {"Show", "Hide", "CloseRequested"} : AppAsks(w, request)
      PROVE  Keeps
  BY <1>8, WindowEventsKeep DEF Render, Request, EndTick, WindowEvent, AppAsks
<1>9. CASE Rest \/ UNCHANGED vars
  BY <1>9, WindowEventsKeep DEF Rest, vars
<1>10. QED
  BY <1>1, <1>2, <1>4, <1>5, <1>6, <1>7, <1>8, <1>9 DEF Next, WindowThread

\* On a desktop each hook of the application runs once in its stage, on a
\* thread of its own, before the event loop advances the stage, although
\* windows, other threads and the loop itself may stop the engine meanwhile
\* (winit.rs, WindowOrchestrator; app/driver.rs:32-52).
THEOREM DesktopDrivesApplication == Spec => DesktopImplementsLifecycle
<1>1. Init => DesktopInv /\ Promised!Init
  <2> SUFFICES ASSUME Init PROVE DesktopInv /\ Promised!Init
    OBVIOUS
  <2>1. LoopInv
    <3>1. HookInv
      BY DEF Init, HookInv, NoHook
    <3>2. events = <<>> /\ hook.at = "none" /\ background = NoPhase /\ stage = "Init"
      BY DEF Init, NoHook
    <3>3. EventsInv /\ StageInv
      BY <3>2 DEF EventsInv, StageInv, Sent, AtMostOne, FinishOf
    <3>4. QED  BY <3>1, <3>3 DEF LoopInv
  <2>2. QED  BY <2>1 DEF Init, DesktopInv, Promised!Init
<1>2. DesktopInv /\ [Next]_vars
        => /\ DesktopInv'
           /\ [Promised!Next]_<<IF Desktop THEN stage ELSE "Init", Desktop /\ hooked>>
  <2> SUFFICES ASSUME DesktopInv, [Next]_vars
               PROVE  /\ DesktopInv'
                      /\ [Promised!Next]_<<IF Desktop THEN stage ELSE "Init", Desktop /\ hooked>>
    OBVIOUS
  <2>1. platform' = platform
    BY DEF Next, vars, appVars, loopVars, windowVars, Resumed, Suspended, UserEvent, CreateWindow,
       ClosingWindow, FinishPhase, Stopping, HookThread, HookStep, DropSender, AppStops, AppCreates,
       WindowThread, Render, Request, EndTick, CloseWindow, WindowEvent, AppAsks, Rest
  <2>2. CASE ~Desktop
    BY <2>1, <2>2 DEF DesktopInv, Desktop
  <2>3. CASE Desktop
    <3>1. LoopInv' /\ [Lifecycle!Next]_<<stage, hooked>>
      BY <2>3, LoopStepKeeps DEF DesktopInv, Keeps
    <3>2. Desktop /\ Desktop'
      BY <2>1, <2>3 DEF Desktop
    <3>3. [Promised!Next]_<<IF Desktop THEN stage ELSE "Init", Desktop /\ hooked>>
      BY <3>1, <3>2 DEF Lifecycle!Next, Lifecycle!Hook, Lifecycle!Transition,
         Lifecycle!HookStages, Lifecycle!Edges, Promised!Next, Promised!Hook, Promised!Transition,
         Promised!HookStages, Promised!Edges
    <3>4. QED  BY <3>1, <3>3 DEF DesktopInv
  <2>4. QED  BY <2>2, <2>3
<1>3. QED  BY <1>1, <1>2, PTL DEF Spec, DesktopImplementsLifecycle, Promised!Spec

-----------------------------------------------------------------------------
(* The console.  A lock is taken and given back some steps after the       *)
(* console is shown or hidden; LockInv says what holds in between, and     *)
(* that the field can neither take the console's place at the top nor its  *)
(* entry among the locks.                                                  *)

GuiLock == [id |-> gui, priority |-> 100]
FieldLock == [id |-> field, priority |-> 50]

\* While the console's thread is about to see to the lock, the guard is that
\* of the other visibility.  The top of the locks is the console's if it has
\* one.
LockInv ==
  /\ visible \in BOOLEAN /\ guarded \in BOOLEAN
  /\ handling = [step |-> handling.step, event |-> handling.event]
  /\ gui \in alive /\ gui \in senders
  /\ locks \subseteq {GuiLock, FieldLock}
  /\ GuiLock \in locks <=> guarded
  /\ top = IF GuiLock \in locks THEN gui ELSE IF FieldLock \in locks THEN field ELSE NoEvent
  /\ At("lock") => (visible <=> ~guarded)
  /\ ~At("lock") => (visible <=> guarded)

-----------------------------------------------------------------------------

\* The two locks are different ones, of different priorities.
LEMMA LocksDiffer == GuiLock # FieldLock /\ GuiLock.id # FieldLock.id
BY ConsoleAssumption DEF GuiLock, FieldLock

\* The window's thread leaves the locks alone, and a delegate that lives is
\* not forgotten.
LEMMA WindowKeeps ==
  ASSUME LockInv, Key \/ SendNext \/ Stale
  PROVE  LockInv'
<1>1. /\ UNCHANGED <<visible, guarded, handling, alive, locks, top>>
      /\ senders' = senders \/ \E gone : senders' = senders \ {d \in gone : d \notin alive}
  <2>1. CASE Key
    BY <2>1 DEF Key, SetState, consoleVars
  <2>2. CASE SendNext
    <3>1. UNCHANGED <<visible, guarded, handling, alive, locks, top>>
      BY <2>2 DEF SendNext, SendEvent, consoleVars
    <3>2. senders' = senders \ {d \in Delegates : Receives(d) /\ d \notin alive}
      BY <2>2 DEF SendNext, SendEvent
    <3>3. senders' = senders \ {d \in {e \in Delegates : Receives(e)} : d \notin alive}
      BY <3>2
    <3>4. QED  BY <3>1, <3>3
  <2>3. CASE Stale
    BY <2>3 DEF Stale, inputVars
  <2>4. QED  BY <2>1, <2>2, <2>3
<1>2. gui \in senders'
  BY <1>1 DEF LockInv
<1>3. QED  BY <1>1, <1>2 DEF LockInv, At

\* The console's thread: what it shows it locks, what it hides it unlocks.
LEMMA GuiKeeps ==
  ASSUME LockInv, GuiStep
  PROVE  LockInv'
<1> USE ConsoleAssumption
<1>1. CASE GuiReceive
  BY <1>1 DEF GuiReceive, Receive, LockInv, At
<1>2. CASE Toggle
  BY <1>2 DEF Toggle, Step, LockInv, At, inputVars
<1>3. CASE TakeLock
  <2>1. /\ At("lock") /\ handling' = [step |-> "idle", event |-> NoEvent]
        /\ visible' = visible /\ guarded' = visible
    BY <1>3 DEF TakeLock, Done
  <2>2. CASE visible
    <3>1. /\ locks' = locks \cup {GuiLock} /\ UNCHANGED <<senders, alive>>
          /\ top' = IF \A l \in locks : l.priority < 100 THEN gui ELSE top
      BY <1>3, <2>2 DEF TakeLock, Lock, GuiLock
    <3>2. GuiLock \notin locks
      BY <2>1, <2>2 DEF LockInv
    <3>3. \A l \in locks : l.priority < 100
      BY <3>2 DEF LockInv, FieldLock
    <3>4. QED  BY <2>1, <2>2, <3>1, <3>3 DEF LockInv, At
  <2>3. CASE ~visible
    <3>1. guarded /\ GuiLock \in locks
      BY <2>1, <2>3 DEF LockInv
    <3>2. Unlock(gui)
      BY <1>3, <2>3, <3>1 DEF TakeLock
    <3>3. locks' = locks \ {GuiLock}
      BY <3>2, LocksDiffer DEF Unlock, LockInv, GuiLock, FieldLock
    <3>4. top' = IF FieldLock \in locks' THEN field ELSE NoEvent
      BY <3>2, <3>3 DEF Unlock, LockInv, FieldLock
    <3>5. UNCHANGED <<senders, alive>>
      BY <3>2 DEF Unlock
    <3>6. QED  BY <2>1, <2>3, <3>3, <3>4, <3>5, LocksDiffer DEF LockInv, At
  <2>4. QED  BY <2>2, <2>3
<1>4. CASE Submit \/ Edit
  <2>1. /\ At("decide") /\ handling' = [step |-> "idle", event |-> NoEvent]
        /\ UNCHANGED <<inputVars, visible, guarded>>
    BY <1>4 DEF Submit, Edit, Done
  <2>2. QED  BY <2>1 DEF LockInv, At, inputVars
<1>5. QED  BY <1>1, <1>2, <1>3, <1>4 DEF GuiStep

\* The field's thread moves its own lock, which is never above the console's.
LEMMA FieldKeeps ==
  ASSUME LockInv, BoxStep
  PROVE  LockInv'
<1> USE ConsoleAssumption, LocksDiffer
<1>1. ASSUME UNCHANGED <<visible, guarded, handling, senders, locks, top>>, gui \in alive'
      PROVE  LockInv'
  BY <1>1 DEF LockInv, At
<1>2. ASSUME Unlock(field), UNCHANGED <<visible, guarded, handling>>
      PROVE  LockInv'
  <2>1. locks' = locks \ {FieldLock} /\ UNCHANGED <<senders, alive>>
    BY <1>2 DEF Unlock, LockInv, GuiLock, FieldLock
  <2>2. top' = IF GuiLock \in locks' THEN gui ELSE NoEvent
    BY <1>2, <2>1 DEF Unlock, LockInv, GuiLock
  <2>3. QED  BY <1>2, <2>1, <2>2 DEF LockInv, At
<1>3. CASE BoxHandle
  BY <1>1, <1>3 DEF BoxHandle, Receive, consoleVars, LockInv
<1>4. CASE BoxFocus
  <2>1. UNCHANGED <<visible, guarded, handling>>
    BY <1>4 DEF BoxFocus, consoleVars
  <2>2. CASE Focused
    BY <1>2, <1>4, <2>1, <2>2 DEF BoxFocus
  <2>3. CASE ~Focused
    <3>1. FieldLock \notin locks
      BY <2>3 DEF Focused, FieldLock
    <3>2. /\ locks' = locks \cup {FieldLock} /\ UNCHANGED <<senders, alive>>
          /\ top' = IF \A l \in locks : l.priority < 50 THEN field ELSE top
      BY <1>4, <2>3 DEF BoxFocus, Lock, FieldLock
    <3>3. GuiLock \in locks => ~(\A l \in locks : l.priority < 50)
      BY DEF GuiLock
    <3>4. GuiLock \notin locks => locks = {}
      BY <3>1 DEF LockInv
    <3>5. top' = IF GuiLock \in locks THEN gui ELSE field
      BY <3>2, <3>3, <3>4 DEF LockInv
    <3>6. QED  BY <2>1, <3>2, <3>5 DEF LockInv, At
  <2>4. QED  BY <2>2, <2>3
<1>5. CASE ExitLoop
  BY <1>1, <1>5 DEF ExitLoop, DropDelegate, consoleVars, LockInv
<1>6. CASE DropGuard
  <2>1. CASE Unlock(field)
    BY <1>2, <1>6, <2>1 DEF DropGuard, consoleVars
  <2>2. CASE UNCHANGED inputVars
    BY <1>1, <1>6, <2>2 DEF DropGuard, consoleVars, inputVars, LockInv
  <2>3. QED  BY <1>6, <2>1, <2>2 DEF DropGuard
<1>7. QED  BY <1>3, <1>4, <1>5, <1>6 DEF BoxStep

LEMMA LockStep ==
  ASSUME LockInv, [ConsoleNext]_screenVars
  PROVE  LockInv'
<1>1. CASE Register \/ WorkerStep \/ AskToExit \/ ConsoleRest \/ UNCHANGED screenVars
  <2>1. UNCHANGED <<visible, guarded, handling, alive, senders, locks, top>>
    BY <1>1 DEF Register, WorkerStep, BeginCommand, EndCommand, AskToExit, ConsoleRest, screenVars, consoleVars, inputVars
  <2>2. QED  BY <2>1 DEF LockInv, At
<1>2. QED  BY <1>1, WindowKeeps, GuiKeeps, FieldKeeps DEF ConsoleNext

\* Between two events of its thread the console is shown, holds a guard, is
\* locked and on top of the locks, and nobody else sees a key, or it is none
\* of these (gui.rs:373-392, input.rs:406-431).
THEOREM ShownIffLocked == ConsoleSpec => []ShownMeansLocked
<1>1. ConsoleInit => LockInv
  <2> SUFFICES ASSUME ConsoleInit PROVE LockInv
    OBVIOUS
  <2>1. /\ visible = FALSE /\ guarded = FALSE /\ locks = {} /\ top = NoEvent
        /\ handling = [step |-> "idle", event |-> NoEvent]
        /\ alive = Delegates /\ senders = Delegates
    BY DEF ConsoleInit, InputInit
  <2>2. QED  BY <2>1, ConsoleAssumption DEF LockInv, At
<1>2. LockInv /\ [ConsoleNext]_screenVars => LockInv'
  BY LockStep
<1>3. LockInv => ShownMeansLocked
  <2> SUFFICES ASSUME LockInv, At("idle") PROVE ShownMeansLocked
    BY DEF ShownMeansLocked
  <2>1. visible <=> guarded
    BY DEF LockInv, At
  <2>2. visible <=> \E l \in locks : l.id = gui
    BY <2>1, ConsoleAssumption DEF LockInv, GuiLock, FieldLock
  <2>3. visible <=> top = gui
    BY <2>1, ConsoleAssumption DEF LockInv
  <2>4. ASSUME visible, NEW code \in KeyCodes
        PROVE  StateSees(code) = NoEvent /\ DelegateSees(field, code) = NoEvent
    <3>1. locks # {} /\ top # field
      BY <2>2, <2>3, <2>4, ConsoleAssumption
    <3>2. QED  BY <3>1 DEF StateSees, DelegateSees, HasPriority
  <2>5. QED  BY <2>1, <2>2, <2>3, <2>4 DEF ShownMeansLocked
<1>4. QED  BY <1>1, <1>2, <1>3, PTL DEF ConsoleSpec
-----------------------------------------------------------------------------
(* The Reversi example: what clients see of the board.                      *)

\* The fields of a board.
BoardFields == {"version", "owner", "players", "current", "turn_no", "moves", "score", "game"}

BoardShape(b) == DOMAIN b = BoardFields /\ b.version \in Nat

\* Whatever changes the board makes its version higher.
LEMMA VersionsGrow ==
  ASSUME NEW b, BoardShape(b)
  PROVE  /\ \A players : BoardShape(SetPlayers(b, players)) /\ SetPlayers(b, players).version > b.version
         /\ \A pos : ValidSelection(b, pos) => BoardShape(Moved(b, pos)) /\ Moved(b, pos).version > b.version
<1> USE DEF BoardShape, BoardFields
<1>1. ASSUME NEW players
      PROVE  BoardShape(SetPlayers(b, players)) /\ SetPlayers(b, players).version > b.version
  BY DEF SetPlayers
<1>2. ASSUME NEW pos, ValidSelection(b, pos)
      PROVE  BoardShape(Place(b, pos)) /\ Place(b, pos).version > b.version
  <2>1. ASSUME NEW owners
        PROVE  LET c == [b EXCEPT !.owner = owners, !.version = @ + 1]
               IN BoardShape(c) /\ c.version > b.version
    OBVIOUS
  <2> QED
    BY <1>2, <2>1 DEF Place, Set
<1>3. ASSUME NEW c, BoardShape(c)
      PROVE  BoardShape(EndTurn(c)) /\ EndTurn(c).version > c.version
  <2> DEFINE turned == [c EXCEPT !.current = (@ + 1) % Len(c.players), !.turn_no = @ + 1]
             next   == UpdateCaches(turned)
  <2>1. BoardShape(turned) /\ turned.version = c.version
    BY <1>3
  <2> HIDE DEF turned
  <2>2. BoardShape(next) /\ next.version = c.version
    BY <2>1 DEF UpdateCaches
  <2> HIDE DEF next
  <2>3. BoardShape(EndGame(next)) /\ EndGame(next).version > c.version
    BY <2>2 DEF EndGame
  <2>4. BoardShape([next EXCEPT !.version = @ + 1]) /\ [next EXCEPT !.version = @ + 1].version > c.version
    BY <2>2
  <2>5. EndTurn(c) = IF next.moves = <<>> THEN EndGame(next) ELSE [next EXCEPT !.version = @ + 1]
    BY DEF EndTurn, next, turned
  <2> QED
    BY <2>3, <2>4, <2>5
<1>4. ASSUME NEW pos, ValidSelection(b, pos)
      PROVE  BoardShape(Moved(b, pos)) /\ Moved(b, pos).version > b.version
  <2>1. BoardShape(Place(b, pos)) /\ Place(b, pos).version > b.version
    BY <1>2, <1>4
  <2>2. BoardShape(EndTurn(Place(b, pos))) /\ EndTurn(Place(b, pos)).version > Place(b, pos).version
    BY <2>1, <1>3
  <2>3. Place(b, pos).version \in Nat /\ EndTurn(Place(b, pos)).version \in Nat /\ b.version \in Nat
    BY <2>1, <2>2
  <2> HIDE DEF BoardShape
  <2> QED
    BY <2>1, <2>2, <2>3 DEF Moved
<1> QED
  BY <1>1, <1>4

-----------------------------------------------------------------------------
(* A client has what the board is now on its screen, or on its way to it:  *)
(* an update that it passes over is not newer than what it shows.           *)

ClientFields == {"pc", "view", "selected", "seat", "kept"}

Members(q) == {q[i] : i \in DOMAIN q}

IsSeq(q) == q \in Seq(Members(q))

\* The boards that come to client k, with q on its way to it.
Updates(k, q) == Members(k.kept) \cup {m.board : m \in {m \in Members(q) : m.kind = "Update"}}

Replies(q) == {m \in Members(q) : m.kind = "Reply"}

NotAhead(x, b) == x.version \in Nat /\ x.version <= b.version /\ (x.version = b.version => x = b)

\* What client k, with q on its way to it, knows of board b.
SeesLatest(k, q, b) ==
  /\ DOMAIN k = ClientFields /\ IsSeq(q) /\ IsSeq(k.kept)
  /\ \A x \in Updates(k, q) : NotAhead(x, b)
  /\ \A r \in Replies(q) : /\ NotAhead(r.board, b)
                           /\ k.pc = "Connecting" => r.board = b \/ b \in Updates(k, q)
  /\ k.pc \in {"Opening", "Open"} => NotAhead(k.view, b) /\ (k.view = b \/ b \in Updates(k, q))
  /\ k.pc = "New" => q = <<>>

ViewInv ==
  /\ BoardShape(board)
  /\ DOMAIN client = Clients /\ DOMAIN down = Clients
  /\ \A c \in Clients : SeesLatest(client[c], down[c], board)

LEMMA SeqMembers ==
  ASSUME NEW q, IsSeq(q)
  PROVE  /\ \A x : IsSeq(Append(q, x)) /\ Members(Append(q, x)) = Members(q) \cup {x}
         /\ q # <<>> => IsSeq(Tail(q)) /\ Members(q) = Members(Tail(q)) \cup {Head(q)}
<1>1. ASSUME NEW x
      PROVE  IsSeq(Append(q, x)) /\ Members(Append(q, x)) = Members(q) \cup {x}
  <2> DEFINE S == Members(q) \cup {x}
             n == Len(q)
             p == Append(q, x)
  <2>1. q \in Seq(S)
    <3>1. q \in Seq(Members(q))
      BY DEF IsSeq
    <3> QED
      BY <3>1
  <2> HIDE DEF S
  <2>2. x \in S
    BY DEF S
  <2>3. n \in Nat /\ DOMAIN q = 1 .. n /\ DOMAIN p = 1 .. n + 1 /\ p \in Seq(S)
    BY <2>1, <2>2
  <2>4. (\A i \in 1 .. n : p[i] = q[i]) /\ p[n + 1] = x
    BY <2>1, <2>2
  <2> HIDE DEF p, n
  <2>5. Members(p) = S
    BY <2>3, <2>4 DEF Members, S
  <2> QED
    BY <2>3, <2>5 DEF IsSeq, p, S
<1>2. ASSUME q # <<>>
      PROVE  IsSeq(Tail(q)) /\ Members(q) = Members(Tail(q)) \cup {Head(q)}
  <2> DEFINE S == Members(q)
             n == Len(q)
             p == Tail(q)
  <2>1. q \in Seq(S)
    BY DEF IsSeq
  <2> HIDE DEF S
  <2>2. n \in Nat \ {0} /\ DOMAIN q = 1 .. n /\ DOMAIN p = 1 .. n - 1 /\ p \in Seq(S)
    BY <1>2, <2>1
  <2>3. (\A i \in 1 .. n - 1 : p[i] = q[i + 1]) /\ Head(q) = q[1]
    BY <1>2, <2>1
  <2> HIDE DEF p, n
  <2>4. p \in Seq(Members(p))
    <3>1. \A i \in DOMAIN p : p[i] \in Members(p)
      BY DEF Members
    <3> QED
      BY <2>2, <3>1
  <2>5. Members(q) = Members(p) \cup {Head(q)}
    <3>1. ASSUME NEW i \in 1 .. n
          PROVE  q[i] \in Members(p) \cup {Head(q)}
      <4>1. CASE i = 1
        BY <4>1, <2>3
      <4>2. CASE i # 1
        <5>1. i - 1 \in 1 .. n - 1 /\ q[i] = p[i - 1]
          BY <2>2, <2>3, <4>2
        <5> QED
          BY <5>1, <2>2 DEF Members
      <4> QED
        BY <4>1, <4>2
    <3>2. ASSUME NEW i \in 1 .. n - 1
          PROVE  p[i] \in Members(q)
      BY <2>2, <2>3 DEF Members
    <3>3. Head(q) \in Members(q)
      BY <2>2, <2>3 DEF Members
    <3> QED
      BY <2>2, <3>1, <3>2, <3>3 DEF Members
  <2> QED
    BY <2>4, <2>5 DEF IsSeq, p
<1> QED
  BY <1>1, <1>2

\* The board changes: those who are connected are told.
LEMMA TellingKeeps ==
  ASSUME NEW k, NEW q, NEW b, SeesLatest(k, q, b), BoardShape(b),
         NEW new, BoardShape(new), new.version > b.version
  PROVE  /\ SeesLatest(k, Append(q, [kind |-> "Update", board |-> new]), new) \/ k.pc \in {"New", "Gone"}
         /\ k.pc \in {"New", "Gone"} => SeesLatest(k, q, new)
<1>1. \A x : NotAhead(x, b) => NotAhead(x, new)
  BY DEF NotAhead, BoardShape
<1>2. NotAhead(new, new)
  BY DEF NotAhead, BoardShape
<1>3. k.pc \in {"New", "Gone"} => SeesLatest(k, q, new)
  BY <1>1 DEF SeesLatest
<1>4. ASSUME k.pc \notin {"New", "Gone"}
      PROVE  SeesLatest(k, Append(q, [kind |-> "Update", board |-> new]), new)
  <2> DEFINE m == [kind |-> "Update", board |-> new]
             p == Append(q, m)
  <2>1. m.kind = "Update" /\ m.board = new
    OBVIOUS
  <2> HIDE DEF m
  <2>2. IsSeq(p) /\ Members(p) = Members(q) \cup {m}
    BY SeqMembers DEF SeesLatest
  <2> HIDE DEF p
  <2>3. Updates(k, p) = Updates(k, q) \cup {new} /\ Replies(p) = Replies(q)
    BY <2>1, <2>2 DEF Updates, Replies
  <2>4. SeesLatest(k, p, new)
    BY <2>2, <2>3, <1>1, <1>2, <1>4 DEF SeesLatest
  <2> QED
    BY <2>4 DEF p, m
<1> QED
  BY <1>3, <1>4

\* The answer to a client that connects has the board as it is now.
LEMMA ReplyingKeeps ==
  ASSUME NEW k, NEW q, NEW b, SeesLatest(k, q, b), BoardShape(b), k.pc # "New", NEW seat
  PROVE  SeesLatest(k, Append(q, [kind |-> "Reply", board |-> b, seat |-> seat]), b)
<1> DEFINE m == [kind |-> "Reply", board |-> b, seat |-> seat]
           p == Append(q, m)
<1>1. m.kind = "Reply" /\ m.board = b
  OBVIOUS
<1> HIDE DEF m
<1>2. IsSeq(p) /\ Members(p) = Members(q) \cup {m}
  BY SeqMembers DEF SeesLatest
<1> HIDE DEF p
<1>3. Updates(k, p) = Updates(k, q) /\ Replies(p) = Replies(q) \cup {m}
  BY <1>1, <1>2 DEF Updates, Replies
<1>4. NotAhead(b, b)
  BY DEF NotAhead, BoardShape
<1>5. SeesLatest(k, p, b)
  BY <1>1, <1>2, <1>3, <1>4 DEF SeesLatest
<1> QED
  BY <1>5 DEF p, m

\* A client takes the first of what has come to it: an update that it keeps,
\* or that it shows if it is newer, or the answer of which its view is made.
LEMMA TakingKeeps ==
  ASSUME NEW k, NEW q, NEW b, SeesLatest(k, q, b), BoardShape(b), q # <<>>
  PROVE  /\ Head(q).kind = "Update" /\ k.pc \in {"Connecting", "Opening"} =>
              SeesLatest([k EXCEPT !.kept = Append(@, Head(q).board)], Tail(q), b)
         /\ Head(q).kind = "Reply" /\ k.pc = "Connecting" =>
              SeesLatest([k EXCEPT !.pc = "Opening", !.view = Head(q).board, !.seat = Head(q).seat], Tail(q), b)
         /\ Head(q).kind = "Update" /\ k.pc = "Open" => SeesLatest(Updated(k, Head(q).board), Tail(q), b)
<1> DEFINE m == Head(q)
           p == Tail(q)
<1>1. IsSeq(p) /\ Members(q) = Members(p) \cup {m}
  BY SeqMembers DEF SeesLatest
<1> HIDE DEF m, p
<1>2. DOMAIN k = ClientFields /\ IsSeq(k.kept) /\ (k.pc # "New" \/ q = <<>>)
  BY DEF SeesLatest
<1>3. CASE m.kind = "Update" /\ k.pc \in {"Connecting", "Opening"}
  <2> DEFINE new == [k EXCEPT !.kept = Append(@, m.board)]
  <2>1. DOMAIN new = ClientFields /\ new.pc = k.pc /\ new.view = k.view /\ new.kept = Append(k.kept, m.board)
    BY <1>2 DEF ClientFields
  <2> HIDE DEF new
  <2>2. IsSeq(new.kept) /\ Members(new.kept) = Members(k.kept) \cup {m.board}
    BY <1>2, <2>1, SeqMembers
  <2>3. Updates(new, p) = Updates(k, q) /\ Replies(p) \subseteq Replies(q)
    BY <1>1, <1>3, <2>2 DEF Updates, Replies
  <2>4. SeesLatest(new, p, b)
    BY <1>1, <1>3, <2>1, <2>2, <2>3 DEF SeesLatest
  <2> QED
    BY <1>3, <2>4 DEF new, m, p
<1>4. CASE m.kind = "Reply" /\ k.pc = "Connecting"
  <2> DEFINE new == [k EXCEPT !.pc = "Opening", !.view = m.board, !.seat = m.seat]
  <2>1. DOMAIN new = ClientFields /\ new.pc = "Opening" /\ new.view = m.board /\ new.kept = k.kept
    BY <1>2 DEF ClientFields
  <2> HIDE DEF new
  <2>2. Updates(new, p) = Updates(k, q) /\ Replies(p) \subseteq Replies(q) /\ m \in Replies(q)
    BY <1>1, <1>4, <2>1 DEF Updates, Replies
  <2>3. SeesLatest(new, p, b)
    BY <1>1, <1>2, <1>4, <2>1, <2>2 DEF SeesLatest
  <2> QED
    BY <1>4, <2>3 DEF new, m, p
<1>5. CASE m.kind = "Update" /\ k.pc = "Open"
  <2> DEFINE new == Updated(k, m.board)
  <2>1. /\ DOMAIN new = ClientFields /\ new.pc = "Open" /\ new.kept = k.kept
        /\ new.view = IF m.board.version <= k.view.version THEN k.view ELSE m.board
    BY <1>2, <1>5 DEF Updated, ClientFields
  <2> HIDE DEF new
  <2>2. /\ Replies(p) \subseteq Replies(q) /\ m.board \in Updates(k, q)
        /\ Updates(k, q) = Updates(new, p) \cup {m.board}
    BY <1>1, <1>5, <2>1 DEF Updates, Replies
  <2>3. /\ NotAhead(k.view, b) /\ NotAhead(m.board, b)
        /\ k.view = b \/ b \in Updates(new, p) \/ m.board = b
    BY <1>5, <2>2 DEF SeesLatest
  <2>4. NotAhead(new.view, b) /\ (new.view = b \/ b \in Updates(new, p))
    BY <2>1, <2>3 DEF NotAhead, BoardShape
  <2>5. SeesLatest(new, p, b)
    BY <1>1, <1>2, <2>1, <2>2, <2>4 DEF SeesLatest
  <2> QED
    BY <1>5, <2>5 DEF new, m, p
<1> QED
  BY <1>3, <1>4, <1>5 DEF m, p

\* An update that was kept is shown too, if it is newer.
LEMMA TakingKeptKeeps ==
  ASSUME NEW k, NEW q, NEW b, SeesLatest(k, q, b), BoardShape(b), k.pc = "Open", k.kept # <<>>
  PROVE  SeesLatest([Updated(k, Head(k.kept)) EXCEPT !.kept = Tail(@)], q, b)
<1> DEFINE x   == Head(k.kept)
           new == [Updated(k, x) EXCEPT !.kept = Tail(@)]
<1>1. DOMAIN k = ClientFields /\ IsSeq(k.kept)
  BY DEF SeesLatest
<1>2. /\ DOMAIN new = ClientFields /\ new.pc = "Open" /\ new.kept = Tail(k.kept)
      /\ new.view = IF x.version <= k.view.version THEN k.view ELSE x
  BY <1>1 DEF Updated, ClientFields
<1>3. IsSeq(new.kept) /\ Members(k.kept) = Members(new.kept) \cup {x}
  BY <1>1, <1>2, SeqMembers
<1> HIDE DEF x, new
<1>4. Updates(k, q) = Updates(new, q) \cup {x}
  BY <1>3 DEF Updates
<1>5. /\ NotAhead(k.view, b) /\ NotAhead(x, b)
      /\ k.view = b \/ b \in Updates(new, q) \/ x = b
  BY <1>4 DEF SeesLatest
<1>6. NotAhead(new.view, b) /\ (new.view = b \/ b \in Updates(new, q))
  BY <1>2, <1>5 DEF NotAhead, BoardShape
<1>7. SeesLatest(new, q, b)
  BY <1>2, <1>3, <1>4, <1>6 DEF SeesLatest
<1> QED
  BY <1>7 DEF new, x

\* The server changes the board only with a higher version, and tells it to
\* those who are connected.
LEMMA ServerTells ==
  ASSUME BoardShape(board), DOMAIN down = Clients, NEW t \in Threads, ServerMoves(t)
  PROVE  /\ UNCHANGED client
         /\ \/ UNCHANGED <<board, down>>
            \/ BoardShape(board') /\ board'.version > board.version /\ Broadcast(board')
            \/ Reply
<1>1. CASE Play(t)
  BY <1>1, VersionsGrow DEF Play
<1>2. CASE AskBot(t) \/ LetGo(t) \/ Answer(t) \/ Think(t)
  BY <1>2 DEF AskBot, LetGo, Answer, Think
<1>3. CASE Reply
  BY <1>3 DEF Reply
<1>4. ASSUME NEW seat, NEW player, NEW name, Replace(seat, player, name)
      PROVE  BoardShape(board') /\ board'.version > board.version /\ Broadcast(board')
  BY <1>4, VersionsGrow DEF Replace
<1>5. ASSUME NEW c \in Clients, PlayerConnect(c)
      PROVE  UNCHANGED client /\ (UNCHANGED <<board, down>> \/ \E seat, player, name : Replace(seat, player, name))
  BY <1>5 DEF PlayerConnect
<1>6. ASSUME NEW c \in Clients, Disconnected(c)
      PROVE  UNCHANGED client /\ (UNCHANGED <<board, down>> \/ \E seat, player, name : Replace(seat, player, name))
  BY <1>6 DEF Disconnected
<1>7. ASSUME NEW c \in Clients, CheckPlay(c)
      PROVE  UNCHANGED <<client, board, down>>
  BY <1>7 DEF CheckPlay
<1> QED
  BY <1>1, <1>2, <1>3, <1>4, <1>5, <1>6, <1>7 DEF ServerMoves

LEMMA ServerKeepsViews ==
  ASSUME ViewInv, NEW t \in Threads, ServerMoves(t)
  PROVE  ViewInv'
<1>1. UNCHANGED client
  BY ServerTells DEF ViewInv
<1>2. CASE UNCHANGED <<board, down>>
  BY <1>1, <1>2 DEF ViewInv
<1>3. CASE BoardShape(board') /\ board'.version > board.version /\ Broadcast(board')
  <2>1. ASSUME NEW c \in Clients
        PROVE  SeesLatest(client[c], down'[c], board')
    <3>1. SeesLatest(client[c], down[c], board)
      BY DEF ViewInv
    <3>2. CASE c \in Connected
      <4>1. down'[c] = Append(down[c], [kind |-> "Update", board |-> board'])
        BY <1>3, <3>2 DEF Broadcast
      <4>2. client[c].pc \notin {"New", "Gone"}
        BY <3>2 DEF Connected
      <4> QED
        BY <1>3, <3>1, <4>1, <4>2, TellingKeeps DEF ViewInv
    <3>3. CASE c \notin Connected
      <4>1. down'[c] = down[c] /\ client[c].pc \in {"New", "Gone"}
        BY <1>3, <3>3 DEF Broadcast, Connected
      <4> QED
        BY <1>3, <3>1, <4>1, TellingKeeps DEF ViewInv
    <3> QED
      BY <3>2, <3>3
  <2>2. DOMAIN down' = Clients
    BY <1>3 DEF Broadcast
  <2> QED
    BY <1>1, <1>3, <2>1, <2>2 DEF ViewInv
<1>4. CASE Reply
  <2> DEFINE c == threads[Net].other
             seat == IF c \in DOMAIN remote THEN remote[c] ELSE Nothing
             m == [kind |-> "Reply", board |-> board, seat |-> seat]
  <2>1. UNCHANGED <<board, client>> /\ down' = IF c \notin Connected THEN down ELSE [down EXCEPT ![c] = Append(@, m)]
    BY <1>4 DEF Reply
  <2> HIDE DEF m
  <2>2. CASE c \notin Connected
    BY <2>1, <2>2 DEF ViewInv
  <2>3. CASE c \in Connected
    <3>1. c \in Clients /\ client[c].pc # "New" /\ SeesLatest(client[c], down[c], board)
      BY <2>3 DEF Connected, ViewInv
    <3>2. SeesLatest(client[c], Append(down[c], m), board)
      BY <3>1, ReplyingKeeps DEF ViewInv, m
    <3> QED
      BY <2>1, <2>3, <3>1, <3>2 DEF ViewInv
  <2> QED
    BY <2>2, <2>3
<1> QED
  BY <1>2, <1>3, <1>4, ServerTells DEF ViewInv

LEMMA ClientKeepsViews ==
  ASSUME ViewInv, NEW c \in Clients, ClientReceives(c) \/ UserMoves(c)
  PROVE  ViewInv'
<1> DEFINE k == client[c]
           q == down[c]
<1>1. SeesLatest(k, q, board) /\ DOMAIN k = ClientFields /\ BoardShape(board)
  BY DEF ViewInv, SeesLatest
<1>2. UNCHANGED board
  BY DEF ClientReceives, UserMoves, OpenView, Keep, EndConnect, Deliver, DeliverKept,
         Connect, Select, Click, Leave, serverVars
<1>3. ASSUME NEW new, NEW p, SeesLatest(new, p, board),
             client' = [client EXCEPT ![c] = new], down' = [down EXCEPT ![c] = p]
      PROVE  ViewInv'
  BY <1>2, <1>3 DEF ViewInv
<1>4. ASSUME NEW new, SeesLatest(new, q, board), client' = [client EXCEPT ![c] = new], UNCHANGED down
      PROVE  ViewInv'
  BY <1>2, <1>4 DEF ViewInv
<1>5. CASE OpenView(c)
  <2>1. SeesLatest([k EXCEPT !.pc = "Opening", !.view = Head(q).board, !.seat = Head(q).seat], Tail(q), board)
    BY <1>1, <1>5, TakingKeeps DEF OpenView
  <2>2. /\ client' = [client EXCEPT ![c] = [k EXCEPT !.pc = "Opening", !.view = Head(q).board, !.seat = Head(q).seat]]
        /\ down' = [down EXCEPT ![c] = Tail(q)]
    BY <1>5 DEF OpenView, ViewInv
  <2> QED
    BY <1>3, <2>1, <2>2
<1>6. CASE Keep(c)
  <2>1. SeesLatest([k EXCEPT !.kept = Append(@, Head(q).board)], Tail(q), board)
    BY <1>1, <1>6, TakingKeeps DEF Keep
  <2>2. /\ client' = [client EXCEPT ![c] = [k EXCEPT !.kept = Append(@, Head(q).board)]]
        /\ down' = [down EXCEPT ![c] = Tail(q)]
    BY <1>6 DEF Keep
  <2> QED
    BY <1>3, <2>1, <2>2
<1>7. CASE Deliver(c)
  <2>1. SeesLatest(Updated(k, Head(q).board), Tail(q), board)
    BY <1>1, <1>7, TakingKeeps DEF Deliver
  <2>2. client' = [client EXCEPT ![c] = Updated(k, Head(q).board)] /\ down' = [down EXCEPT ![c] = Tail(q)]
    BY <1>7 DEF Deliver
  <2> QED
    BY <1>3, <2>1, <2>2
<1>8. CASE DeliverKept(c)
  <2>1. SeesLatest([Updated(k, Head(k.kept)) EXCEPT !.kept = Tail(@)], q, board)
    BY <1>1, <1>8, TakingKeptKeeps DEF DeliverKept
  <2>2. client' = [client EXCEPT ![c] = [Updated(k, Head(k.kept)) EXCEPT !.kept = Tail(@)]] /\ UNCHANGED down
    BY <1>8 DEF DeliverKept
  <2> QED
    BY <1>4, <2>1, <2>2
<1>9. CASE EndConnect(c) \/ Connect(c)
  <2> DEFINE pc == IF k.pc = "New" THEN "Connecting" ELSE "Open"
             new == [k EXCEPT !.pc = pc]
  <2>1. client' = [client EXCEPT ![c] = new] /\ UNCHANGED down /\ k.pc \in {"New", "Opening"}
    BY <1>9 DEF EndConnect, Connect, serverVars
  <2>2. DOMAIN new = ClientFields /\ new.pc = pc /\ new.view = k.view /\ new.kept = k.kept
    BY <1>1 DEF ClientFields
  <2> HIDE DEF new
  <2>3. q = <<>> => Replies(q) = {}
    BY DEF Replies, Members
  <2>4. Updates(new, q) = Updates(k, q)
    BY <2>2 DEF Updates
  <2>5. SeesLatest(new, q, board)
    BY <1>1, <2>1, <2>2, <2>3, <2>4 DEF SeesLatest
  <2> QED
    BY <1>4, <2>1, <2>5
<1>10. CASE Select(c)
  <2>1. PICK x : client' = [client EXCEPT ![c] = [k EXCEPT !.selected = x]]
    BY <1>10 DEF Select
  <2> DEFINE new == [k EXCEPT !.selected = x]
  <2>2. DOMAIN new = ClientFields /\ new.pc = k.pc /\ new.view = k.view /\ new.kept = k.kept
    BY <1>1 DEF ClientFields
  <2> HIDE DEF new
  <2>3. Updates(new, q) = Updates(k, q)
    BY <2>2 DEF Updates
  <2>4. SeesLatest(new, q, board)
    BY <1>1, <2>2, <2>3 DEF SeesLatest
  <2>5. UNCHANGED down
    BY <1>10 DEF Select
  <2> QED
    BY <1>4, <2>1, <2>4, <2>5 DEF new
<1>11. CASE Click(c)
  BY <1>11 DEF Click, serverVars, ViewInv
<1>12. CASE Leave(c)
  <2> DEFINE new == [k EXCEPT !.pc = "Gone", !.view = Nothing, !.selected = Nothing, !.seat = Nothing, !.kept = <<>>]
  <2>1. client' = [client EXCEPT ![c] = new] /\ down' = [down EXCEPT ![c] = <<>>]
    BY <1>12 DEF Leave
  <2>2. DOMAIN new = ClientFields /\ new.pc = "Gone" /\ new.kept = <<>>
    BY <1>1 DEF ClientFields
  <2> HIDE DEF new
  <2>3. Members(<<>>) = {} /\ IsSeq(<<>>)
    BY DEF Members, IsSeq
  <2>4. SeesLatest(new, <<>>, board)
    BY <2>2, <2>3 DEF SeesLatest, Updates, Replies
  <2> QED
    BY <1>3, <2>1, <2>4
<1> QED
  BY <1>5, <1>6, <1>7, <1>8, <1>9, <1>10, <1>11, <1>12 DEF ClientReceives, UserMoves

\* When nothing is on its way to a client, its view shows the board, whatever
\* arrived while the view was being made, and in whatever order.
THEOREM ViewsShowTheBoard == GameSpec => []ViewsCatchUp
<1>1. GameInit => ViewInv
  <2> SUFFICES ASSUME GameInit
               PROVE  ViewInv
    OBVIOUS
  <2>1. BoardShape(board)
    <3>1. DOMAIN NewBoard = BoardFields /\ NewBoard.version = 0
      BY DEF NewBoard, UpdateCaches, BoardFields
    <3> HIDE DEF NewBoard
    <3>2. BoardShape(NewBoard)
      BY <3>1 DEF BoardShape
    <3> QED
      BY <3>2, VersionsGrow DEF GameInit
  <2>2. Members(<<>>) = {} /\ IsSeq(<<>>)
    BY DEF Members, IsSeq
  <2>3. ASSUME NEW c \in Clients
        PROVE  SeesLatest(client[c], down[c], board)
    <3>1. /\ DOMAIN client[c] = ClientFields /\ client[c].pc = "New" /\ client[c].kept = <<>>
          /\ down[c] = <<>>
      BY DEF GameInit, ClientFields
    <3> QED
      BY <2>2, <3>1 DEF SeesLatest, Updates, Replies
  <2> QED
    BY <2>1, <2>3 DEF GameInit, ViewInv
<1>2. ViewInv /\ [GameNext]_gameVars => ViewInv'
  <2> SUFFICES ASSUME ViewInv, [GameNext]_gameVars
               PROVE  ViewInv'
    OBVIOUS
  <2>1. CASE UNCHANGED gameVars
    BY <2>1 DEF gameVars, serverVars, ViewInv
  <2> QED
    BY <2>1, ServerKeepsViews, ClientKeepsViews DEF GameNext
<1>3. ViewInv => ViewsCatchUp
  <2> SUFFICES ASSUME ViewInv, NEW c \in Clients, client[c].pc = "Open", down[c] = <<>>, client[c].kept = <<>>
               PROVE  client[c].view = board
    BY DEF ViewsCatchUp
  <2>1. Updates(client[c], down[c]) = {}
    BY DEF Updates, Members
  <2>2. SeesLatest(client[c], down[c], board)
    BY DEF ViewInv
  <2> QED
    BY <2>1, <2>2 DEF SeesLatest
<1> QED
  BY <1>1, <1>2, <1>3, PTL DEF GameSpec
-----------------------------------------------------------------------------
(* Whose turn it is, and who takes it.                                      *)

\* A set of natural numbers that is not empty has a least element.
LEMMA LeastNumber ==
  ASSUME NEW T \in SUBSET Nat, T # {}
  PROVE  \E n \in T : \A m \in T : n <= m
<1> DEFINE R == OpToRel(<, Nat)
<1>1. PICK n \in T : \A m \in T : ~ (<<m, n>> \in R)
  <2>1. IsWellFoundedOn(R, Nat)
    BY NatLessThanWellFounded
  <2> HIDE DEF R
  <2> QED
    BY <2>1, WFMin
<1>2. \A m, q \in Nat : m < q => <<m, q>> \in R
  BY DEF OpToRel
<1>3. \A m \in T : n <= m
  <2> HIDE DEF R
  <2> SUFFICES ASSUME NEW m \in T
               PROVE  n <= m
    OBVIOUS
  <2>1. ~ (m < n)
    BY <1>1, <1>2
  <2> QED
    BY <2>1
<1> QED
  BY <1>3

\* A board of two players.
TwoPlayers(b) ==
  /\ DOMAIN b = BoardFields /\ b.current \in {0, 1}
  /\ \E x, y : b.players = <<x, y>>

LEMMA TwoPlayersStay ==
  ASSUME NEW b, TwoPlayers(b)
  PROVE  /\ \A pos : /\ TwoPlayers(Moved(b, pos))
                     /\ TwoPlayers(Place(b, pos)) /\ Place(b, pos).current = b.current
         /\ \A seat \in {0, 1} : \A name :
              LET next == SetPlayers(b, [b.players EXCEPT ![seat + 1] = name])
              IN TwoPlayers(next) /\ next.current = b.current /\ next.owner = b.owner /\ next.turn_no = b.turn_no
<1>1. ASSUME NEW pos
      PROVE  TwoPlayers(Place(b, pos)) /\ Place(b, pos).current = b.current
  <2>1. ASSUME NEW owners
        PROVE  LET c == [b EXCEPT !.owner = owners, !.version = @ + 1]
               IN TwoPlayers(c) /\ c.current = b.current
    BY DEF TwoPlayers, BoardFields
  <2> QED
    BY <2>1 DEF Place, Set
<1>2. ASSUME NEW c, TwoPlayers(c)
      PROVE  TwoPlayers(EndTurn(c))
  <2> DEFINE turned == [c EXCEPT !.current = (@ + 1) % Len(c.players), !.turn_no = @ + 1]
             next   == UpdateCaches(turned)
  <2>1. Len(c.players) = 2 /\ c.current \in {0, 1}
    BY <1>2 DEF TwoPlayers
  <2>2. (c.current + 1) % Len(c.players) \in {0, 1}
    BY <2>1
  <2>3. TwoPlayers(turned)
    BY <1>2, <2>2 DEF TwoPlayers, BoardFields
  <2> HIDE DEF turned
  <2>4. TwoPlayers(next)
    BY <2>3 DEF UpdateCaches, TwoPlayers, BoardFields
  <2> HIDE DEF next
  <2>5. TwoPlayers(EndGame(next))
    BY <2>4 DEF EndGame, TwoPlayers, BoardFields
  <2>6. TwoPlayers([next EXCEPT !.version = @ + 1])
    BY <2>4 DEF TwoPlayers, BoardFields
  <2>7. EndTurn(c) = IF next.moves = <<>> THEN EndGame(next) ELSE [next EXCEPT !.version = @ + 1]
    BY DEF EndTurn, next, turned
  <2> QED
    BY <2>5, <2>6, <2>7
<1>3. ASSUME NEW pos
      PROVE  TwoPlayers(Moved(b, pos))
  BY <1>1, <1>2 DEF Moved
<1>4. ASSUME NEW seat \in {0, 1}, NEW name
      PROVE  LET next == SetPlayers(b, [b.players EXCEPT ![seat + 1] = name])
             IN TwoPlayers(next) /\ next.current = b.current /\ next.owner = b.owner /\ next.turn_no = b.turn_no
  <2> DEFINE players == [b.players EXCEPT ![seat + 1] = name]
  <2>1. \E x, y : players = <<x, y>>
    <3>1. PICK x, y : b.players = <<x, y>>
      BY DEF TwoPlayers
    <3>2. players = IF seat = 0 THEN <<name, y>> ELSE <<x, name>>
      BY <3>1
    <3> QED
      BY <3>2
  <2> HIDE DEF players
  <2>2. TwoPlayers(SetPlayers(b, players)) /\ SetPlayers(b, players).current = b.current
    BY <2>1 DEF SetPlayers, TwoPlayers, BoardFields
  <2>3. SetPlayers(b, players).owner = b.owner /\ SetPlayers(b, players).turn_no = b.turn_no
    BY DEF SetPlayers, TwoPlayers, BoardFields
  <2> QED
    BY <2>2, <2>3 DEF players
<1> QED
  BY <1>1, <1>3, <1>4

ThreadFields == {"pc", "move", "other", "holds"}

Requests == [what : {"Ask", "Stop"}, from : Threads]

\* Threads ask bots only, and a connection that has a seat sits on it.
SeatInv ==
  /\ TwoPlayers(board)
  /\ seats \in [{0, 1} -> Bots \cup Clients]
  /\ DOMAIN threads = Threads
  /\ \A t \in Threads : /\ DOMAIN threads[t] = ThreadFields /\ threads[t].holds \subseteq Bots
                        /\ threads[t].pc \in {"Ask", "Stop"} => threads[t].other \in Bots
  /\ pending \in [Bots -> Seq(Requests)]
  /\ DOMAIN remote \subseteq Clients
  /\ \A c \in DOMAIN remote : remote[c] \in {0, 1} /\ seats[remote[c]] = c

\* What a step may do to the turn.
TurnKept ==
  OneTakesTurn => \/ OneTakesTurn'
                  \/ seats'[board.current] # seats[board.current] /\ (Busy # {} \/ Calls # {})

LEMMA CallsAre ==
  \A call : call \in Calls <=> \E b \in Bots : \E i \in DOMAIN pending[b] :
                                 call = <<b, i>> /\ pending[b][i].what = "Ask"
BY DEF Calls

\* A step that leaves the turn, the requests, and who is busy as they are.
LEMMA TurnStays ==
  ASSUME board'.current = board.current, seats'[board.current] = seats[board.current], Calls' = Calls,
         \A t \in Threads : t \in Busy' => t \in Busy /\ PlaysFor(t)' = PlaysFor(t)
  PROVE  TurnKept
<1>1. Busy' \subseteq Threads /\ Busy' \subseteq Busy
  BY DEF Busy
<1>2. \A t \in Busy' : PlaysFor(t)' = PlaysFor(t)
  BY <1>1
<1> QED
  BY <1>1, <1>2 DEF TurnKept, OneTakesTurn

\* A thread that rests starts to do something else, or to do nothing.
LEMMA BecomeKeeps ==
  ASSUME SeatInv, NEW t \in Threads, NEW pc, NEW other, NEW holds, Become(t, pc, other, holds),
         holds \subseteq Bots, pc \in {"Ask", "Stop"} => other \in Bots
  PROVE  /\ DOMAIN threads' = Threads
         /\ \A u \in Threads : /\ DOMAIN threads'[u] = ThreadFields /\ threads'[u].holds \subseteq Bots
                               /\ threads'[u].pc \in {"Ask", "Stop"} => threads'[u].other \in Bots
         /\ \A u \in Threads \ {t} : threads'[u] = threads[u]
         /\ threads'[t].pc = pc /\ threads'[t].other = other
<1> DEFINE r == [Resting EXCEPT !.pc = pc, !.other = other, !.holds = holds]
<1>1. DOMAIN r = ThreadFields /\ r.pc = pc /\ r.other = other /\ r.holds = holds
  BY DEF Resting, ThreadFields
<1>2. threads' = [threads EXCEPT ![t] = r]
  BY DEF Become
<1> HIDE DEF r
<1> QED
  BY <1>1, <1>2 DEF SeatInv

TurnGoesOn == SeatInv' /\ TurnKept

LEMMA PlayKeepsTurn ==
  ASSUME SeatInv, NEW t \in Threads, Play(t)
  PROVE  TurnGoesOn
<1> USE GameAssumption
<1> DEFINE next == Moved(board, threads[t].move)
<1>1. threads[t].pc = "Play" /\ UNCHANGED <<seats, remote, spectators, pending>> /\ t \in Busy
  BY DEF Play, Busy
<1>2. Calls' = Calls
  BY <1>1 DEF Calls
<1>3. ASSUME NEW player, Become(t, "Idle", player, {}) \/ (IsBot(player) /\ Become(t, "Ask", player, {player})),
             TwoPlayers(board')
      PROVE  SeatInv' /\ threads'[t].pc \in {"Idle", "Ask"} /\ (threads'[t].pc = "Ask" => threads'[t].other = player)
                      /\ \A u \in Threads \ {t} : threads'[u] = threads[u]
  <2>1. CASE Become(t, "Idle", player, {})
    BY <1>1, <1>3, <2>1, BecomeKeeps DEF SeatInv
  <2>2. CASE IsBot(player) /\ Become(t, "Ask", player, {player})
    BY <1>1, <1>3, <2>2, BecomeKeeps DEF SeatInv, IsBot
  <2> QED
    BY <1>3, <2>1, <2>2
<1>4. /\ SeatInv' /\ \A u \in Threads \ {t} : threads'[u] = threads[u]
      /\ threads'[t].pc = "Idle" \/ (threads'[t].pc = "Ask" /\ threads'[t].other = seats'[board'.current])
  <2>1. CASE ValidSelection(board, threads[t].move)
    <3>1. TwoPlayers(board') /\ board' = next
      BY <2>1, TwoPlayersStay DEF Play, SeatInv
    <3> HIDE DEF next
    <3>2. CASE next.game = "InProgress" /\ IsBot(seats[next.current])
      <4>1. Become(t, "Ask", seats[next.current], {seats[next.current]})
        BY <2>1, <3>2 DEF Play, Begin, next
      <4> QED
        BY <1>1, <1>3, <3>1, <3>2, <4>1
    <3>3. CASE ~(next.game = "InProgress" /\ IsBot(seats[next.current]))
      <4>1. Become(t, "Idle", Nothing, {})
        BY <2>1, <3>3 DEF Play, Begin, next
      <4>2. SeatInv' /\ threads'[t].pc = "Idle" /\ \A u \in Threads \ {t} : threads'[u] = threads[u]
        BY <1>1, <3>1, <4>1, BecomeKeeps DEF SeatInv
      <4> QED
        BY <4>2
    <3> QED
      BY <3>2, <3>3
  <2>2. CASE ~ValidSelection(board, threads[t].move)
    <3>1. Become(t, "Idle", Nothing, {}) /\ board' = board
      BY <2>2 DEF Play
    <3> QED
      BY <1>1, <3>1, BecomeKeeps, SMTT(30) DEF SeatInv
  <2> QED
    BY <2>1, <2>2
<1>5. ASSUME OneTakesTurn
      PROVE  OneTakesTurn'
  <2>1. Busy = {t} /\ Calls' = {}
    BY <1>1, <1>2, <1>5 DEF OneTakesTurn, Busy
  <2>2. \A u \in Busy' : u = t /\ threads'[t].pc = "Ask"
    BY <1>4, <2>1 DEF Busy
  <2>3. \A u \in Busy' : PlaysFor(u)' = seats'[board'.current]
    BY <1>4, <2>2 DEF PlaysFor
  <2> QED
    BY <2>1, <2>2, <2>3 DEF OneTakesTurn
<1> QED
  BY <1>4, <1>5 DEF TurnGoesOn, TurnKept

LEMMA AskBotKeepsTurn ==
  ASSUME SeatInv, NEW t \in Threads, AskBot(t)
  PROVE  TurnGoesOn
<1> DEFINE b == threads[t].other
           request == [what |-> threads[t].pc, from |-> t]
<1>1. /\ threads[t].pc \in {"Ask", "Stop"} /\ b \in Bots /\ request \in Requests
      /\ pending' = [pending EXCEPT ![b] = Append(@, request)]
      /\ threads' = [threads EXCEPT ![t].pc = "Wait"]
      /\ UNCHANGED <<board, seats, remote>>
  BY DEF AskBot, SeatInv, Requests
<1>2. /\ \A u \in Threads \ {t} : threads'[u] = threads[u]
      /\ DOMAIN threads' = Threads /\ DOMAIN threads'[t] = ThreadFields
      /\ threads'[t].pc = "Wait" /\ threads'[t].holds = threads[t].holds
  BY <1>1 DEF SeatInv, ThreadFields
<1> HIDE DEF request
<1>3. /\ pending[b] \in Seq(Requests) /\ pending'[b] = Append(pending[b], request)
      /\ \A a \in Bots \ {b} : pending'[a] = pending[a]
      /\ pending' \in [Bots -> Seq(Requests)]
  BY <1>1 DEF SeatInv
<1>4. SeatInv'
  BY <1>1, <1>2, <1>3 DEF SeatInv
<1> DEFINE n == Len(pending[b]) + 1
<1>5. /\ DOMAIN pending'[b] = DOMAIN pending[b] \cup {n} /\ n \notin DOMAIN pending[b]
      /\ pending'[b][n] = request /\ \A i \in DOMAIN pending[b] : pending'[b][i] = pending[b][i]
  BY <1>3
<1> HIDE DEF n
<1>6. Calls' = Calls \cup (IF threads[t].pc = "Ask" THEN {<<b, n>>} ELSE {})
  <2>1. \A call : call \in Calls' <=> \E a \in Bots : \E i \in DOMAIN pending'[a] :
                                        call = <<a, i>> /\ pending'[a][i].what = "Ask"
    BY DEF Calls
  <2>2. request.what = threads[t].pc
    BY DEF request
  <2>3. ASSUME NEW a \in Bots
        PROVE  \A i : (i \in DOMAIN pending'[a] /\ pending'[a][i].what = "Ask") <=>
                      \/ i \in DOMAIN pending[a] /\ pending[a][i].what = "Ask"
                      \/ a = b /\ i = n /\ threads[t].pc = "Ask"
    BY <1>3, <1>5, <2>2
  <2>4. \A call : call \in Calls' <=> call \in Calls \/ (threads[t].pc = "Ask" /\ call = <<b, n>>)
    BY <1>1, <2>1, <2>3, CallsAre
  <2> QED
    BY <2>4
<1>7. CASE threads[t].pc = "Stop"
  <2>1. Calls' = Calls
    BY <1>6, <1>7
  <2>2. \A u \in Threads : u \in Busy' => u \in Busy /\ PlaysFor(u)' = PlaysFor(u)
    BY <1>2 DEF Busy, PlaysFor
  <2> QED
    BY <1>1, <1>4, <2>1, <2>2, TurnStays DEF TurnGoesOn
<1>8. CASE threads[t].pc = "Ask"
  <2> SUFFICES ASSUME OneTakesTurn
               PROVE  OneTakesTurn'
    BY <1>4 DEF TurnGoesOn, TurnKept
  <2>1. t \in Busy
    BY <1>8 DEF Busy
  <2>2. Busy = {t} /\ Calls = {}
    BY <2>1 DEF OneTakesTurn, Busy
  <2>3. b = seats[board.current]
    BY <1>8, <2>1 DEF OneTakesTurn, PlaysFor
  <2>4. Busy' = {} /\ Calls' = {<<b, n>>}
    BY <1>2, <1>6, <1>8, <2>2 DEF Busy
  <2> QED
    BY <1>1, <2>3, <2>4 DEF OneTakesTurn
<1> QED
  BY <1>1, <1>7, <1>8

LEMMA AnswerKeepsTurn ==
  ASSUME SeatInv, NEW b \in Bots, Answer(b)
  PROVE  TurnGoesOn
<1> USE GameAssumption
<1> DEFINE request == Head(pending[b])
           q == pending[b]
<1>1. /\ threads[b].pc = "Idle" /\ q # <<>>
      /\ pending' = [pending EXCEPT ![b] = Tail(q)]
      /\ UNCHANGED <<board, seats, remote>>
  BY DEF Answer, SeatInv
<1>2. /\ q \in Seq(Requests) /\ request \in Requests /\ request = q[1]
      /\ pending'[b] = Tail(q) /\ Tail(q) \in Seq(Requests)
      /\ \A a \in Bots \ {b} : pending'[a] = pending[a]
      /\ DOMAIN pending' = Bots
      /\ Len(Tail(q)) = Len(q) - 1 /\ Len(q) \in Nat /\ Len(q) >= 1 /\ DOMAIN q = 1 .. Len(q)
      /\ DOMAIN Tail(q) = 1 .. (Len(q) - 1)
      /\ \A i \in DOMAIN Tail(q) : Tail(q)[i] = q[i + 1]
  BY <1>1 DEF SeatInv
<1>3. pending' \in [Bots -> Seq(Requests)]
  BY <1>1, <1>2 DEF SeatInv
<1>4. request.from \in Threads /\ b \in Threads
  BY <1>2 DEF Requests, Threads
<1> HIDE DEF request
<1>5. /\ DOMAIN threads' = Threads
      /\ \A u \in Threads : /\ DOMAIN threads'[u] = ThreadFields /\ threads'[u].holds \subseteq threads[u].holds
                            /\ threads'[u].pc # threads[u].pc => threads'[u].pc \in {"Drop", "Ended", "Think"}
                            /\ threads'[u].pc = "Think" /\ threads[u].pc # "Think" => u = b /\ request.what # "Stop"
                            /\ threads'[u].other = threads[u].other
  <2> DEFINE f == request.from
             stops == request.what = "Stop"
             one == [threads EXCEPT ![f].pc = "Drop"]
             two == [one EXCEPT ![f].holds = IF stops THEN @ \ {b} ELSE @]
             three == [two EXCEPT ![b].pc = IF stops THEN "Ended" ELSE "Think"]
  <2>1. threads' = three
    BY ZenonT(30) DEF Answer, request
  <2>2. /\ DOMAIN one = Threads /\ \A u \in Threads \ {f} : one[u] = threads[u]
        /\ one[f] = [threads[f] EXCEPT !.pc = "Drop"]
    BY <1>4 DEF SeatInv
  <2> HIDE DEF one
  <2>3. /\ DOMAIN two = Threads /\ \A u \in Threads \ {f} : two[u] = threads[u]
        /\ two[f] = [one[f] EXCEPT !.holds = IF stops THEN @ \ {b} ELSE @]
    BY <1>4, <2>2
  <2> HIDE DEF two
  <2>4. /\ DOMAIN three = Threads /\ \A u \in Threads \ {b} : three[u] = two[u]
        /\ three[b] = [two[b] EXCEPT !.pc = IF stops THEN "Ended" ELSE "Think"]
    BY <1>4, <2>3
  <2> HIDE DEF three
  <2>5. /\ DOMAIN two[f] = ThreadFields /\ two[f].pc = "Drop" /\ two[f].other = threads[f].other
        /\ two[f].holds \subseteq threads[f].holds
    BY <1>4, <2>2, <2>3 DEF SeatInv, ThreadFields
  <2>6. \A u \in Threads : /\ DOMAIN two[u] = ThreadFields /\ two[u].holds \subseteq threads[u].holds
                           /\ two[u].other = threads[u].other /\ two[u].pc \in {threads[u].pc, "Drop"}
    BY <2>3, <2>5 DEF SeatInv
  <2>7. /\ DOMAIN three[b] = ThreadFields /\ three[b].pc = IF stops THEN "Ended" ELSE "Think"
        /\ three[b].other = two[b].other /\ three[b].holds = two[b].holds
    BY <1>4, <2>4, <2>6 DEF ThreadFields
  <2>8. \A u \in Threads \ {b} : /\ DOMAIN threads'[u] = ThreadFields /\ threads'[u].holds \subseteq threads[u].holds
                                 /\ threads'[u].other = threads[u].other /\ threads'[u].pc \in {threads[u].pc, "Drop"}
    BY <2>1, <2>4, <2>6
  <2>9. /\ DOMAIN threads'[b] = ThreadFields /\ threads'[b].holds \subseteq threads[b].holds
        /\ threads'[b].other = threads[b].other /\ threads'[b].pc = IF stops THEN "Ended" ELSE "Think"
    BY <1>4, <2>1, <2>6, <2>7
  <2>10. DOMAIN threads' = Threads
    BY <2>1, <2>4
  <2> HIDE DEF f, stops
  <2>11. ASSUME NEW u \in Threads
         PROVE  /\ DOMAIN threads'[u] = ThreadFields /\ threads'[u].holds \subseteq threads[u].holds
                /\ threads'[u].pc # threads[u].pc => threads'[u].pc \in {"Drop", "Ended", "Think"}
                /\ threads'[u].pc = "Think" /\ threads[u].pc # "Think" => u = b /\ ~stops
                /\ threads'[u].other = threads[u].other
    <3>1. CASE u = b
      BY <2>9, <3>1
    <3>2. CASE u # b
      BY <2>8, <3>2
    <3> QED
      BY <3>1, <3>2
  <2> QED
    BY <2>10, <2>11 DEF stops
<1>6. SeatInv'
  <2>1. \A u \in Threads : threads'[u].pc \in {"Ask", "Stop"} => threads'[u].other \in Bots
    BY <1>5 DEF SeatInv
  <2> QED
    BY <1>1, <1>3, <1>5, <2>1 DEF SeatInv
<1>7. \A i \in DOMAIN pending'[b] : i + 1 \in DOMAIN q /\ i + 1 # 1 /\ pending'[b][i] = q[i + 1]
  BY <1>2
<1> SUFFICES ASSUME OneTakesTurn
             PROVE  OneTakesTurn'
  BY <1>6 DEF TurnGoesOn, TurnKept
<1> DEFINE shift(call) == IF call[1] = b THEN <<b, call[2] + 1>> ELSE call
<1>8. \A call \in Calls' : \E a \in Bots : \E i \in DOMAIN pending'[a] :
        call = <<a, i>> /\ pending'[a][i].what = "Ask"
  BY DEF Calls
<1>9. \A call \in Calls' : call[1] \in Bots /\ (call[1] = b => <<b, call[2] + 1>> \in Calls /\ call[2] \in Nat /\ call = <<b, call[2]>>)
                        /\ (call[1] # b => call \in Calls)
  <2> SUFFICES ASSUME NEW call \in Calls'
               PROVE  /\ call[1] \in Bots
                      /\ call[1] = b => <<b, call[2] + 1>> \in Calls /\ call[2] \in Nat /\ call = <<b, call[2]>>
                      /\ call[1] # b => call \in Calls
    OBVIOUS
  <2>1. PICK a \in Bots : \E i \in DOMAIN pending'[a] : call = <<a, i>> /\ pending'[a][i].what = "Ask"
    BY <1>8
  <2>2. PICK i \in DOMAIN pending'[a] : call = <<a, i>> /\ pending'[a][i].what = "Ask"
    BY <2>1
  <2>3. CASE a = b
    <3>1. i \in Nat /\ i + 1 \in DOMAIN q /\ q[i + 1].what = "Ask"
      BY <1>2, <1>7, <2>2, <2>3, SMTT(30)
    <3> QED
      BY <2>2, <2>3, <3>1, CallsAre
  <2>4. CASE a # b
    BY <1>2, <2>2, <2>4, CallsAre, SMTT(30)
  <2> QED
    BY <2>3, <2>4
<1>10. \A call \in Calls' : call[1] = seats[board.current]
  <2> SUFFICES ASSUME NEW call \in Calls'
               PROVE  call[1] = seats[board.current]
    OBVIOUS
  <2>1. CASE call[1] = b
    BY <1>9, <2>1, ZenonT(30) DEF OneTakesTurn
  <2>2. CASE call[1] # b
    BY <1>9, <2>2 DEF OneTakesTurn
  <2> QED
    BY <2>1, <2>2
<1>11. \A call, other \in Calls' : call = other
  <2> SUFFICES ASSUME NEW call \in Calls', NEW other \in Calls'
               PROVE  call = other
    OBVIOUS
  <2>1. call[1] = other[1]
    BY <1>10
  <2>2. CASE call[1] = b
    <3>1. <<b, call[2] + 1>> = <<b, other[2] + 1>> /\ call[2] \in Nat /\ other[2] \in Nat
      BY <1>9, <2>1, <2>2 DEF OneTakesTurn
    <3>2. call[2] = other[2]
      BY <3>1
    <3> QED
      BY <1>9, <2>1, <2>2, <3>2
  <2>3. CASE call[1] # b
    BY <1>9, <2>1, <2>3 DEF OneTakesTurn
  <2> QED
    BY <2>2, <2>3
<1>12. CASE request.what = "Stop"
  <2>1. \A u \in Busy' : u \in Busy /\ PlaysFor(u)' = PlaysFor(u)
    BY <1>5, <1>12 DEF Busy, PlaysFor
  <2>2. Calls' # {} => Calls # {}
    BY <1>9
  <2> QED
    BY <1>1, <1>10, <1>11, <2>1, <2>2 DEF OneTakesTurn
<1>13. CASE request.what # "Stop"
  <2>1. <<b, 1>> \in Calls
    <3>1. request.what = "Ask"
      BY <1>2, <1>13 DEF Requests
    <3> QED
      BY <1>2, <3>1, CallsAre
  <2>2. Busy = {} /\ b = seats[board.current] /\ Calls = {<<b, 1>>}
    BY <2>1 DEF OneTakesTurn
  <2>3. Calls' = {}
    <3> SUFFICES ASSUME NEW call \in Calls'
                 PROVE  FALSE
      OBVIOUS
    <3>1. call[1] = b
      BY <1>10, <2>2
    <3>2. <<b, call[2] + 1>> = <<b, 1>> /\ call[2] \in Nat /\ call = <<b, call[2]>>
      BY <1>9, <2>2, <3>1
    <3>3. call[2] = 0
      BY <3>2
    <3>4. <<b, 0>> \in Calls'
      BY <3>2, <3>3
    <3>5. 0 \in DOMAIN pending'[b]
      BY <1>8, <3>4
    <3> QED
      BY <1>2, <3>5
  <2>4. \A u \in Busy' : u = b
    BY <1>5, <2>2 DEF Busy
  <2>5. b # Net /\ (b \in Busy' => threads'[b].pc = "Think")
    BY <1>4, <1>5, <2>2 DEF Busy
  <2>6. \A u \in Busy' : PlaysFor(u)' = b
    BY <2>4, <2>5 DEF PlaysFor
  <2> QED
    BY <1>1, <2>2, <2>3, <2>4, <2>6 DEF OneTakesTurn
<1> QED
  BY <1>12, <1>13

LEMMA ThinkKeepsTurn ==
  ASSUME SeatInv, NEW b \in Bots, Think(b)
  PROVE  TurnGoesOn
<1> USE GameAssumption
<1>1. threads[b].pc = "Think" /\ UNCHANGED <<board, seats, remote, pending>> /\ b \in Threads
  BY DEF Think, Threads
<1>2. PICK r : /\ threads' = [threads EXCEPT ![b] = r]
               /\ DOMAIN r = ThreadFields /\ r.pc \in {"Idle", "Play"} /\ r.holds = {}
  <2> DEFINE play == FindBestPlay(board)
             r == IF play = Nothing THEN Resting ELSE [Resting EXCEPT !.pc = "Play", !.move = play]
  <2>1. threads' = [threads EXCEPT ![b] = r]
    BY DEF Think
  <2> HIDE DEF play
  <2>2. DOMAIN r = ThreadFields /\ r.pc \in {"Idle", "Play"} /\ r.holds = {}
    BY DEF Resting, ThreadFields
  <2> QED
    BY <2>1, <2>2
<1>3. DOMAIN threads' = Threads /\ threads'[b] = r /\ \A u \in Threads \ {b} : threads'[u] = threads[u]
  BY <1>1, <1>2 DEF SeatInv
<1>4. SeatInv'
  BY <1>1, <1>2, <1>3 DEF SeatInv
<1>5. Calls' = Calls
  BY <1>1 DEF Calls
<1>6. \A u \in Threads : u \in Busy' => u \in Busy /\ PlaysFor(u)' = PlaysFor(u)
  <2>1. b # Net /\ threads'[b].pc # "Ask"
    BY <1>1, <1>2, <1>3
  <2> QED
    BY <1>1, <1>3, <2>1 DEF Busy, PlaysFor
<1> QED
  BY <1>1, <1>4, <1>5, <1>6, TurnStays DEF TurnGoesOn

\* Those who wait for a bot to stop, and who answer a connect.
LEMMA LettingGoKeepsTurn ==
  ASSUME SeatInv, NEW t \in Threads, LetGo(t) \/ Reply
  PROVE  TurnGoesOn
<1>1. UNCHANGED <<board, seats, remote, pending>>
  BY DEF LetGo, Reply
<1>2. Calls' = Calls
  BY <1>1 DEF Calls
<1>3. CASE LetGo(t)
  <2>1. /\ threads[t].pc = "Drop"
        /\ \/ Become(t, "Idle", Nothing, {})
           \/ \E b \in threads[t].holds : \E last \in SUBSET threads[t].holds : Become(t, "Stop", b, last)
    BY <1>3 DEF LetGo
  <2>2. /\ SeatInv' /\ threads'[t].pc \in {"Idle", "Stop"}
        /\ \A u \in Threads \ {t} : threads'[u] = threads[u]
    <3>1. CASE Become(t, "Idle", Nothing, {})
      BY <1>1, <3>1, BecomeKeeps DEF SeatInv
    <3>2. ASSUME NEW b \in threads[t].holds, NEW last \in SUBSET threads[t].holds, Become(t, "Stop", b, last)
          PROVE  /\ SeatInv' /\ threads'[t].pc \in {"Idle", "Stop"}
                 /\ \A u \in Threads \ {t} : threads'[u] = threads[u]
      <4>1. b \in Bots /\ last \subseteq Bots
        BY <3>2 DEF SeatInv
      <4> QED
        BY <1>1, <3>2, <4>1, BecomeKeeps DEF SeatInv
    <3> QED
      BY <2>1, <3>1, <3>2
  <2>3. \A u \in Threads : u \in Busy' => u \in Busy /\ PlaysFor(u)' = PlaysFor(u)
    BY <2>2 DEF Busy, PlaysFor
  <2> QED
    BY <1>1, <1>2, <2>2, <2>3, TurnStays DEF TurnGoesOn
<1>4. CASE Reply
  <2>1. threads' = [threads EXCEPT ![Net].pc = "Drop"] /\ Net \in Threads
    BY <1>4 DEF Reply, Threads
  <2>2. /\ DOMAIN threads' = Threads /\ \A u \in Threads \ {Net} : threads'[u] = threads[u]
        /\ DOMAIN threads'[Net] = ThreadFields /\ threads'[Net].pc = "Drop" /\ threads'[Net].holds = threads[Net].holds
    BY <2>1 DEF SeatInv, ThreadFields
  <2>3. SeatInv'
    BY <1>1, <2>2 DEF SeatInv
  <2>4. \A u \in Threads : u \in Busy' => u \in Busy /\ PlaysFor(u)' = PlaysFor(u)
    BY <2>2 DEF Busy, PlaysFor
  <2> QED
    BY <1>1, <1>2, <2>3, <2>4, TurnStays DEF TurnGoesOn
<1> QED
  BY <1>3, <1>4

\* Nobody but a bot is busy with a bot's turn, and with a client's only Net.
LEMMA NobodyWorks ==
  ASSUME SeatInv, OneTakesTurn, seats[board.current] \in Clients, threads[Net].pc = "Idle"
  PROVE  Busy = {} /\ Calls = {}
<1> USE GameAssumption
<1>1. ASSUME NEW t \in Busy
      PROVE  FALSE
  <2>1. t \in Threads /\ threads[t].pc \in {"Ask", "Think", "Play"} /\ t # Net
    BY DEF Busy
  <2>2. t \in Bots
    BY <2>1 DEF Threads
  <2>3. PlaysFor(t) \in Bots
    BY <2>1, <2>2 DEF PlaysFor, SeatInv
  <2> QED
    BY <2>3 DEF OneTakesTurn
<1>2. ASSUME NEW call \in Calls
      PROVE  FALSE
  <2>1. call[1] \in Bots
    BY CallsAre
  <2> QED
    BY <2>1 DEF OneTakesTurn
<1> QED
  BY <1>1, <1>2

LEMMA ConnectKeepsTurn ==
  ASSUME SeatInv, NEW c \in Clients, PlayerConnect(c)
  PROVE  TurnGoesOn
<1> USE GameAssumption
<1> DEFINE replaceable == {i \in DOMAIN seats : IsBot(seats[i])}
           seat == CHOOSE i \in replaceable : \A j \in replaceable : i <= j
           held == {seats[i] : i \in replaceable}
<1>1. /\ threads[Net].pc = "Idle" /\ Net \in Threads /\ UNCHANGED pending
      /\ Become(Net, "Reply", c, held) /\ held \subseteq Bots
  BY DEF PlayerConnect, Received, Threads, IsBot
<1>2. /\ DOMAIN threads' = Threads /\ threads'[Net].pc = "Reply"
      /\ \A u \in Threads \ {Net} : threads'[u] = threads[u]
      /\ \A u \in Threads : /\ DOMAIN threads'[u] = ThreadFields /\ threads'[u].holds \subseteq Bots
                            /\ threads'[u].pc \in {"Ask", "Stop"} => threads'[u].other \in Bots
  BY <1>1, BecomeKeeps
<1>3. Calls' = Calls
  BY <1>1 DEF Calls
<1>4. \A u \in Threads : u \in Busy' => u \in Busy /\ PlaysFor(u)' = PlaysFor(u)
  BY <1>1, <1>2 DEF Busy, PlaysFor
<1>5. CASE replaceable = {}
  <2>1. UNCHANGED <<board, seats, remote>>
    BY <1>5 DEF PlayerConnect
  <2>2. SeatInv'
    BY <1>1, <1>2, <2>1 DEF SeatInv
  <2> QED
    BY <1>3, <1>4, <2>1, <2>2, TurnStays DEF TurnGoesOn
<1>6. CASE replaceable # {}
  <2>1. seat \in {0, 1} /\ seats[seat] \in Bots
    <3>1. replaceable \subseteq {0, 1}
      BY DEF SeatInv
    <3>2. \E i \in replaceable : \A j \in replaceable : i <= j
      BY <1>6, <3>1
    <3>3. seat \in replaceable
      BY <3>2
    <3> QED
      BY <3>1, <3>3 DEF IsBot
  <2>2. remote' = Entered(remote, c, seat) /\ Replace(seat, c, Name(c))
    BY <1>6 DEF PlayerConnect
  <2> HIDE DEF seat
  <2>3. /\ seats' \in [{0, 1} -> Bots \cup Clients] /\ seats'[seat] = c
        /\ \A i \in {0, 1} \ {seat} : seats'[i] = seats[i]
    BY <2>1, <2>2 DEF Replace, SeatInv
  <2>4. TwoPlayers(board') /\ board'.current = board.current
    <3> DEFINE name == Name(c)
    <3>1. board' = SetPlayers(board, [board.players EXCEPT ![seat + 1] = name])
      BY <2>2 DEF Replace
    <3> HIDE DEF name
    <3> QED
      BY <2>1, <2>2, <3>1, TwoPlayersStay, SMTT(30) DEF SeatInv
  <2>5. DOMAIN remote' = DOMAIN remote \cup {c} /\ remote'[c] = seat
        /\ \A d \in DOMAIN remote \ {c} : remote'[d] = remote[d]
    BY <2>2 DEF Entered
  <2>6. \A d \in DOMAIN remote' : remote'[d] \in {0, 1} /\ seats'[remote'[d]] = d
    <3> SUFFICES ASSUME NEW d \in DOMAIN remote', d # c
                 PROVE  remote'[d] \in {0, 1} /\ seats'[remote'[d]] = d
      BY <2>1, <2>3, <2>5
    <3>1. d \in DOMAIN remote /\ remote'[d] = remote[d] /\ remote[d] \in {0, 1} /\ seats[remote[d]] = d /\ d \notin Bots
      BY <2>5 DEF SeatInv
    <3>2. remote[d] # seat
      BY <2>1, <3>1
    <3> QED
      BY <2>3, <3>1, <3>2
  <2>7. SeatInv'
    <3>1. DOMAIN remote' \subseteq Clients
      BY <2>5 DEF SeatInv
    <3> QED
      BY <1>1, <1>2, <2>3, <2>4, <2>6, <3>1 DEF SeatInv
  <2>8. CASE seat = board.current
    <3>1. seats'[board.current] # seats[board.current]
      BY <2>1, <2>3, <2>8
    <3>2. CASE Busy = {} /\ Calls = {}
      <4>1. Busy' = {} /\ Calls' = {}
        BY <1>3, <1>4, <3>2 DEF Busy
      <4> QED
        BY <2>7, <4>1 DEF TurnGoesOn, TurnKept, OneTakesTurn
    <3> QED
      BY <2>7, <3>1, <3>2 DEF TurnGoesOn, TurnKept
  <2>9. CASE seat # board.current
    <3>1. seats'[board.current] = seats[board.current]
      BY <2>3, <2>9 DEF SeatInv, TwoPlayers
    <3> QED
      BY <1>3, <1>4, <2>4, <2>7, <3>1, TurnStays DEF TurnGoesOn
  <2> QED
    BY <2>8, <2>9
<1> QED
  BY <1>5, <1>6

LEMMA DisconnectKeepsTurn ==
  ASSUME SeatInv, NEW c \in Clients, Disconnected(c)
  PROVE  TurnGoesOn
<1> USE GameAssumption
<1> DEFINE bot == CHOOSE b \in Unborn : \A a \in Unborn : b <= a
           seat == remote[c]
           begins == seat = board.current
           asks == [Resting EXCEPT !.pc = "Ask", !.other = bot, !.holds = {bot}]
<1>1. threads[Net].pc = "Idle" /\ Net \in Threads /\ UNCHANGED pending
  BY DEF Disconnected, Received, Threads
<1>2. Calls' = Calls
  BY <1>1 DEF Calls
<1>3. CASE c \notin DOMAIN remote
  <2>1. UNCHANGED <<board, seats, remote, threads>>
    BY <1>3 DEF Disconnected
  <2>2. SeatInv'
    BY <1>1, <2>1 DEF SeatInv
  <2>3. \A u \in Threads : u \in Busy' => u \in Busy /\ PlaysFor(u)' = PlaysFor(u)
    BY <2>1 DEF Busy, PlaysFor
  <2> QED
    BY <1>2, <2>1, <2>2, <2>3, TurnStays DEF TurnGoesOn
<1>4. CASE c \in DOMAIN remote
  <2>1. bot \in Unborn
    <3>1. Unborn \subseteq Nat /\ Unborn # {}
      BY DEF Disconnected, Unborn
    <3> QED
      BY <3>1, LeastNumber
  <2>2. /\ remote' = Without(remote, c) /\ Replace(seat, bot, <<"Bot", seat>>)
        /\ threads' = [threads EXCEPT ![bot].pc = "Idle", ![Net] = IF begins THEN asks ELSE Resting]
    BY <1>4 DEF Disconnected
  <2> HIDE DEF bot
  <2>3. bot \in Bots /\ bot \in Threads /\ threads[bot].pc = "Unborn" /\ bot # Net
    BY <2>1 DEF Unborn, Threads
  <2>4. seat \in {0, 1} /\ seats[seat] = c
    BY <1>4 DEF SeatInv
  <2>5. /\ seats' \in [{0, 1} -> Bots \cup Clients] /\ seats'[seat] = bot
        /\ \A i \in {0, 1} \ {seat} : seats'[i] = seats[i]
    BY <2>2, <2>3, <2>4 DEF Replace, SeatInv
  <2>6. TwoPlayers(board') /\ board'.current = board.current
    <3> DEFINE name == <<"Bot", seat>>
    <3>1. board' = SetPlayers(board, [board.players EXCEPT ![seat + 1] = name])
      BY <2>2 DEF Replace
    <3> HIDE DEF name, seat
    <3>2. seat \in {0, 1} /\ TwoPlayers(board)
      BY <2>4 DEF SeatInv
    <3>3. TwoPlayers(SetPlayers(board, [board.players EXCEPT ![seat + 1] = name]))
          /\ SetPlayers(board, [board.players EXCEPT ![seat + 1] = name]).current = board.current
      BY <3>2, TwoPlayersStay
    <3> QED
      BY <3>1, <3>3
  <2>7. /\ DOMAIN asks = ThreadFields /\ asks.pc = "Ask" /\ asks.other = bot /\ asks.holds = {bot}
        /\ DOMAIN Resting = ThreadFields /\ Resting.pc = "Idle" /\ Resting.holds = {}
    BY DEF Resting, ThreadFields
  <2> HIDE DEF asks
  <2>8. /\ DOMAIN threads' = Threads /\ threads'[Net] = IF begins THEN asks ELSE Resting
        /\ \A u \in Threads \ {Net, bot} : threads'[u] = threads[u]
        /\ DOMAIN threads'[bot] = ThreadFields /\ threads'[bot].pc = "Idle" /\ threads'[bot].holds = threads[bot].holds
    BY <1>1, <2>2, <2>3 DEF SeatInv, ThreadFields
  <2>9. \A d \in DOMAIN remote' : d \in DOMAIN remote /\ d # c /\ remote'[d] = remote[d]
    BY <2>2 DEF Without
  <2>10. \A d \in DOMAIN remote' : d \in Clients /\ remote'[d] \in {0, 1} /\ seats'[remote'[d]] = d
    BY <2>4, <2>5, <2>9 DEF SeatInv
  <2>11. SeatInv'
    <3>1. \A u \in Threads : /\ DOMAIN threads'[u] = ThreadFields /\ threads'[u].holds \subseteq Bots
                             /\ threads'[u].pc \in {"Ask", "Stop"} => threads'[u].other \in Bots
      <4> SUFFICES ASSUME NEW u \in Threads
                   PROVE  /\ DOMAIN threads'[u] = ThreadFields /\ threads'[u].holds \subseteq Bots
                          /\ threads'[u].pc \in {"Ask", "Stop"} => threads'[u].other \in Bots
        OBVIOUS
      <4>1. CASE u = Net
        BY <2>3, <2>7, <2>8, <4>1
      <4>2. CASE u = bot
        BY <2>3, <2>8, <4>2 DEF SeatInv
      <4>3. CASE u \notin {Net, bot}
        BY <2>8, <4>3 DEF SeatInv
      <4> QED
        BY <4>1, <4>2, <4>3
    <3>2. DOMAIN remote' \subseteq Clients /\ pending' = pending
      BY <1>1, <2>10
    <3> QED
      BY <2>5, <2>6, <2>8, <2>10, <3>1, <3>2 DEF SeatInv
  <2>12. CASE begins
    <3> SUFFICES ASSUME OneTakesTurn
                 PROVE  OneTakesTurn'
      BY <2>11 DEF TurnGoesOn, TurnKept
    <3>1. Busy = {} /\ Calls = {}
      BY <1>1, <2>4, <2>12, NobodyWorks
    <3>2. Busy' = {Net}
      BY <1>1, <2>7, <2>8, <2>12, <3>1 DEF Busy
    <3>3. threads'[Net].other = bot /\ seats'[board'.current] = bot
      BY <2>5, <2>6, <2>7, <2>8, <2>12
    <3> QED
      BY <1>2, <3>1, <3>2, <3>3 DEF OneTakesTurn, PlaysFor
  <2>13. CASE ~begins
    <3>1. seats'[board.current] = seats[board.current]
      BY <2>5, <2>13 DEF SeatInv, TwoPlayers
    <3>2. \A u \in Threads : u \in Busy' => u \in Busy /\ PlaysFor(u)' = PlaysFor(u)
      BY <1>1, <2>7, <2>8, <2>13 DEF Busy, PlaysFor
    <3> QED
      BY <1>2, <2>6, <2>11, <3>1, <3>2, TurnStays DEF TurnGoesOn
  <2> QED
    BY <2>12, <2>13
<1> QED
  BY <1>3, <1>4

LEMMA CheckKeepsTurn ==
  ASSUME SeatInv, NEW c \in Clients, CheckPlay(c)
  PROVE  TurnGoesOn
<1> DEFINE msg == Head(up[c])
<1>1. /\ threads[Net].pc = "Idle" /\ Net \in Threads /\ UNCHANGED <<board, seats, remote, pending>>
  BY DEF CheckPlay, Received, Threads
<1>2. Calls' = Calls
  BY <1>1 DEF Calls
<1>3. CASE msg.player = board.current /\ seats[msg.player] = c
  <2>1. threads' = [threads EXCEPT ![Net].pc = "Play", ![Net].move = msg.pos, ![Net].other = c]
    BY <1>3 DEF CheckPlay
  <2> HIDE DEF msg
  <2>2. /\ DOMAIN threads' = Threads /\ \A u \in Threads \ {Net} : threads'[u] = threads[u]
        /\ DOMAIN threads'[Net] = ThreadFields /\ threads'[Net].pc = "Play" /\ threads'[Net].other = c
        /\ threads'[Net].holds = threads[Net].holds
    BY <1>1, <2>1 DEF SeatInv, ThreadFields
  <2>3. SeatInv'
    BY <1>1, <2>2, ZenonT(30) DEF SeatInv
  <2> SUFFICES ASSUME OneTakesTurn
               PROVE  OneTakesTurn'
    BY <2>3 DEF TurnGoesOn, TurnKept
  <2>4. Busy = {} /\ Calls = {}
    BY <1>1, <1>3, NobodyWorks
  <2>5. Busy' = {Net}
    BY <1>1, <2>2, <2>4 DEF Busy
  <2> QED
    BY <1>1, <1>2, <1>3, <2>2, <2>4, <2>5 DEF OneTakesTurn, PlaysFor
<1>4. CASE ~(msg.player = board.current /\ seats[msg.player] = c)
  <2>1. UNCHANGED threads
    BY <1>4 DEF CheckPlay
  <2>2. SeatInv'
    BY <1>1, <2>1 DEF SeatInv
  <2>3. \A u \in Threads : u \in Busy' => u \in Busy /\ PlaysFor(u)' = PlaysFor(u)
    BY <2>1 DEF Busy, PlaysFor
  <2> QED
    BY <1>1, <1>2, <2>2, <2>3, TurnStays DEF TurnGoesOn
<1> QED
  BY <1>3, <1>4

LEMMA ClientsKeepTurn ==
  ASSUME SeatInv, UNCHANGED serverVars
  PROVE  TurnGoesOn
<1>1. UNCHANGED <<board, seats, remote, spectators, threads, pending>>
  BY DEF serverVars
<1>2. SeatInv' /\ Calls' = Calls /\ Busy' = Busy
  BY <1>1 DEF SeatInv, Calls, Busy
<1>3. \A u \in Threads : u \in Busy' => u \in Busy /\ PlaysFor(u)' = PlaysFor(u)
  BY <1>1, <1>2 DEF PlaysFor
<1> QED
  BY <1>1, <1>2, <1>3, TurnStays DEF TurnGoesOn

LEMMA SeatStep == SeatInv /\ [GameNext]_gameVars => TurnGoesOn
<1> SUFFICES ASSUME SeatInv, [GameNext]_gameVars
             PROVE  TurnGoesOn
  OBVIOUS
<1>1. CASE UNCHANGED gameVars
  BY <1>1, ClientsKeepTurn DEF gameVars
<1>2. ASSUME NEW c \in Clients, ClientReceives(c) \/ UserMoves(c)
      PROVE  TurnGoesOn
  <2>1. UNCHANGED serverVars
    BY <1>2 DEF ClientReceives, UserMoves, OpenView, Keep, EndConnect, Deliver, DeliverKept,
                Connect, Select, Click, Leave
  <2> QED
    BY <2>1, ClientsKeepTurn
<1>3. ASSUME NEW t \in Threads, ServerMoves(t)
      PROVE  TurnGoesOn
  BY <1>3, PlayKeepsTurn, AskBotKeepsTurn, AnswerKeepsTurn, ThinkKeepsTurn, LettingGoKeepsTurn,
     ConnectKeepsTurn, DisconnectKeepsTurn, CheckKeepsTurn DEF ServerMoves
<1> QED
  BY <1>1, <1>2, <1>3 DEF GameNext

LEMMA SeatInit == GameInit => SeatInv
<1> SUFFICES ASSUME GameInit
             PROVE  SeatInv
  OBVIOUS
<1> USE GameAssumption
<1>1. TwoPlayers(board)
  <2> DEFINE names == << <<"Bot1">>, <<"Bot2">> >>
  <2>1. board = SetPlayers(NewBoard, names)
    BY DEF GameInit
  <2>2. DOMAIN NewBoard = BoardFields /\ NewBoard.current = 0
    BY DEF NewBoard, UpdateCaches, BoardFields
  <2> HIDE DEF NewBoard
  <2>3. DOMAIN board = BoardFields /\ board.current = 0 /\ board.players = names
    BY <2>1, <2>2 DEF SetPlayers, BoardFields
  <2> QED
    BY <2>3 DEF TwoPlayers
<1>2. seats \in [{0, 1} -> Bots \cup Clients]
  BY DEF GameInit
<1>3. DOMAIN threads = Threads
  BY DEF GameInit
<1>4. ASSUME NEW t \in Threads
      PROVE  DOMAIN threads[t] = ThreadFields /\ threads[t].holds \subseteq Bots /\ threads[t].pc \in {"Idle", "Unborn"}
  BY DEF GameInit, Resting, ThreadFields
<1>5. pending \in [Bots -> Seq(Requests)]
  BY DEF GameInit
<1>6. DOMAIN remote = {}
  BY DEF GameInit
<1> QED
  BY <1>1, <1>2, <1>3, <1>4, <1>5, <1>6 DEF SeatInv

\* Whoever plays plays for its own seat, and nobody else takes the turn, but
\* when a bot is replaced that has begun to take it.
THEOREM NobodyElseTakesTheTurn == GameSpec => OwnSeatPlayed
<1>1. SeatInv /\ [GameNext]_gameVars =>
        [OneTakesTurn => \/ OneTakesTurn'
                         \/ seats'[board.current] # seats[board.current] /\ (Busy # {} \/ Calls # {})]_gameVars
  BY SeatStep DEF TurnGoesOn, TurnKept
<1>2. SeatInv /\ [GameNext]_gameVars => SeatInv'
  BY SeatStep DEF TurnGoesOn
<1> QED
  BY <1>1, <1>2, SeatInit, PTL DEF GameSpec, OwnSeatPlayed

-----------------------------------------------------------------------------
(* What a turn captures.                                                    *)

\* A line leaves a tile in one direction, and stays on the board.
LEMMA LinesAreTiles ==
  ASSUME NEW pos \in Tiles, NEW dir \in Directions
  PROVE  /\ Line[pos][dir] \in Seq(Tiles)
         /\ \A i \in DOMAIN Line[pos][dir] : Line[pos][dir][i] # pos
<1> DEFINE Nth(i) == <<pos[1] + i * dir[1], pos[2] + i * dir[2]>>
           Steps == {i \in 1 .. Size[1] + Size[2] : Nth(i) \in Tiles}
           k == CASE dir = <<0, 1>> -> Size[2] - 1 - pos[2]
                  [] dir = <<0, -1>> -> pos[2]
                  [] dir = <<-1, 0>> -> pos[1]
                  [] OTHER -> Size[1] - 1 - pos[1]
<1>1. /\ Size[1] \in Nat /\ Size[2] \in Nat /\ pos = <<pos[1], pos[2]>>
      /\ pos[1] \in 0 .. Size[1] - 1 /\ pos[2] \in 0 .. Size[2] - 1
  BY SizeAssumption DEF Tiles
<1>2. \A x, y : <<x, y>> \in Tiles <=> x \in 0 .. Size[1] - 1 /\ y \in 0 .. Size[2] - 1
  BY DEF Tiles
<1>3. dir \in {<<0, 1>>, <<0, -1>>, <<-1, 0>>, <<1, 0>>}
  BY DEF Directions
<1>4. k \in Nat /\ Steps = 1 .. k /\ \A i \in 1 .. k : Nth(i) # pos
  <2>1. CASE dir = <<0, 1>>
    <3>1. \A i \in Int : Nth(i) = <<pos[1], pos[2] + i>>
      BY <1>1, <2>1
    <3>2. k = Size[2] - 1 - pos[2]
      BY <2>1
    <3> HIDE DEF Nth, k
    <3>3. k \in Nat /\ \A i \in 1 .. Size[1] + Size[2] : Nth(i) \in Tiles <=> i <= k
      BY <1>1, <1>2, <3>1, <3>2
    <3>4. \A i \in 1 .. k : Nth(i) # pos /\ i \in 1 .. Size[1] + Size[2]
      BY <1>1, <3>1, <3>2
    <3> QED
      BY <3>3, <3>4 DEF Steps
  <2>2. CASE dir = <<0, -1>>
    <3>1. \A i \in Int : Nth(i) = <<pos[1], pos[2] - i>>
      BY <1>1, <2>2
    <3>2. k = pos[2]
      BY <2>2
    <3> HIDE DEF Nth, k
    <3>3. k \in Nat /\ \A i \in 1 .. Size[1] + Size[2] : Nth(i) \in Tiles <=> i <= k
      BY <1>1, <1>2, <3>1, <3>2
    <3>4. \A i \in 1 .. k : Nth(i) # pos /\ i \in 1 .. Size[1] + Size[2]
      BY <1>1, <3>1, <3>2
    <3> QED
      BY <3>3, <3>4 DEF Steps
  <2>3. CASE dir = <<-1, 0>>
    <3>1. \A i \in Int : Nth(i) = <<pos[1] - i, pos[2]>>
      BY <1>1, <2>3
    <3>2. k = pos[1]
      BY <2>3
    <3> HIDE DEF Nth, k
    <3>3. k \in Nat /\ \A i \in 1 .. Size[1] + Size[2] : Nth(i) \in Tiles <=> i <= k
      BY <1>1, <1>2, <3>1, <3>2
    <3>4. \A i \in 1 .. k : Nth(i) # pos /\ i \in 1 .. Size[1] + Size[2]
      BY <1>1, <3>1, <3>2
    <3> QED
      BY <3>3, <3>4 DEF Steps
  <2>4. CASE dir = <<1, 0>>
    <3>1. \A i \in Int : Nth(i) = <<pos[1] + i, pos[2]>>
      BY <1>1, <2>4
    <3>2. k = Size[1] - 1 - pos[1]
      BY <2>4
    <3> HIDE DEF Nth, k
    <3>3. k \in Nat /\ \A i \in 1 .. Size[1] + Size[2] : Nth(i) \in Tiles <=> i <= k
      BY <1>1, <1>2, <3>1, <3>2
    <3>4. \A i \in 1 .. k : Nth(i) # pos /\ i \in 1 .. Size[1] + Size[2]
      BY <1>1, <3>1, <3>2
    <3> QED
      BY <3>3, <3>4 DEF Steps
  <2> QED
    BY <1>3, <2>1, <2>2, <2>3, <2>4
<1> HIDE DEF k
<1>5. Cardinality(Steps) = k
  <2>1. Cardinality(1 .. k) = IF 1 > k THEN 0 ELSE k - 1 + 1
    BY <1>4, FS_Interval
  <2> HIDE DEF Steps
  <2> QED
    BY <1>4, <2>1
<1>6. Line[pos][dir] = [i \in 1 .. Cardinality(Steps) |-> Nth(i)]
  BY DEF Line
<1>7. Line[pos][dir] = [i \in 1 .. k |-> Nth(i)]
  BY <1>5, <1>6
<1>8. \A i \in 1 .. k : Nth(i) \in Tiles
  BY <1>4
<1> HIDE DEF Nth, Steps
<1> QED
  BY <1>4, <1>7, <1>8

\* The two players' pieces are on the tiles.
Pieced(b) == b.owner \in [Tiles -> {Nothing, 0, 1}] /\ b.turn_no \in Nat

\* A move gives its player a free tile, and tiles that were the other's: at
\* least one, after the opening.
LEMMA MoveCaptures ==
  ASSUME NEW b, TwoPlayers(b), Pieced(b), NEW pos, ValidSelection(b, pos)
  PROVE  \E flips \in SUBSET {t \in Tiles : b.owner[t] = 1 - b.current} :
           /\ b.turn_no > 4 => flips # {}
           /\ pos \in Tiles /\ b.owner[pos] = Nothing
           /\ Place(b, pos).owner = [t \in Tiles |-> IF t = pos \/ t \in flips THEN b.current ELSE b.owner[t]]
           /\ Place(b, pos).turn_no = b.turn_no /\ Place(b, pos).game = b.game
<1> DEFINE p == b.current
           owner == [b.owner EXCEPT ![pos] = p]
           dirs == {d \in Directions : ValidForFlip(owner, pos, d, p)}
           flips == UNION {Flipped(owner, pos, dir, p) : dir \in dirs}
<1>1. pos \in Tiles /\ b.owner[pos] = Nothing /\ p \in {0, 1} /\ Nothing \notin {0, 1}
  BY SizeAssumption DEF ValidSelection, TwoPlayers
<1>2. owner \in [Tiles -> {Nothing, 0, 1}] /\ owner[pos] = p /\ \A t \in Tiles \ {pos} : owner[t] = b.owner[t]
  BY <1>1 DEF Pieced
<1>3. /\ Place(b, pos).owner = [t \in Tiles |-> IF t \in flips THEN p ELSE owner[t]]
      /\ Place(b, pos).turn_no = b.turn_no /\ Place(b, pos).game = b.game
  BY DEF Place, Set, TwoPlayers, BoardFields
<1> HIDE DEF owner
<1>4. ASSUME NEW t \in flips
      PROVE  t \in Tiles /\ b.owner[t] = 1 - p
  <2>1. PICK dir \in Directions : t \in Flipped(owner, pos, dir, p)
    OBVIOUS
  <2> DEFINE line == Line[pos][dir]
  <2>2. line \in Seq(Tiles) /\ \A i \in DOMAIN line : line[i] # pos
    BY <1>1, LinesAreTiles
  <2>3. PICK n \in DOMAIN line : Foreign(owner, line, n, p) /\ t = line[n]
    BY <2>1 DEF Flipped
  <2> HIDE DEF line
  <2>4. t \in Tiles /\ t # pos /\ n \in 1 .. n
    BY <2>2, <2>3
  <2>5. owner[t] \notin {Nothing, p}
    BY <2>3, <2>4 DEF Foreign
  <2> QED
    BY <1>1, <1>2, <2>4, <2>5
<1>5. ASSUME b.turn_no > 4
      PROVE  flips # {}
  <2>1. PICK dir \in Directions : ValidForFlip(b.owner, pos, dir, p)
    BY <1>5 DEF ValidSelection, Pieced
  <2> DEFINE line == Line[pos][dir]
  <2>2. line \in Seq(Tiles) /\ \A i \in DOMAIN line : line[i] # pos
    BY <1>1, LinesAreTiles
  <2>3. PICK n \in 2 .. Len(line) : b.owner[line[n]] = p /\ Foreign(b.owner, line, n - 1, p)
    BY <2>1 DEF ValidForFlip
  <2> HIDE DEF line
  <2>4. \A i \in 1 .. Len(line) : line[i] \in Tiles /\ owner[line[i]] = b.owner[line[i]]
    BY <1>2, <2>2
  <2>5. \A i \in 1 .. n : i \in 1 .. Len(line)
    BY <2>2, <2>3
  <2>6. owner[line[n]] = p /\ Foreign(owner, line, n - 1, p)
    BY <2>3, <2>4, <2>5 DEF Foreign
  <2>7. Foreign(owner, line, 1, p) /\ 1 \in DOMAIN line
    BY <2>2, <2>3, <2>6 DEF Foreign
  <2>8. ValidForFlip(owner, pos, dir, p)
    BY <2>3, <2>6 DEF ValidForFlip, line
  <2>9. line[1] \in Flipped(owner, pos, dir, p)
    BY <2>7 DEF Flipped, line
  <2> QED
    BY <2>8, <2>9
<1>6. flips \in SUBSET {t \in Tiles : b.owner[t] = 1 - p}
  BY <1>4
<1> HIDE DEF flips
<1>7. [t \in Tiles |-> IF t \in flips THEN p ELSE owner[t]]
        = [t \in Tiles |-> IF t = pos \/ t \in flips THEN p ELSE b.owner[t]]
  BY <1>2
<1> QED
  BY <1>1, <1>3, <1>5, <1>6, <1>7

PiecesOf(owner, p) == {t \in Tiles : owner[t] = p}

\* The pieces after a capture are those before it, the one added, and those
\* taken.
LEMMA CapturesCount ==
  ASSUME NEW owner, NEW p \in {0, 1}, NEW pos \in Tiles, owner[pos] = Nothing,
         NEW flips \in SUBSET PiecesOf(owner, 1 - p),
         NEW next, next = [t \in Tiles |-> IF t = pos \/ t \in flips THEN p ELSE owner[t]]
  PROVE  /\ \A q : Cardinality(PiecesOf(owner, q)) \in Nat /\ Cardinality(PiecesOf(next, q)) \in Nat
         /\ Cardinality(flips) \in Nat /\ (flips # {} => Cardinality(flips) > 0)
         /\ Cardinality(PiecesOf(next, p)) = Cardinality(PiecesOf(owner, p)) + Cardinality(flips) + 1
         /\ Cardinality(PiecesOf(next, 1 - p)) = Cardinality(PiecesOf(owner, 1 - p)) - Cardinality(flips)
<1> DEFINE M == PiecesOf(owner, p)
           O == PiecesOf(owner, 1 - p)
<1>0. Nothing \notin {0, 1}
  BY SizeAssumption
<1>1. IsFiniteSet(Tiles)
  <2>1. IsFiniteSet(0 .. Size[1] - 1) /\ IsFiniteSet(0 .. Size[2] - 1)
    <3>1. 0 \in Int /\ Size[1] - 1 \in Int /\ Size[2] - 1 \in Int
      BY SizeAssumption
    <3> QED
      BY <3>1, FS_Interval
  <2> QED
    BY <2>1, FS_Product DEF Tiles
<1>2. \A o, q : IsFiniteSet(PiecesOf(o, q)) /\ Cardinality(PiecesOf(o, q)) \in Nat
  <2> SUFFICES ASSUME NEW o, NEW q
               PROVE  IsFiniteSet(PiecesOf(o, q)) /\ Cardinality(PiecesOf(o, q)) \in Nat
    OBVIOUS
  <2>1. PiecesOf(o, q) \subseteq Tiles
    BY DEF PiecesOf
  <2> QED
    BY <1>1, <2>1, FS_Subset, FS_CardinalityType
<1>3. IsFiniteSet(flips) /\ Cardinality(flips) \in Nat /\ (flips # {} => Cardinality(flips) > 0)
  <2>1. IsFiniteSet(flips)
    BY <1>2, FS_Subset
  <2> QED
    BY <2>1, FS_CardinalityType, FS_EmptySet
<1>4. PiecesOf(next, p) = (M \cup flips) \cup {pos}
  BY DEF PiecesOf
<1>5. PiecesOf(next, 1 - p) = O \ flips
  BY <1>0 DEF PiecesOf
<1>6. M \cap flips = {} /\ pos \notin M \cup flips
  BY <1>0 DEF PiecesOf
<1> HIDE DEF M
<1>7. Cardinality(M \cup flips) = Cardinality(M) + Cardinality(flips) /\ IsFiniteSet(M \cup flips)
  <2>1. IsFiniteSet(M) /\ Cardinality(M) \in Nat
    BY <1>2 DEF M
  <2>2. Cardinality(M \cup flips) = Cardinality(M) + Cardinality(flips) - Cardinality(M \cap flips)
    BY <1>3, <2>1, FS_Union
  <2>3. Cardinality(M \cap flips) = 0
    BY <1>6, FS_EmptySet
  <2> QED
    BY <1>3, <2>1, <2>2, <2>3, FS_Union
<1>8. Cardinality((M \cup flips) \cup {pos}) = Cardinality(M \cup flips) + 1
  BY <1>6, <1>7, FS_AddElement
<1>9. Cardinality(O \ flips) = Cardinality(O) - Cardinality(flips)
  <2>1. IsFiniteSet(O) /\ Cardinality(O) \in Nat
    BY <1>2
  <2> HIDE DEF O
  <2>2. Cardinality(O \ flips) = Cardinality(O) - Cardinality(O \cap flips)
    BY <2>1, FS_Difference
  <2>3. O \cap flips = flips
    BY DEF O
  <2> QED
    BY <2>2, <2>3
<1> QED
  BY <1>2, <1>3, <1>4, <1>5, <1>7, <1>8, <1>9 DEF M

\* What a turn makes of board b.
FairTurn(b, c) ==
  LET Pieces(d, p) == Cardinality({pos \in Tiles : d.owner[pos] = p})
      mover == b.current
      other == c.current
      taken == Pieces(b, other) - Pieces(c, other)
  IN /\ Pieces(c, mover) = Pieces(b, mover) + taken + 1
     /\ b.turn_no > 4 => taken > 0
     /\ \A p \in {mover, other} : c.score[p] = Pieces(c, p)
     /\ c.game # "InProgress" =>
          c.game = IF taken + taken + 1 + Pieces(b, mover) = Pieces(b, other) THEN "Draw"
                   ELSE <<"PlayerWon", CHOOSE p \in {mover, other} :
                           \A q \in {mover, other} : Pieces(c, q) <= Pieces(c, p)>>

LEMMA TurnCaptures ==
  ASSUME NEW b, TwoPlayers(b), Pieced(b), NEW pos, ValidSelection(b, pos),
         NEW next, next = Moved(b, pos)
  PROVE  FairTurn(b, next) /\ Pieced(next)
<1> DEFINE Pieces(d, p) == Cardinality({t \in Tiles : d.owner[t] = p})
           mover == b.current
           opponent == 1 - mover
           other == next.current
           placed == Place(b, pos)
           turned == [placed EXCEPT !.current = (@ + 1) % Len(placed.players), !.turn_no = @ + 1]
           cached == UpdateCaches(turned)
           N(q) == Pieces(next, q)
<1>1. PICK flips \in SUBSET {t \in Tiles : b.owner[t] = 1 - b.current} :
        /\ b.turn_no > 4 => flips # {}
        /\ pos \in Tiles /\ b.owner[pos] = Nothing
        /\ placed.owner = [t \in Tiles |-> IF t = pos \/ t \in flips THEN b.current ELSE b.owner[t]]
        /\ placed.turn_no = b.turn_no /\ placed.game = b.game
  BY MoveCaptures
<1>2. /\ TwoPlayers(placed) /\ placed.current = mover /\ mover \in {0, 1} /\ b.turn_no \in Nat
      /\ Len(placed.players) = 2
  <2>1. TwoPlayers(placed) /\ placed.current = mover /\ mover \in {0, 1} /\ b.turn_no \in Nat
    BY TwoPlayersStay DEF TwoPlayers, Pieced
  <2> HIDE DEF placed
  <2>2. Len(placed.players) = 2
    BY <2>1 DEF TwoPlayers
  <2> QED
    BY <2>1, <2>2
<1>3. b.game = "InProgress"
  BY DEF ValidSelection
<1> HIDE DEF placed
<1>4. /\ TwoPlayers(turned) /\ turned.current = opponent /\ turned.owner = placed.owner
      /\ Len(turned.players) = 2 /\ turned.turn_no = b.turn_no + 1 /\ turned.game = "InProgress"
  <2>1. (mover + 1) % 2 = opponent
    BY <1>2
  <2>2. DOMAIN turned = BoardFields /\ turned.current = (mover + 1) % 2 /\ turned.players = placed.players
        /\ turned.owner = placed.owner /\ turned.turn_no = b.turn_no + 1 /\ turned.game = "InProgress"
    BY <1>1, <1>2, <1>3 DEF TwoPlayers, BoardFields
  <2> HIDE DEF turned
  <2>3. opponent \in {0, 1}
    BY <1>2
  <2> QED
    BY <1>2, <2>1, <2>2, <2>3 DEF TwoPlayers
<1> HIDE DEF turned
<1>5. /\ DOMAIN cached = BoardFields /\ cached.current = opponent /\ cached.owner = placed.owner
      /\ cached.turn_no = b.turn_no + 1 /\ cached.game = "InProgress"
      /\ cached.score = [q \in {0, 1} |-> Cardinality({t \in Tiles : placed.owner[t] = q})]
  <2>1. Score(turned) = [q \in {0, 1} |-> Cardinality({t \in Tiles : placed.owner[t] = q})]
    <3>1. 0 .. Len(turned.players) - 1 = {0, 1}
      BY <1>4
    <3> QED
      BY <1>4, <3>1 DEF Score
  <2> QED
    BY <1>4, <2>1 DEF UpdateCaches, TwoPlayers, BoardFields
<1> HIDE DEF cached
<1>6. next = IF cached.moves = <<>> THEN EndGame(cached) ELSE [cached EXCEPT !.version = @ + 1]
  BY DEF Moved, EndTurn, cached, turned, placed
<1>7. /\ other = opponent /\ next.owner = placed.owner /\ next.score = cached.score
      /\ next.turn_no = b.turn_no + 1
      /\ next.game = IF cached.moves = <<>> THEN EndGame(cached).game ELSE "InProgress"
  BY <1>5, <1>6 DEF EndGame, BoardFields
<1>8. /\ other = 1 - mover /\ mover \in {0, 1} /\ other \in {0, 1} /\ mover # other /\ {mover, other} = {0, 1}
  BY <1>2, <1>7
<1> HIDE DEF other, opponent
<1>9. /\ \A q : Pieces(b, q) \in Nat /\ N(q) \in Nat
      /\ Cardinality(flips) \in Nat /\ (flips # {} => Cardinality(flips) > 0)
      /\ N(mover) = Pieces(b, mover) + Cardinality(flips) + 1
      /\ N(other) = Pieces(b, other) - Cardinality(flips)
  <2>1. flips \in SUBSET PiecesOf(b.owner, 1 - mover)
    BY DEF PiecesOf
  <2>2. /\ \A q : Cardinality(PiecesOf(b.owner, q)) \in Nat /\ Cardinality(PiecesOf(placed.owner, q)) \in Nat
        /\ Cardinality(flips) \in Nat /\ (flips # {} => Cardinality(flips) > 0)
        /\ Cardinality(PiecesOf(placed.owner, mover)) = Cardinality(PiecesOf(b.owner, mover)) + Cardinality(flips) + 1
        /\ Cardinality(PiecesOf(placed.owner, 1 - mover)) = Cardinality(PiecesOf(b.owner, 1 - mover)) - Cardinality(flips)
    <3> DEFINE o == b.owner
               n == placed.owner
    <3>1. /\ mover \in {0, 1} /\ pos \in Tiles /\ o[pos] = Nothing /\ flips \in SUBSET PiecesOf(o, 1 - mover)
          /\ n = [t \in Tiles |-> IF t = pos \/ t \in flips THEN mover ELSE o[t]]
      BY <1>1, <1>2, <2>1
    <3> HIDE DEF o, n, mover
    <3>2. /\ \A q : Cardinality(PiecesOf(o, q)) \in Nat /\ Cardinality(PiecesOf(n, q)) \in Nat
          /\ Cardinality(flips) \in Nat /\ (flips # {} => Cardinality(flips) > 0)
          /\ Cardinality(PiecesOf(n, mover)) = Cardinality(PiecesOf(o, mover)) + Cardinality(flips) + 1
          /\ Cardinality(PiecesOf(n, 1 - mover)) = Cardinality(PiecesOf(o, 1 - mover)) - Cardinality(flips)
      BY <3>1, CapturesCount
    <3> QED
      BY <3>2 DEF o, n
  <2>3. \A q : Pieces(b, q) = Cardinality(PiecesOf(b.owner, q)) /\ N(q) = Cardinality(PiecesOf(placed.owner, q))
    BY <1>7 DEF PiecesOf
  <2> HIDE DEF Pieces, N
  <2> QED
    BY <1>8, <2>2, <2>3
<1>10. \A q \in {0, 1} : next.score[q] = N(q)
  BY <1>5, <1>7
<1> HIDE DEF Pieces, N
<1> DEFINE taken == Pieces(b, other) - N(other)
<1>11. taken = Cardinality(flips) /\ taken \in Nat
  BY <1>9
<1>12. N(mover) = Pieces(b, mover) + taken + 1 /\ (b.turn_no > 4 => taken > 0)
  BY <1>1, <1>9, <1>11
<1>13. Pieced(next)
  <2>1. placed.owner \in [Tiles -> {Nothing, 0, 1}]
    BY <1>1, <1>8 DEF Pieced
  <2> QED
    BY <1>2, <1>7, <2>1 DEF Pieced
<1>14. N(mover) = N(other) <=> taken + taken + 1 + Pieces(b, mover) = Pieces(b, other)
  BY <1>9, <1>11, <1>12
<1> HIDE DEF taken
<1>15. ASSUME cached.moves = <<>>
       PROVE  next.game = IF N(mover) = N(other) THEN "Draw"
                          ELSE <<"PlayerWon", CHOOSE p \in {mover, other} :
                                  \A q \in {mover, other} : N(q) <= N(p)>>
  <2> DEFINE s == cached.score
             best == {p \in DOMAIN s : \A q \in DOMAIN s : s[q] <= s[p]}
  <2>1. DOMAIN s = {0, 1} /\ s[0] = N(0) /\ s[1] = N(1) /\ N(0) \in Nat /\ N(1) \in Nat
    BY <1>5, <1>7, <1>9, <1>10
  <2>2. next.game = IF Cardinality(best) = 1 THEN <<"PlayerWon", CHOOSE p \in best : TRUE>> ELSE "Draw"
    BY <1>5, <1>7, <1>15 DEF EndGame, BoardFields
  <2> HIDE DEF s
  <2>3. best = {p \in {0, 1} : N(0) <= N(p) /\ N(1) <= N(p)}
    BY <2>1
  <2> HIDE DEF best
  <2>4. CASE N(0) = N(1)
    <3>1. best = {0, 1}
      BY <2>1, <2>3, <2>4
    <3>2. Cardinality({0, 1}) = 2
      <4>1. {0, 1} = 0 .. 1 /\ Cardinality(0 .. 1) = IF 0 > 1 THEN 0 ELSE 1 - 0 + 1
        <5>1. 0 \in Int /\ 1 \in Int /\ {0, 1} = 0 .. 1
          OBVIOUS
        <5> QED
          BY <5>1, FS_Interval
      <4> QED
        BY <4>1
    <3> QED
      BY <1>8, <2>2, <2>4, <3>1, <3>2
  <2>5. ASSUME NEW w \in {0, 1}, N(w) > N(1 - w)
        PROVE  next.game = <<"PlayerWon", w>> /\ N(mover) # N(other)
               /\ w = CHOOSE p \in {mover, other} : \A q \in {mover, other} : N(q) <= N(p)
    <3>1. best = {w}
      BY <2>1, <2>3, <2>5
    <3>2. Cardinality({w}) = 1
      BY FS_Singleton
    <3>3. w \in {mover, other} /\ \A p \in {mover, other} : (\A q \in {mover, other} : N(q) <= N(p)) <=> p = w
      BY <1>8, <2>1, <2>5
    <3> QED
      BY <1>8, <2>1, <2>2, <2>5, <3>1, <3>2, <3>3
  <2>6. N(0) = N(1) \/ N(0) > N(1) \/ N(1) > N(0)
    BY <2>1
  <2>7. CASE N(0) > N(1)
    BY <2>5, <2>7
  <2>8. CASE N(1) > N(0)
    BY <2>5, <2>8
  <2> QED
    BY <2>4, <2>6, <2>7, <2>8
<1>16. next.game # "InProgress" =>
         next.game = IF taken + taken + 1 + Pieces(b, mover) = Pieces(b, other) THEN "Draw"
                     ELSE <<"PlayerWon", CHOOSE p \in {mover, other} :
                             \A q \in {mover, other} : N(q) <= N(p)>>
  BY <1>7, <1>14, <1>15
<1> QED
  BY <1>8, <1>10, <1>12, <1>13, <1>16 DEF FairTurn, Pieces, taken, N, other

\* Nothing but a valid move changes the tiles, and it is a turn.
LEMMA BoardMoves ==
  ASSUME SeatInv, [GameNext]_gameVars
  PROVE  \/ UNCHANGED board
         \/ \E pos : ValidSelection(board, pos) /\ board' = Moved(board, pos)
         \/ board'.turn_no = board.turn_no /\ board'.owner = board.owner
<1>1. ASSUME NEW t \in Threads, ServerMoves(t), board' # board
      PROVE  \/ \E pos : ValidSelection(board, pos) /\ board' = Moved(board, pos)
             \/ \E seat \in {0, 1} : \E player, name : Replace(seat, player, name)
  <2>1. CASE Play(t)
    BY <1>1, <2>1 DEF Play
  <2>2. ASSUME NEW c \in Clients, PlayerConnect(c)
        PROVE  \E seat \in {0, 1} : \E player, name : Replace(seat, player, name)
    <3> DEFINE replaceable == {i \in DOMAIN seats : IsBot(seats[i])}
               seat == CHOOSE i \in replaceable : \A j \in replaceable : i <= j
    <3>1. replaceable # {} /\ Replace(seat, c, Name(c))
      BY <1>1, <2>2 DEF PlayerConnect
    <3>2. replaceable \subseteq {0, 1}
      BY DEF SeatInv
    <3>3. \E i \in replaceable : \A j \in replaceable : i <= j
      BY <3>1, <3>2
    <3>4. seat \in {0, 1}
      BY <3>2, <3>3
    <3> QED
      BY <3>1, <3>4
  <2>3. ASSUME NEW c \in Clients, Disconnected(c)
        PROVE  \E seat \in {0, 1} : \E player, name : Replace(seat, player, name)
    <3>1. c \in DOMAIN remote /\ \E player, name : Replace(remote[c], player, name)
      BY <1>1, <2>3 DEF Disconnected
    <3> QED
      BY <3>1 DEF SeatInv
  <2> QED
    BY <1>1, <2>1, <2>2, <2>3 DEF ServerMoves, AskBot, LetGo, Answer, Think, Reply, CheckPlay
<1>2. ASSUME NEW seat \in {0, 1}, NEW player, NEW name, Replace(seat, player, name)
      PROVE  board'.turn_no = board.turn_no /\ board'.owner = board.owner
  <2>1. board' = SetPlayers(board, [board.players EXCEPT ![seat + 1] = name])
    BY <1>2 DEF Replace
  <2>2. TwoPlayers(board)
    BY DEF SeatInv
  <2>3. LET next == SetPlayers(board, [board.players EXCEPT ![seat + 1] = name])
        IN next.turn_no = board.turn_no /\ next.owner = board.owner
    BY <2>2, TwoPlayersStay
  <2> QED
    BY <2>1, <2>3
<1>3. ASSUME NEW c \in Clients, ClientReceives(c) \/ UserMoves(c)
      PROVE  UNCHANGED board
  BY <1>3 DEF ClientReceives, UserMoves, OpenView, Keep, EndConnect, Deliver, DeliverKept,
              Connect, Select, Click, Leave, serverVars
<1> QED
  BY <1>1, <1>2, <1>3 DEF GameNext, gameVars, serverVars

RulesInv == SeatInv /\ Pieced(board)

\* A turn adds one piece, and after the opening takes at least one; the score
\* and the winner are those of the pieces.
THEOREM TurnsTakePieces == GameSpec => TurnsCapture
<1>1. GameInit => RulesInv
  <2> SUFFICES ASSUME GameInit
               PROVE  Pieced(board)
    BY SeatInit DEF RulesInv
  <2> DEFINE names == << <<"Bot1">>, <<"Bot2">> >>
  <2>1. board = SetPlayers(NewBoard, names)
    BY DEF GameInit
  <2>2. /\ DOMAIN NewBoard = BoardFields /\ NewBoard.owner = [pos \in Tiles |-> Nothing] /\ NewBoard.turn_no = 1
    BY DEF NewBoard, UpdateCaches, BoardFields
  <2> HIDE DEF NewBoard
  <2>3. board.owner = [pos \in Tiles |-> Nothing] /\ board.turn_no = 1
    BY <2>1, <2>2 DEF SetPlayers, BoardFields
  <2> QED
    BY <2>3 DEF Pieced
<1>2. RulesInv /\ [GameNext]_gameVars => RulesInv'
  <2> SUFFICES ASSUME RulesInv, [GameNext]_gameVars
               PROVE  Pieced(board')
    BY SeatStep DEF RulesInv, TurnGoesOn
  <2>1. ASSUME NEW pos, ValidSelection(board, pos), board' = Moved(board, pos)
        PROVE  Pieced(board')
    BY <2>1, TurnCaptures DEF RulesInv, SeatInv
  <2> QED
    BY <2>1, BoardMoves DEF RulesInv, Pieced
<1>3. RulesInv /\ [GameNext]_gameVars => [board'.turn_no # board.turn_no => FairTurn(board, board')]_board
  <2> SUFFICES ASSUME RulesInv, [GameNext]_gameVars, board'.turn_no # board.turn_no
               PROVE  FairTurn(board, board')
    OBVIOUS
  <2> DEFINE b == board
             c == board'
  <2>1. PICK pos : ValidSelection(b, pos) /\ c = Moved(b, pos)
    BY BoardMoves DEF RulesInv
  <2>2. TwoPlayers(b) /\ Pieced(b)
    BY DEF RulesInv, SeatInv
  <2> HIDE DEF b, c
  <2>3. FairTurn(b, c)
    BY <2>1, <2>2, TurnCaptures
  <2> QED
    BY <2>3 DEF b, c
<1> QED
  BY <1>1, <1>2, <1>3, PTL DEF GameSpec, TurnsCapture, FairTurn
=============================================================================
