------------------------------- MODULE Console -------------------------------
(***************************************************************************)
(* The console of a window (console/mod.rs, console/gui.rs, log.rs), next  *)
(* to an application's text field that reads the same inputs.              *)
(*   - the window's thread sends the keys, and renders;                    *)
(*   - the console's thread shows and hides the console, takes or gives    *)
(*     back the lock on the inputs, edits the prompt, submits commands;    *)
(*   - a worker executes them under the read lock of the command tree;     *)
(*   - another thread registers commands under its write lock;             *)
(*   - the field's thread, InputDelegate::spawn, edits a text layout until *)
(*     its handle is joined.                                               *)
(***************************************************************************)
EXTENDS InputDelegates, TextLayout, TLC

CONSTANTS
  gui, field,    \* the delegates
  Quote, Break,  \* the characters that shlex treats in a way of their own
  Unknown,       \* no such command, no such value
  Inputs,        \* bound: the keys of which one is pressed first, second, ...: a
                 \* sequence of subsets of KeyEvents
  Logical,       \* physical key -> logical key
  Registrations, \* what the registry is used for: a sequence of [alias, name, target, check]
  LogCapacity,   \* records the log holds
  Toggled, Failed,  \* the texts of the two records, as lines
  Sizes          \* the sizes of the window, from the first on

ASSUME InputsAssumption == \A i \in DOMAIN Inputs : Inputs[i] \subseteq KeyEvents

ASSUME ConsoleAssumption ==
  {gui, field} \subseteq Delegates /\ gui # field /\ NoEvent \notin {gui, field}

VARIABLES
  visible,       \* ConsoleGui::visible
  guarded,       \* whether the console's input_lock is Some
  handling,      \* the step and the event the console's thread is at
  prompt,        \* ConsoleGui::text_prompt
  log,           \* ConsoleLog::buffer
  work,          \* the WorkQueue: lines to handle
  submitted,     \* how many lines were submitted
  executed,      \* how many were handled
  worker,        \* "idle", "handling", "dead"
  tree,          \* Console::commands
  registry,      \* how far the registering thread is; it holds the lock inside
  box, boxPc,    \* the field's layout, its thread
  asked,         \* InputDelegateJoinHandle::should_exit
  size           \* index into Sizes

MaxEvents == Len(Inputs)

consoleVars == <<visible, guarded, handling, prompt, log, work, submitted,
                 executed, worker, tree, registry>>
boxVars == <<box, boxPc, asked>>
screenVars == <<inputVars, consoleVars, boxVars, size>>

-----------------------------------------------------------------------------
(* The commands (console/command.rs) and how a line of input becomes a call  *)
(* of one (console/mod.rs).  A tree maps a name to a command, to an alias or *)
(* to a tree of sub-commands.                                                *)

EmptyTree == <<>>

\* A command checks how many parameters it is given.
Command(run, check) == [kind |-> "command", run |-> run, check |-> check]
Alias(target) == [kind |-> "alias", target |-> target]

\* CommandTree::get: an alias is looked up in turn.
Get(commands, name) ==
  LET entry[n \in DOMAIN commands] ==
        IF commands[n].kind = "alias"
        THEN IF commands[n].target \in DOMAIN commands THEN entry[commands[n].target] ELSE Unknown
        ELSE commands[n]
  IN IF name \in DOMAIN commands THEN entry[name] ELSE Unknown

\* register_command: a name that is taken is refused.
RegisterCommand(commands, name, command) ==
  IF name \in DOMAIN commands THEN commands ELSE name :> command @@ commands

\* register_alias: so is an alias of something that does not exist.
RegisterAlias(commands, name, target) ==
  IF name \in DOMAIN commands \/ target \notin DOMAIN commands THEN commands
  ELSE name :> Alias(target) @@ commands

\* ParamCountCheck::matches
Matches(check, count) ==
  LET Within(c) ==
        CASE c.kind = "equal" -> count = c.n
          [] c.kind = "atLeast" -> c.n <= count
          [] c.kind = "atMost" -> count <= c.n
          [] c.kind = "range" -> c.min <= count /\ count <= c.max
  IN IF check.kind = "oneOf" THEN \E c \in check.of : Within(c) ELSE Within(check)

\* CommandTree::handle: what runs, with which parameters.
Handle(commands, words) ==
  IF words = <<>> \/ Get(commands, Head(words)) = Unknown THEN Unknown
  ELSE LET command == Get(commands, Head(words))
       IN IF Matches(command.check, Len(words) - 1)
          THEN [run |-> command.run, parameters |-> Tail(words)] ELSE Unknown

\* shlex::split, of a line given as its characters: the words, or Unknown
\* when a quote is left open.
Words(line) ==
  LET Put(acc, c) ==
        CASE c = Quote -> [acc EXCEPT !.open = ~@, !.started = TRUE]
          [] c = Break /\ ~acc.open ->
               [acc EXCEPT !.words = IF acc.started THEN Append(@, acc.word) ELSE @,
                           !.word = <<>>, !.started = FALSE]
          [] OTHER -> [acc EXCEPT !.word = Append(@, c), !.started = TRUE]
      end == FromLeft(Put, [open |-> FALSE, started |-> FALSE, word |-> <<>>, words |-> <<>>],
                      Append(line, Break))
  IN IF end.open THEN Unknown ELSE end.words

-----------------------------------------------------------------------------

At(step) == handling.step = step

\* The lines of the console and of the field at a size of the window.
\* ConsoleGui::create_text_layouts
PromptInfo(n) == [width |-> Sizes[n].width, height |-> VAdvance, wrap |-> FALSE, maxLines |-> None,
                  scale |-> Sizes[n].scale, horizontal |-> "start", vertical |-> "start"]
LogInfo(n) == [PromptInfo(n) EXCEPT !.wrap = TRUE, !.vertical = "end", !.height = Sizes[n].height]
BoxInfo(n) == [PromptInfo(n) EXCEPT !.wrap = TRUE, !.horizontal = "end", !.maxLines = 2]

ConsoleInit ==
  /\ InputInit
  /\ visible = FALSE /\ guarded = FALSE /\ handling = [step |-> "idle", event |-> NoEvent]
  /\ size = 1
  /\ prompt = NewLayout(PromptInfo(1))
  /\ log = <<>> /\ work = <<>> /\ submitted = 0 /\ executed = 0 /\ worker = "idle"
  /\ tree = EmptyTree /\ registry = 0
  /\ box = NewLayout(BoxInfo(1)) /\ boxPc = "loop" /\ asked = FALSE

\* ConsoleLog::push
Push(l, message) ==
  LET all == Append(l, message)
  IN IF Len(all) > LogCapacity THEN Tail(all) ELSE all

-----------------------------------------------------------------------------
(* The window's thread *)

Key ==
  /\ applied < MaxEvents
  /\ \E event \in Inputs[applied + 1] : SetState(event)
  /\ UNCHANGED <<consoleVars, boxVars, size>>

SendNext == SendEvent /\ UNCHANGED <<consoleVars, boxVars, size>>

\* The window has a new size: the handler of the RendererStaleEvent makes new
\* layouts and copies the text into them.  The application does likewise, with
\* TextLayout::resize.
Stale ==
  /\ size < Len(Sizes)
  /\ size' = size + 1
  /\ prompt' = TextOf(NewLayout(PromptInfo(size + 1)), prompt)
  /\ box' = IF boxPc \in {"loop", "focus"} THEN Resize(box, Sizes[size + 1].width) ELSE box
  /\ UNCHANGED <<inputVars, visible, guarded, handling, log, work, submitted, executed, worker,
                 tree, registry, boxPc, asked>>

\* ConsoleRenderer::add_record_to_layout at the top of the layout, and room
\* for one more above it while the text is less high than the canvas.
AddOnTop(l, message) ==
  LET added == CacheHeight(Text(l, message))
  IN IF added.height < l.info.height THEN MoveTo(Newline(MoveTo(added, 0, 0)), 0, 0) ELSE added

Full(l) == l.height # None /\ l.height >= l.info.height

\* ConsoleRenderer::build_commands, which clears text_log and runs over the log
\* from the newest record on until the canvas is full: the layout that a frame
\* of the window draws at its n-th size, and the records it takes.
Drawn(n, records) ==
  LET Add(acc, message) ==
        IF Full(acc.layout) THEN acc
        ELSE [layout |-> AddOnTop(acc.layout, message), records |-> <<message>> \o acc.records]
  IN FromRight(Add, [layout |-> Clear(NewLayout(LogInfo(n))), records |-> <<>>], records)

-----------------------------------------------------------------------------
(* The console's thread: the handler of ConsoleGui::new, under
   InputDelegate::start. *)

GuiReceive ==
  /\ At("idle") /\ Receive(gui)
  /\ handling' = [step |-> "decide", event |-> Head(queue[gui])]
  /\ UNCHANGED <<visible, guarded, prompt, log, work, submitted, executed,
                 worker, tree, registry, boxVars, size>>

Step(step) == handling' = [handling EXCEPT !.step = step]
Done == handling' = [step |-> "idle", event |-> NoEvent]

Toggle ==
  /\ At("decide") /\ handling.event.down /\ handling.event.code = "Backquote"
  /\ visible' = ~visible
  /\ log' = Push(log, Toggled)
  /\ Step("lock")
  /\ UNCHANGED <<inputVars, guarded, prompt, work, submitted, executed, worker,
                 tree, registry, boxVars, size>>

\* Mutant: the lock is taken again at every toggle; the guard that is replaced
\* then unlocks the delegate.
RelockAlways ==
  /\ At("lock")
  /\ IF guarded THEN Unlock(gui) ELSE Lock(gui, 100)
  /\ guarded' = TRUE
  /\ Done
  /\ UNCHANGED <<visible, prompt, log, work, submitted, executed, worker,
                 tree, registry, boxVars, size>>

TakeLock ==
  /\ At("lock")
  /\ IF visible THEN Lock(gui, 100)
     ELSE IF guarded THEN Unlock(gui)
     ELSE UNCHANGED inputVars
  /\ guarded' = visible
  /\ Done
  /\ UNCHANGED <<visible, prompt, log, work, submitted, executed, worker,
                 tree, registry, boxVars, size>>

\* The Display of a layout: its lines, with a break between two of them.
Displayed(l) ==
  FromLeft(LAMBDA all, line : IF all = None THEN line ELSE all \o <<Break>> \o line, None, ToLines(l))

\* Console::handle_command queues the line that the prompt held.
Submit ==
  /\ At("decide") /\ handling.event.down /\ handling.event.code = "Enter" /\ visible
  /\ work' = Append(work, Displayed(prompt))
  /\ prompt' = Clear(prompt)
  /\ submitted' = submitted + 1
  /\ Done
  /\ UNCHANGED <<inputVars, visible, guarded, log, executed, worker, tree,
                 registry, boxVars, size>>

\* Any other key is the prompt's; while the console is hidden it is nobody's.
Edit ==
  /\ At("decide")
  /\ handling.event.down =>
       /\ handling.event.code # "Backquote"
       /\ handling.event.code = "Enter" => ~visible
  /\ prompt' = IF visible /\ handling.event.down
               THEN HandleKey(prompt, Logical[handling.event.code]) ELSE prompt
  /\ Done
  /\ UNCHANGED <<inputVars, visible, guarded, log, work, submitted, executed,
                 worker, tree, registry, boxVars, size>>

GuiStep == GuiReceive \/ Toggle \/ TakeLock \/ Submit \/ Edit

-----------------------------------------------------------------------------
(* Commands *)

\* The thread that registers holds Console::registry from the first
\* registration to the last.
Held == registry \in 1 .. Len(Registrations)

\* Mutant: a registry that was taken is kept.
KeepRegistry ==
  /\ registry < Len(Registrations)
  /\ registry' = registry + 1
  /\ tree' = tree
  /\ UNCHANGED <<inputVars, visible, guarded, handling, prompt, log, work,
                 submitted, executed, worker, boxVars, size>>

Register ==
  /\ registry <= Len(Registrations)
  /\ registry = 0 => worker # "handling"
  /\ registry' = registry + 1
  /\ tree' = IF registry = 0 THEN tree
             ELSE LET r == Registrations[registry]
                  IN IF r.alias THEN RegisterAlias(tree, r.name, r.target)
                     ELSE RegisterCommand(tree, r.name, Command(r.target, r.check))
  /\ UNCHANGED <<inputVars, visible, guarded, handling, prompt, log, work,
                 submitted, executed, worker, boxVars, size>>

\* The work of handle_command.  A line with an open quote is not a list of
\* words, and unwrapping that ends the worker's thread.
BeginCommand ==
  /\ worker = "idle" /\ work # <<>>
  /\ \/ Words(Head(work)) = Unknown /\ worker' = "dead" /\ work' = Tail(work)
     \/ Words(Head(work)) # Unknown /\ ~Held /\ worker' = "handling" /\ work' = work
  /\ UNCHANGED <<inputVars, visible, guarded, handling, prompt, log, submitted,
                 executed, tree, registry, boxVars, size>>

\* CommandTree::handle under the read lock; a failure is logged.
EndCommand ==
  /\ worker = "handling"
  /\ worker' = "idle" /\ work' = Tail(work) /\ executed' = executed + 1
  /\ log' = IF Handle(tree, Words(Head(work))) = Unknown THEN Push(log, Failed) ELSE log
  /\ UNCHANGED <<inputVars, visible, guarded, handling, prompt, submitted,
                 tree, registry, boxVars, size>>

WorkerStep == BeginCommand \/ EndCommand

-----------------------------------------------------------------------------
(* The application's field: the thread of InputDelegate::spawn and the owner
   of its join handle.  Its handler holds a lock of a lower priority while the
   field has the focus, which a key of its own toggles. *)

Focused == \E l \in locks : l.id = field

BoxHandle ==
  /\ boxPc = "loop" /\ Receive(field)
  /\ LET event == Head(queue[field])
         key == Logical[event.code]
         next == IF ~event.down THEN box
                 ELSE IF key = "Up" THEN MoveUp(box)
                 ELSE IF key = "Down" THEN MoveDown(box)
                 ELSE IF key = "Right" THEN MoveRight(box)
                 ELSE HandleKey(box, key)
     IN IF next = None THEN boxPc' = "unwind" /\ box' = box
        ELSE box' = next /\ boxPc' = IF event.down /\ key = "Focus" THEN "focus" ELSE "loop"
  /\ UNCHANGED <<consoleVars, asked, size>>

BoxFocus ==
  /\ boxPc = "focus"
  /\ IF Focused THEN Unlock(field) ELSE Lock(field, 50)
  /\ boxPc' = "loop"
  /\ UNCHANGED <<consoleVars, box, asked, size>>

\* InputDelegateJoinHandle::join raises should_exit.
AskToExit ==
  /\ applied = MaxEvents /\ ~asked
  /\ asked' = TRUE
  /\ UNCHANGED <<inputVars, consoleVars, box, boxPc, size>>

\* The loop looks at should_exit at least as often as its receive times out.
\* The thread then drops the delegate, and after it the handler.
ExitLoop ==
  /\ boxPc = "unwind" \/ (boxPc = "loop" /\ asked)
  /\ DropDelegate(field)
  /\ boxPc' = "dropping"
  /\ UNCHANGED <<consoleVars, box, asked, size>>

\* The handler's guard unlocks the delegate, or panics if an event sent in
\* between has found that it is gone: the lock then stays for ever.
DropGuard ==
  /\ boxPc = "dropping"
  /\ IF Focused /\ field \in senders THEN Unlock(field) ELSE UNCHANGED inputVars
  /\ boxPc' = "gone"
  /\ UNCHANGED <<consoleVars, box, asked, size>>

BoxStep == BoxHandle \/ BoxFocus \/ ExitLoop \/ DropGuard

-----------------------------------------------------------------------------

\* Nothing is left to do but for the worker.
ConsoleRest ==
  /\ applied = MaxEvents /\ (sending = NoEvent \/ SendPanics)
  /\ At("idle") /\ queue[gui] = <<>> /\ boxPc = "gone"
  /\ UNCHANGED screenVars

ConsoleNext ==
  \/ Key \/ SendNext \/ Stale
  \/ GuiStep \/ Register \/ WorkerStep
  \/ BoxStep \/ AskToExit \/ ConsoleRest

\* The operating system runs the worker and the registering thread; nobody has
\* to press keys.
ConsoleSpec ==
  /\ ConsoleInit /\ [][ConsoleNext]_screenVars
  /\ WF_screenVars(WorkerStep) /\ WF_screenVars(Register)

-----------------------------------------------------------------------------
(* Properties *)

\* The console is visible exactly if it has the inputs: between two events of
\* its thread it is shown, holds a guard, is locked in the delegate manager
\* and is the top of the locks, or none of these (gui.rs:373-392, input.rs:
\* 406-431; a guard unlocks every lock of its delegate).  While it is shown no
\* other delegate and no reader of the state sees a key (469-484, 611-635).
ShownMeansLocked ==
  At("idle") => /\ visible <=> guarded
                /\ visible <=> \E l \in locks : l.id = gui
                /\ visible <=> top = gui
                /\ visible => \A code \in KeyCodes :
                     StateSees(code) = NoEvent /\ DelegateSees(field, code) = NoEvent

\* The physical lines of a layout follow each other without a gap, each
\* character is on the one it says, and only a first character of a line may
\* reach beyond the canvas of a layout that wraps.
Wrapped(l) ==
  \A r \in DOMAIN l.lines :
    LET chars == l.lines[r].chars
        segments == l.lines[r].segments
    IN /\ segments # <<>> /\ segments[1].start = 0 /\ segments[Len(segments)].end = Len(chars)
       /\ \A s \in 1 .. Len(segments) - 1 :
            segments[s].end = segments[s + 1].start /\ segments[s].start < segments[s].end
       /\ \A s \in DOMAIN segments : \A i \in segments[s].start + 1 .. segments[s].end :
            /\ chars[i].line = s - 1
            /\ l.info.wrap /\ i > segments[s].start + 1 => chars[i].x + chars[i].width <= l.info.width

\* Characters are drawn in reading order: to the right of the one before, or
\* below it.
InReadingOrder(l) ==
  LET drawn == Build(l)
  IN \A i \in 1 .. Len(drawn) - 1 :
       \/ drawn[i].y = drawn[i + 1].y /\ drawn[i].x < drawn[i + 1].x
       \/ drawn[i].y + LineHeight <= drawn[i + 1].y

\* Lines stay wrapped, the cursor is inside, a cached height is the height, and
\* the text is drawn in reading order.
Sound(l) ==
  /\ Wrapped(l) /\ InReadingOrder(l)
  /\ l.y < Len(l.lines) /\ l.x <= Len(Here(l).chars)
  /\ l.height = None \/ l.height = TotalHeight(l)

\* What is drawn of the log is its newest records, the newest at the bottom,
\* each on lines of its own.
ShowsNewest(drawn, records) ==
  LET n == Len(drawn.records)
  IN /\ SelectSeq(ToLines(drawn.layout), LAMBDA line : line # <<>>) = FlattenSeq(drawn.records)
     /\ drawn.records = SubSeq(records, Len(records) - n + 1, Len(records))
     /\ n < Len(records) => Full(drawn.layout)

\* Whatever is typed, deleted, resized, copied and logged leaves sound texts,
\* and frames that show the newest of the log (layout.rs: adjust_trailing
\* re-wraps from the edit on, the caches are dropped one by one; gui.rs:896-927
\* fills the canvas from the newest record upwards).
TextsSound ==
  [][/\ prompt' # prompt => Sound(prompt')
     /\ box' # box => Sound(box')
     /\ <<log, size>>' # <<log, size>> =>
          LET drawn == Drawn(size', log') IN Sound(drawn.layout) /\ ShowsNewest(drawn, log')]_screenVars

\* A line that was submitted is handled, unless a worker has died of a line
\* (mod.rs:44-56), even if commands are being registered (65-69).
SubmittedRuns ==
  \A n \in 1 .. MaxEvents : submitted >= n ~> executed >= n \/ worker = "dead"
=============================================================================
