------------------------------ MODULE MCConsole ------------------------------
(* A console over a text field two characters wide; "q" is a quote. *)
EXTENDS Console

MCLogical ==
  "Backquote" :> "Backquote" @@ "Enter" :> "Enter" @@ "F1" :> "Focus" @@
  "a" :> "a" @@ "q" :> "q" @@ "Left" :> "Backspace" @@ "Up" :> "Up" @@
  "Right" :> "Right"
MCWidth == "a" :> 2 @@ "q" :> 1
MCKern == [p \in (DOMAIN MCWidth) \X (DOMAIN MCWidth) |-> IF p = <<"q", "a">> THEN 1 ELSE 0]
Press(code) == [code |-> code, down |-> TRUE, repeat |-> FALSE]
MCInputs ==
  << {Press(c) : c \in {"Backquote", "F1", "q"}}, {Press(c) : c \in {"a", "q", "F1"}},
     {Press(c) : c \in {"Backquote", "Enter", "Left", "Up", "Right"}} >>
MCKeyCodes == DOMAIN MCLogical
MCDelegates == {gui, field}
MCRegistrations ==
  << [alias |-> FALSE, name |-> <<"a">>, target |-> "run",
       check |-> [kind |-> "oneOf", of |-> {[kind |-> "equal", n |-> 0], [kind |-> "atLeast", n |-> 2]}]] >>
MCToggled == << <<"a", "q">> >>
MCFailed == << <<"q">>, <<"a", "a">> >>
MCSizes == << [width |-> 4, height |-> 5, scale |-> 1], [width |-> 3, height |-> 8, scale |-> 1] >>
=============================================================================
