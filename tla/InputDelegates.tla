---------------------------- MODULE InputDelegates ----------------------------
(***************************************************************************)
(* The inputs of a window (gui/input.rs): the state that can be queried    *)
(* and the delegates that are sent every event.  The window's thread       *)
(* changes the state and then sends the event, to the delegate with the    *)
(* highest lock or, without locks, to all of them.  A delegate's channel   *)
(* is unbounded and outlives neither the delegate nor the first event      *)
(* that is sent to a delegate that was dropped.                            *)
(***************************************************************************)
EXTENDS Naturals, Sequences, FiniteSets

CONSTANTS
  Delegates,    \* the delegates, by id
  KeyCodes,     \* physical keys
  NoEvent

VARIABLES
  pressed,      \* StateManager::keys
  applied,      \* how many events the state accounts for
  sending,      \* the event whose state change is made, not yet sent
  queue,        \* delegate -> the events in its channel
  senders,      \* DelegateManager::senders
  alive,        \* the delegates whose receiver exists
  locks,        \* DelegateManager::locks: records of id and priority
  top           \* the id of the entry that BinaryHeap::peek returns, if any

inputVars == <<pressed, applied, sending, queue, senders, alive, locks, top>>

\* An input: a key that changes state, or one that the keyboard repeats.
KeyEvents == [code : KeyCodes, down : BOOLEAN, repeat : BOOLEAN]

InputInit ==
  /\ pressed = {} /\ applied = 0 /\ sending = NoEvent
  /\ queue = [d \in Delegates |-> <<>>]
  /\ senders = Delegates /\ alive = Delegates
  /\ locks = {} /\ top = NoEvent

\* InputState::handle_event, first half: StateManager::set_key.  A repeat
\* leaves the state as it is.
SetState(event) ==
  /\ sending = NoEvent
  /\ pressed' = IF event.repeat THEN pressed
                ELSE IF event.down THEN pressed \cup {event.code} ELSE pressed \ {event.code}
  /\ applied' = applied + 1
  /\ sending' = [number |-> applied + 1, code |-> event.code, down |-> event.down]
  /\ UNCHANGED <<queue, senders, alive, locks, top>>

Receives(d) == IF locks = {} THEN d \in senders ELSE d = top

\* DelegateManager::send_event.  The sender of a delegate that has gone is
\* removed; the next event would index the map with it if it is still locked,
\* which panics, so the thread stays where it is.
SendEvent ==
  /\ sending # NoEvent
  /\ locks = {} \/ top \in senders
  /\ queue' = [d \in Delegates |->
                 IF Receives(d) /\ d \in alive THEN Append(queue[d], sending) ELSE queue[d]]
  /\ senders' = senders \ {d \in Delegates : Receives(d) /\ d \notin alive}
  /\ sending' = NoEvent
  /\ UNCHANGED <<pressed, applied, alive, locks, top>>

\* The window's thread has panicked in send_event.
SendPanics == sending # NoEvent /\ locks # {} /\ top \notin senders

\* InputDelegate::lock, DelegateManager::lock.  A newer entry with the same
\* priority as the top one stays below it.
Lock(d, priority) ==
  /\ d \in alive
  /\ locks' = locks \cup {[id |-> d, priority |-> priority]}
  /\ top' = IF \A l \in locks : l.priority < priority THEN d ELSE top
  /\ UNCHANGED <<pressed, applied, sending, queue, senders, alive>>

\* Drop for InputDelegateLock, DelegateManager::unlock: every entry of the
\* delegate goes, those of its other guards too.
Unlock(d) ==
  /\ d \in senders
  /\ locks' = {l \in locks : l.id # d}
  /\ IF locks' = {} THEN top' = NoEvent
     ELSE \E l \in locks' : (\A o \in locks' : o.priority <= l.priority) /\ top' = l.id
  /\ UNCHANGED <<pressed, applied, sending, queue, senders, alive>>

\* A delegate takes the next event of its channel.
Receive(d) ==
  /\ d \in alive /\ queue[d] # <<>>
  /\ queue' = [queue EXCEPT ![d] = Tail(@)]
  /\ UNCHANGED <<pressed, applied, sending, senders, alive, locks, top>>

\* The delegate is dropped with what its channel holds.
DropDelegate(d) ==
  /\ d \in alive
  /\ alive' = alive \ {d}
  /\ queue' = [queue EXCEPT ![d] = <<>>]
  /\ UNCHANGED <<pressed, applied, sending, senders, locks, top>>

-----------------------------------------------------------------------------
(* Queries *)

\* DelegateManager::has_priority
HasPriority(d) == locks = {} \/ d = top

\* is_key_pressed of a delegate and of the InputState: no answer, NoEvent,
\* when another layer has the inputs.
DelegateSees(d, code) == IF HasPriority(d) THEN code \in pressed ELSE NoEvent
StateSees(code) == IF locks = {} THEN code \in pressed ELSE NoEvent
=============================================================================
