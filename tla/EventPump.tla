------------------------------ MODULE EventPump ------------------------------
(***************************************************************************)
(* The keyboard's event pump (input.cpp) between its three users: the      *)
(* keyboard interrupt, which queues events; the task dispatch_key_events,  *)
(* which hands them to the subscriber; and kmain, which subscribes the     *)
(* shell.  The pump is guarded by a mutex, the screen that kmain and the   *)
(* shell print on by another.                                              *)
(*                                                                         *)
(* An interrupt handler is one step; the tasks are interrupted between any *)
(* two of theirs.  The scheduler switches from kmain to the dispatcher and *)
(* never back (RefinesRunQueue of module Scheduler).                       *)
(***************************************************************************)
EXTENDS Naturals, Sequences, FiniteSets

CONSTANTS
  Capacity,  \* events the ring buffer holds
  MaxKeys,   \* bound: scancodes the keyboard sends
  Burst      \* bound: scancodes one interrupt finds

EventPumpAssumption == {Capacity, MaxKeys, Burst} \subseteq Nat \ {0}

VARIABLES
  pump,         \* who holds main_event_pump: "none", "kmain", "dispatcher"
  screen,       \* who holds current_screen
  events,       \* the ring buffer of events, numbered in the order typed
  subscribers,  \* how many handlers are subscribed
  kmain,        \* where kmain stands
  dispatcher,   \* where dispatch_key_events stands
  seen,         \* the events as pop_front found them
  event,        \* the event e that is being dispatched
  current,      \* the task that has the processor
  typed,        \* scancodes sent so far
  accepted,     \* history: the events that were queued
  handled       \* history: the events the shell handled

queue == <<events, accepted, typed>>
vars == <<pump, screen, events, subscribers, kmain, dispatcher, seen, event,
          current, typed, accepted, handled>>

Init ==
  /\ pump = "none" /\ screen = "none"
  /\ events = <<>> /\ subscribers = 0
  /\ kmain = "init" /\ dispatcher = "try" /\ current = "kmain"
  /\ seen = <<>> /\ event = 0
  /\ typed = 0 /\ accepted = <<>> /\ handled = <<>>

-----------------------------------------------------------------------------
(* What a scancode is to the handler: a key of the table, one behind it,   *)
(* or 0x00, on which the handler returns.                                  *)
Scancodes == {"key", "other", "error"}

(* How many keys the handler's loop finds in the scancodes it reads. *)
KeysRead(codes) ==
  Cardinality({i \in DOMAIN codes :
                 codes[i] = "key" /\ \A j \in 1..i : codes[j] # "error"})

(* The events a handler that got the lock adds, as many as fit. *)
PushBack(n) ==
  LET new == [i \in 1 .. IF Len(events) + n > Capacity
                         THEN Capacity - Len(events) ELSE n |-> typed + i]
  IN events' = events \o new /\ accepted' = accepted \o new

QueueAnyway(n) == PushBack(n)
Queue(n) == IF pump = "none" THEN PushBack(n) ELSE UNCHANGED <<events, accepted>>

handle_interrupt(codes) ==
  /\ kmain # "init"   \* the line is masked before keyboard::init
  /\ typed + Len(codes) <= MaxKeys
  /\ Queue(KeysRead(codes))
  /\ typed' = typed + Len(codes)
  /\ UNCHANGED <<pump, screen, subscribers, kmain, dispatcher, seen, event,
                 current, handled>>

-----------------------------------------------------------------------------
(* kmain from keyboard::init on, and minishell::loop: the prompt is        *)
(* printed under the screen's lock, the subscription is made under the     *)
(* pump's.                                                                 *)
SubscribeFirst(pc) ==
  CASE pc = "init" -> "enable_task_switch" [] pc = "enable_task_switch" -> "lock"
    [] pc = "lock" -> "push" [] pc = "push" -> "unlock" [] pc = "unlock" -> "print"
    [] pc = "print" -> "printing" [] pc = "printing" -> "loop"
AfterStep(pc) ==
  CASE pc = "init" -> "enable_task_switch" [] pc = "enable_task_switch" -> "print"
    [] pc = "print" -> "printing" [] pc = "printing" -> "lock"
    [] pc = "lock" -> "push" [] pc = "push" -> "unlock" [] pc = "unlock" -> "loop"

Lock == pump = "none" /\ pump' = "kmain" /\ UNCHANGED <<screen, subscribers>>

KmainStep ==
  /\ current = "kmain"
  /\ kmain # "loop"
  /\ kmain' = AfterStep(kmain)
  /\ \/ kmain \in {"init", "enable_task_switch"} /\ UNCHANGED <<pump, screen, subscribers>>
     \/ kmain = "print" /\ screen = "none" /\ screen' = "kmain" /\ UNCHANGED <<pump, subscribers>>
     \/ kmain = "printing" /\ screen' = "none" /\ UNCHANGED <<pump, subscribers>>
     \/ kmain = "lock" /\ Lock
     \/ kmain = "push" /\ subscribers' = subscribers + 1 /\ UNCHANGED <<pump, screen>>
     \/ kmain = "unlock" /\ pump' = "none" /\ UNCHANGED <<screen, subscribers>>
  /\ UNCHANGED <<queue, dispatcher, seen, event, current, handled>>

(* The clock interrupts kmain, or kmain yields. *)
Switch ==
  /\ current = "kmain"
  /\ kmain \notin {"init", "enable_task_switch"}
  /\ current' = "dispatcher"
  /\ UNCHANGED <<pump, screen, queue, subscribers, kmain, dispatcher, seen,
                 event, handled>>

-----------------------------------------------------------------------------
(* dispatch_key_events.  A failed try_lock only yields. *)
Dispatching(pc) == current = "dispatcher" /\ dispatcher = pc

TryLock ==
  /\ Dispatching("try")
  /\ pump = "none"
  /\ pump' = "dispatcher"
  /\ dispatcher' = "pop"
  /\ UNCHANGED <<screen, queue, subscribers, kmain, seen, event, current,
                 handled>>

(* pop_front reads the buffer, and then moves its begin or returns none. *)
PopRead ==
  /\ Dispatching("pop")
  /\ seen' = events
  /\ dispatcher' = "popping"
  /\ UNCHANGED <<pump, screen, queue, subscribers, kmain, event, current,
                 handled>>

(* The loop over the subscribers and over the events. *)
ToNobody == "pop"
ToSubscribers == IF subscribers = 0 THEN "pop" ELSE "handle"

PopEvent ==
  /\ Dispatching("popping")
  /\ seen # <<>>
  /\ event' = Head(seen)
  /\ events' = Tail(seen)
  /\ dispatcher' = ToSubscribers
  /\ UNCHANGED <<pump, screen, subscribers, kmain, seen, current, typed,
                 accepted, handled>>

Unlock ==
  /\ Dispatching("popping")
  /\ seen = <<>>
  /\ pump' = "none"
  /\ dispatcher' = "try"
  /\ UNCHANGED <<screen, queue, subscribers, kmain, seen, event, current,
                 handled>>

(* The shell's handler prints under the screen's lock, which it waits for. *)
HandleLock ==
  /\ Dispatching("handle")
  /\ screen = "none"
  /\ screen' = "dispatcher"
  /\ dispatcher' = "printing"
  /\ UNCHANGED <<pump, queue, subscribers, kmain, seen, event, current,
                 handled>>

HandleDone ==
  /\ Dispatching("printing")
  /\ screen' = "none"
  /\ handled' = Append(handled, event)
  /\ dispatcher' = "pop"
  /\ UNCHANGED <<pump, queue, subscribers, kmain, seen, event, current>>

Dispatch ==
  TryLock \/ PopRead \/ PopEvent \/ Unlock \/ HandleLock \/ HandleDone

-----------------------------------------------------------------------------
(* The shell handles every event that was queued, once and in order, also  *)
(* those queued before it subscribed: what it has not handled is the event *)
(* in dispatch and the queue, though the interrupt comes between the two   *)
(* steps of pop_front.                                                     *)
InDispatch == IF dispatcher \in {"handle", "printing"} THEN <<event>> ELSE <<>>
ShellMissesNothing ==
  current = "dispatcher" /\ subscribers = 1 =>
    handled \o InDispatch \o events = accepted

(* The handler never waits for the screen of a kmain that is switched out  *)
(* for good.                                                               *)
ScreenIsFree == dispatcher = "handle" => screen = "none"
=============================================================================
