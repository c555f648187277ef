------------------------------- MODULE Timing --------------------------------
(***************************************************************************)
(* The clock (timing.cpp): the PIT interrupts, the handler counts the      *)
(* interrupt as a tick, and busy_sleep waits for the counters.  An         *)
(* interrupt that comes while another one waits for the processor is lost. *)
(* Checked by proof only (module LibraryProofs): nothing is bounded.       *)
(***************************************************************************)
EXTENDS Integers

CONSTANTS ticks_per_micro, micros_per_milli

TimingAssumption == ticks_per_micro \in Nat \ {0} /\ micros_per_milli \in Nat \ {0}

VARIABLES
  micros_since_start, millis_since_start, ticks_in_this_micro, micros_in_this_milli,
  pending,  \* does an interrupt of the PIT wait: "yes" or "no"
  handled,  \* interrupts that were handled
  sleeper,  \* the task in busy_sleep: "awake", "asleep" or "woken"
  us,       \* for how long it sleeps
  begin,    \* the counter when it began
  since     \* handled when it began

counters == <<micros_since_start, millis_since_start, ticks_in_this_micro, micros_in_this_milli>>
sleep == <<sleeper, us, begin, since>>
vars == <<counters, pending, handled, sleep>>

Init ==
  /\ micros_since_start = 0 /\ millis_since_start = 0
  /\ ticks_in_this_micro = 0 /\ micros_in_this_milli = 0
  /\ pending = "no" /\ handled = 0
  /\ sleeper = "awake" /\ us = 0 /\ begin = 0 /\ since = 0

(* The PIT counted down from the reload count of init_pit. *)
Pit ==
  /\ pending' = "yes"
  /\ UNCHANGED <<counters, handled, sleep>>

MilliIsOver == micros_in_this_milli + 1 > micros_per_milli
MicroIsOver == ticks_in_this_micro + 1 > ticks_per_micro

CountMilli ==
  /\ millis_since_start' = millis_since_start + 1
  /\ micros_in_this_milli' = micros_in_this_milli + 1 - micros_per_milli

tick ==
  \/ /\ ~MicroIsOver
     /\ ticks_in_this_micro' = ticks_in_this_micro + 1
     /\ UNCHANGED <<micros_since_start, millis_since_start, micros_in_this_milli>>
  \/ /\ MicroIsOver
     /\ ticks_in_this_micro' = ticks_in_this_micro + 1 - ticks_per_micro
     /\ micros_since_start' = micros_since_start + 1
     /\ \/ MilliIsOver /\ CountMilli
        \/ /\ ~MilliIsOver
           /\ micros_in_this_milli' = micros_in_this_milli + 1
           /\ UNCHANGED millis_since_start

timer_handler ==
  /\ pending = "yes"
  /\ pending' = "no"
  /\ handled' = handled + 1
  /\ tick
  /\ UNCHANGED sleep

busy_sleep(n) ==
  /\ sleeper = "awake"
  /\ sleeper' = "asleep" /\ us' = n
  /\ begin' = micros_since_start /\ since' = handled
  /\ UNCHANGED <<counters, pending, handled>>

Slept == micros_since_start - begin >= us

(* The loop of busy_sleep. While it goes on it yields. *)
WakeUp ==
  /\ sleeper = "asleep" /\ Slept
  /\ sleeper' = "woken"
  /\ UNCHANGED <<counters, pending, handled, us, begin, since>>

Again ==
  /\ sleeper = "woken"
  /\ sleeper' = "awake"
  /\ UNCHANGED <<counters, pending, handled, us, begin, since>>

Next ==
  \/ Pit \/ timer_handler
  \/ (\E n \in Nat \ {0} : busy_sleep(n))
  \/ WakeUp \/ Again

Spec == Init /\ [][Next]_vars

-----------------------------------------------------------------------------
(* The counters that are carried and the ones that are read together are   *)
(* the ticks that were handled: no tick and no microsecond is lost or      *)
(* counted twice where a carry happens.                                    *)
CountersAgree ==
  /\ micros_since_start * ticks_per_micro + ticks_in_this_micro = handled
  /\ millis_since_start * micros_per_milli + micros_in_this_milli = micros_since_start
  /\ ticks_in_this_micro \in 0 .. ticks_per_micro
  /\ micros_in_this_milli \in 0 .. micros_per_milli

(* busy_sleep lets at least the ticks of us - 1 microseconds pass, whenever*)
(* in a microsecond it began: the first one may be almost over.            *)
SleepsLongEnough ==
  sleeper = "woken" => handled - since > (us - 1) * ticks_per_micro
=============================================================================
