--------------------------- MODULE LibraryProofs -----------------------------
(***************************************************************************)
(* The proofs about the kernel's library. Two of its parts are proved and  *)
(* not run by TLC, since nothing in them needs a bound: guards and handles *)
(* own their mutexes, for any number of both, and the clock's counters     *)
(* agree with the ticks and busy_sleep sleeps long enough, for every       *)
(* number of ticks to a microsecond and of microseconds to a millisecond.  *)
(* The third is what the runs of MCRingBuffer check on small instances,    *)
(* for every capacity and every element set.                               *)
(***************************************************************************)
EXTENDS Integers, RingBuffer, SequenceTheorems, TLAPS

CONSTANTS Mutexes, Handles, NoMutex
VARIABLES locked, alive, mtx, data

Guards == INSTANCE MutexHandle WITH None <- NoMutex

CONSTANTS ticks_per_micro, micros_per_milli

VARIABLES
  micros_since_start, millis_since_start, ticks_in_this_micro, micros_in_this_milli,
  pending, handled, sleeper, us, began, since

Clock == INSTANCE Timing WITH begin <- began

-----------------------------------------------------------------------------
(* What guards keep up: the two properties, with the types. *)
GuardInv == Guards!TypeOK /\ Guards!LockedByOneGuard /\ Guards!AccessNeedsLock

(* The two ways the guards change: one more mutex is held, or guards trade *)
(* places. Each keeps a mutex locked exactly while one guard points to it. *)
Acquired(h, m) ==
  /\ locked[m] = "no" /\ mtx[h] = NoMutex
  /\ locked' = [locked EXCEPT ![m] = "yes"]
  /\ Guards!Hold(h, m)

(* No mutex is locked at first. *)
LEMMA InitGuardInv ==
  ASSUME Guards!NoneAssumption
  PROVE  Guards!Init => GuardInv
  BY DEF Guards!NoneAssumption, Guards!Init, GuardInv, Guards!TypeOK,
         Guards!LockedByOneGuard, Guards!AccessNeedsLock

(* A free mutex that is acquired is then owned by one guard. *)
LEMMA AcquiredKeeps ==
  ASSUME Guards!NoneAssumption, GuardInv, NEW h \in Handles, NEW m \in Mutexes, Acquired(h, m)
  PROVE  Guards!LockedByOneGuard'
  <1>. USE DEF GuardInv, Guards!TypeOK, Guards!LockedByOneGuard, Acquired, Guards!Hold
  <1>1. \A g \in Handles : mtx[g] # m
    OBVIOUS
  <1>2. \A g \in Handles : g # h => mtx'[g] = mtx[g]
    OBVIOUS
  <1>3. mtx'[h] = m /\ locked'[m] = "yes"
    OBVIOUS
  <1>4. \A n \in Mutexes : n # m => locked'[n] = locked[n]
    OBVIOUS
  <1>5. mtx[h] = NoMutex
    OBVIOUS
  <1>6. \A n \in Mutexes : n # NoMutex
    BY DEF Guards!NoneAssumption
  <1>7. \A n \in Mutexes : locked'[n] = "yes" <=> \E g \in Handles : mtx'[g] = n
    <2>. SUFFICES ASSUME NEW n \in Mutexes
                  PROVE  locked'[n] = "yes" <=> \E g \in Handles : mtx'[g] = n
      OBVIOUS
    <2>1. CASE n = m
      BY <2>1, <1>3
    <2>2. CASE n # m
      <3>1. \A g \in Handles : mtx'[g] = n <=> mtx[g] = n
        BY <2>2, <1>2, <1>3, <1>5, <1>6
      <3>. QED BY <3>1, <2>2, <1>4
    <2>. QED BY <2>1, <2>2
  <1>8. \A n \in Mutexes : \A g, k \in Handles : mtx'[g] = n /\ mtx'[k] = n => g = k
    BY <1>1, <1>2, <1>3
  <1>. QED BY <1>7, <1>8 DEF Guards!LockedByOneGuard

(* Guards h and other trade what they point to. *)
LEMMA SwapKeeps ==
  ASSUME GuardInv, NEW h \in Handles, NEW other \in Handles,
         UNCHANGED locked, mtx' = Guards!SwapGuard(h, other)
  PROVE  Guards!LockedByOneGuard'
  <1>. USE DEF GuardInv, Guards!TypeOK, Guards!LockedByOneGuard, Guards!SwapGuard
  <1>1. \A g \in Handles : g # h /\ g # other => mtx'[g] = mtx[g]
    OBVIOUS
  <1>2. mtx'[other] = mtx[h] /\ mtx'[h] = mtx[other]
    OBVIOUS
  <1>3. \A n \in Mutexes : (\E g \in Handles : mtx'[g] = n) <=> (\E g \in Handles : mtx[g] = n)
    BY <1>1, <1>2
  <1>4. \A n \in Mutexes : \A g, k \in Handles : mtx'[g] = n /\ mtx'[k] = n => g = k
    BY <1>1, <1>2
  <1>5. \A n \in Mutexes : locked'[n] = locked[n]
    OBVIOUS
  <1>. QED BY <1>3, <1>4, <1>5 DEF Guards!LockedByOneGuard

(* A guard that lets go of its mutex unlocks it. *)
LEMMA FreeKeeps ==
  ASSUME Guards!NoneAssumption, GuardInv, NEW h \in Handles, Guards!Free(h)
  PROVE  Guards!LockedByOneGuard'
  <1>. USE DEF GuardInv, Guards!TypeOK, Guards!LockedByOneGuard, Guards!Free
  <1>1. \A g \in Handles : g # h => mtx'[g] = mtx[g]
    OBVIOUS
  <1>2. mtx'[h] = NoMutex
    OBVIOUS
  <1>3. \A n \in Mutexes : n # NoMutex
    BY DEF Guards!NoneAssumption
  <1>4. \A n \in Mutexes : n # mtx[h] => locked'[n] = locked[n]
    OBVIOUS
  <1>5. \A n \in Mutexes : n = mtx[h] => locked'[n] = "no"
    OBVIOUS
  <1>6. \A n \in Mutexes : locked'[n] = "yes" <=> \E g \in Handles : mtx'[g] = n
    <2>. SUFFICES ASSUME NEW n \in Mutexes
                  PROVE  locked'[n] = "yes" <=> \E g \in Handles : mtx'[g] = n
      OBVIOUS
    <2>1. CASE n = mtx[h]
      <3>1. \A g \in Handles : mtx'[g] # n
        BY <2>1, <1>1, <1>2, <1>3
      <3>. QED BY <3>1, <2>1, <1>5
    <2>2. CASE n # mtx[h]
      <3>1. \A g \in Handles : mtx'[g] = n <=> mtx[g] = n
        BY <2>2, <1>1, <1>2, <1>3
      <3>. QED BY <3>1, <2>2, <1>4
    <2>. QED BY <2>1, <2>2
  <1>7. \A n \in Mutexes : \A g, k \in Handles : mtx'[g] = n /\ mtx'[k] = n => g = k
    BY <1>1, <1>2, <1>3
  <1>. QED BY <1>6, <1>7 DEF Guards!LockedByOneGuard

(* Every operation on handles is one of these. *)
LEMMA NextGuardInv ==
  ASSUME Guards!NoneAssumption
  PROVE  GuardInv /\ [Guards!Next]_(Guards!vars) => GuardInv'
  <1>. SUFFICES ASSUME GuardInv, [Guards!Next]_(Guards!vars) PROVE GuardInv'
    OBVIOUS
  <1>1. ASSUME NEW h \in Handles, NEW m \in Mutexes, Guards!lock(h, m) PROVE GuardInv'
    <2>1. Acquired(h, m)
      BY <1>1 DEF Guards!lock, Acquired, GuardInv, Guards!AccessNeedsLock
    <2>2. Guards!LockedByOneGuard'
      BY <2>1, AcquiredKeeps
    <2>3. Guards!TypeOK'
      BY <1>1 DEF Guards!lock, Guards!Hold, GuardInv, Guards!TypeOK
    <2>4. Guards!AccessNeedsLock'
      BY <1>1 DEF Guards!lock, Guards!Hold, GuardInv, Guards!TypeOK, Guards!AccessNeedsLock
    <2>. QED BY <2>2, <2>3, <2>4 DEF GuardInv
  <1>2. ASSUME NEW h \in Handles, NEW m \in Mutexes, Guards!try_lock(h, m) PROVE GuardInv'
    <2>1. CASE locked[m] = "no"
      <3>1. Acquired(h, m)
        BY <1>2, <2>1 DEF Guards!try_lock, Acquired, GuardInv, Guards!AccessNeedsLock
      <3>2. Guards!LockedByOneGuard'
        BY <3>1, AcquiredKeeps
      <3>3. Guards!TypeOK'
        BY <1>2, <3>1 DEF Guards!try_lock, Acquired, Guards!Hold, GuardInv, Guards!TypeOK
      <3>4. Guards!AccessNeedsLock'
        BY <1>2, <3>1 DEF Guards!try_lock, Acquired, Guards!Hold, GuardInv,
                            Guards!TypeOK, Guards!AccessNeedsLock
      <3>. QED BY <3>2, <3>3, <3>4 DEF GuardInv
    <2>2. CASE locked[m] # "no"
      <3>1. UNCHANGED <<locked, mtx, data>> /\ alive' = [alive EXCEPT ![h] = "yes"]
        BY <1>2, <2>2 DEF Guards!try_lock
      <3>. QED BY <3>1 DEF GuardInv, Guards!TypeOK, Guards!LockedByOneGuard,
                           Guards!AccessNeedsLock
    <2>. QED BY <2>1, <2>2
  <1>3. ASSUME NEW h \in Handles, NEW other \in Handles, Guards!move_construct(h, other)
        PROVE  GuardInv'
    <2>1. h # other /\ mtx[h] = NoMutex
      BY <1>3 DEF Guards!move_construct, GuardInv, Guards!AccessNeedsLock
    <2>2. UNCHANGED locked /\ mtx' = Guards!SwapGuard(h, other)
      BY <1>3, <2>1 DEF Guards!move_construct, Guards!SwapGuard, GuardInv, Guards!TypeOK
    <2>3. Guards!LockedByOneGuard'
      BY <2>2, SwapKeeps
    <2>4. Guards!TypeOK'
      BY <1>3 DEF Guards!move_construct, GuardInv, Guards!TypeOK
    <2>5. Guards!AccessNeedsLock'
      BY <1>3, <2>1 DEF Guards!move_construct, GuardInv, Guards!TypeOK, Guards!AccessNeedsLock
    <2>. QED BY <2>3, <2>4, <2>5 DEF GuardInv
  <1>4. ASSUME NEW h \in Handles, NEW other \in Handles, Guards!move_assign(h, other)
        PROVE  GuardInv'
    <2>1. Guards!LockedByOneGuard'
      BY <1>4, SwapKeeps DEF Guards!move_assign
    <2>2. Guards!TypeOK'
      BY <1>4 DEF Guards!move_assign, Guards!SwapGuard, Guards!TakeData, GuardInv, Guards!TypeOK
    <2>3. Guards!AccessNeedsLock'
      BY <1>4 DEF Guards!move_assign, Guards!SwapGuard, Guards!TakeData, GuardInv,
                       Guards!TypeOK, Guards!AccessNeedsLock
    <2>. QED BY <2>1, <2>2, <2>3 DEF GuardInv
  <1>5. ASSUME NEW h \in Handles, Guards!Free(h),
               alive' = [alive EXCEPT ![h] = "no"] \/ UNCHANGED alive
        PROVE  GuardInv'
    <2>1. Guards!LockedByOneGuard'
      BY <1>5, FreeKeeps
    <2>2. Guards!TypeOK'
      BY <1>5 DEF Guards!Free, GuardInv, Guards!TypeOK
    <2>3. Guards!AccessNeedsLock'
      BY <1>5 DEF Guards!Free, GuardInv, Guards!TypeOK, Guards!AccessNeedsLock
    <2>. QED BY <2>1, <2>2, <2>3 DEF GuardInv
  <1>6. ASSUME NEW h \in Handles, Guards!release(h) \/ Guards!destroy(h) PROVE GuardInv'
    BY <1>5, <1>6 DEF Guards!release, Guards!destroy
  <1>7. CASE UNCHANGED Guards!vars
    BY <1>7 DEF Guards!vars, GuardInv, Guards!TypeOK, Guards!LockedByOneGuard,
                Guards!AccessNeedsLock
  <1>. QED BY <1>1, <1>2, <1>3, <1>4, <1>6, <1>7 DEF Guards!Next

(* For any mutexes and handles and any sequence of moves, assignments and  *)
(* releases, a mutex is locked exactly while one guard points to it.       *)
THEOREM MutexLockedByOneGuard ==
  ASSUME Guards!NoneAssumption
  PROVE  Guards!Spec => []Guards!LockedByOneGuard
  <1>1. Guards!Init => GuardInv
    BY InitGuardInv
  <1>2. GuardInv /\ [Guards!Next]_(Guards!vars) => GuardInv'
    BY NextGuardInv
  <1>3. GuardInv => Guards!LockedByOneGuard
    BY DEF GuardInv
  <1>. QED BY <1>1, <1>2, <1>3, PTL DEF Guards!Spec

(* For any mutexes and handles, access to data goes with its lock. *)
THEOREM MutexAccessNeedsLock ==
  ASSUME Guards!NoneAssumption
  PROVE  Guards!Spec => []Guards!AccessNeedsLock
  <1>1. Guards!Init => GuardInv
    BY InitGuardInv
  <1>2. GuardInv /\ [Guards!Next]_(Guards!vars) => GuardInv'
    BY NextGuardInv
  <1>3. GuardInv => Guards!AccessNeedsLock
    BY DEF GuardInv
  <1>. QED BY <1>1, <1>2, <1>3, PTL DEF Guards!Spec

-----------------------------------------------------------------------------
(* The types of the clock's state. *)
ClockTypeOK ==
  /\ micros_since_start \in Nat /\ millis_since_start \in Nat
  /\ ticks_in_this_micro \in 0 .. ticks_per_micro
  /\ micros_in_this_milli \in 0 .. micros_per_milli
  /\ handled \in Nat
  /\ us \in Nat /\ began \in Nat /\ since \in Nat

(* Once a microsecond was counted, a tick of the next one was: it is over  *)
(* only when a tick more comes.                                            *)
OneTickIn == micros_since_start > 0 => ticks_in_this_micro > 0

(* A sleeper began in the microsecond it remembers. *)
BeganInMicro ==
  sleeper # "awake" =>
    /\ us > 0 /\ began <= micros_since_start
    /\ since <= began * ticks_per_micro + ticks_per_micro

WokenInTime == sleeper = "woken" => began + us <= micros_since_start

ClockInv == ClockTypeOK /\ Clock!CountersAgree /\ OneTickIn /\ BeganInMicro /\ WokenInTime

(* Products, as the counters need them. *)
LEMMA NextMultiple == \A a, t \in Nat : (a + 1) * t = a * t + t
  OBVIOUS

(* A larger number of microseconds has at least as many ticks. *)
LEMMA LargerMultiple == \A a, b, t \in Nat : a <= b => a * t <= b * t
  OBVIOUS

(* Products of natural numbers are natural numbers. *)
LEMMA ProductIsNat == \A a, t \in Nat : a * t \in Nat
  OBVIOUS

(* The counters start together, and no tick and no sleep sets them apart.  *)
LEMMA InitClockInv ==
  ASSUME Clock!TimingAssumption
  PROVE  Clock!Init => ClockInv
  BY DEF Clock!TimingAssumption, Clock!Init, ClockInv, ClockTypeOK, Clock!CountersAgree,
         OneTickIn, BeganInMicro, WokenInTime

(* A tick is carried from one counter to the next without loss. *)
LEMMA TickKeepsCounters ==
  ASSUME Clock!TimingAssumption, ClockInv, Clock!timer_handler
  PROVE  /\ ClockTypeOK' /\ Clock!CountersAgree' /\ OneTickIn'
         /\ micros_since_start <= micros_since_start'
  <1>0. ticks_per_micro \in Nat \ {0} /\ micros_per_milli \in Nat \ {0}
    BY DEF Clock!TimingAssumption
  <1>. USE <1>0
  <1>. DEFINE P == micros_since_start * ticks_per_micro
              Q == millis_since_start * micros_per_milli
  <1>1. P \in Nat /\ Q \in Nat
    BY ProductIsNat DEF ClockInv, ClockTypeOK
  <1>2. (micros_since_start + 1) * ticks_per_micro = P + ticks_per_micro
    BY NextMultiple DEF ClockInv, ClockTypeOK
  <1>3. (millis_since_start + 1) * micros_per_milli = Q + micros_per_milli
    BY NextMultiple DEF ClockInv, ClockTypeOK
  <1>4. P + ticks_in_this_micro = handled /\ Q + micros_in_this_milli = micros_since_start
    BY DEF ClockInv, Clock!CountersAgree
  <1>5. CASE ~Clock!MicroIsOver
    <2>1. /\ micros_since_start' = micros_since_start
          /\ millis_since_start' = millis_since_start
          /\ micros_in_this_milli' = micros_in_this_milli
          /\ ticks_in_this_micro' = ticks_in_this_micro + 1
          /\ ticks_in_this_micro < ticks_per_micro
          /\ handled' = handled + 1
          /\ us' = us /\ began' = began /\ since' = since
      BY <1>5 DEF Clock!timer_handler, Clock!tick, Clock!MicroIsOver, ClockInv,
                  ClockTypeOK, Clock!sleep
    <2>2. micros_since_start' * ticks_per_micro + ticks_in_this_micro' = handled'
      BY <2>1, <1>1, <1>4 DEF ClockInv, ClockTypeOK
    <2>3. millis_since_start' * micros_per_milli + micros_in_this_milli' = micros_since_start'
      BY <2>1, <1>4
    <2>4. ticks_in_this_micro' \in 0 .. ticks_per_micro
      BY <2>1 DEF ClockInv, ClockTypeOK
    <2>5. ClockTypeOK'
      BY <2>1, <2>4 DEF ClockInv, ClockTypeOK
    <2>6. Clock!CountersAgree'
      BY <2>2, <2>3, <2>5 DEF Clock!CountersAgree, ClockTypeOK
    <2>7. OneTickIn' /\ micros_since_start <= micros_since_start'
      BY <2>1, <2>4 DEF ClockInv, ClockTypeOK, OneTickIn
    <2>. QED BY <2>5, <2>6, <2>7
  <1>6. CASE Clock!MicroIsOver
    <2>1. /\ micros_since_start' = micros_since_start + 1
          /\ ticks_in_this_micro' = 1 /\ ticks_in_this_micro = ticks_per_micro
          /\ handled' = handled + 1
          /\ us' = us /\ began' = began /\ since' = since
      BY <1>6 DEF Clock!timer_handler, Clock!tick, Clock!MicroIsOver, ClockInv,
                  ClockTypeOK, Clock!sleep
    <2>2. micros_since_start' * ticks_per_micro + ticks_in_this_micro' = handled'
      <3>1. micros_since_start' * ticks_per_micro = P + ticks_per_micro
        BY <1>2, <2>1
      <3>. QED BY <3>1, <1>1, <1>4, <2>1 DEF ClockInv, ClockTypeOK
    <2>3. /\ millis_since_start' \in Nat
          /\ micros_in_this_milli' \in 0 .. micros_per_milli
          /\ millis_since_start' * micros_per_milli + micros_in_this_milli' = micros_since_start'
      <3>1. CASE Clock!MilliIsOver
        <4>1. /\ millis_since_start' = millis_since_start + 1
              /\ micros_in_this_milli' = 1 /\ micros_in_this_milli = micros_per_milli
          BY <1>6, <3>1 DEF Clock!timer_handler, Clock!tick, Clock!MilliIsOver,
                            Clock!CountMilli, ClockInv, ClockTypeOK
        <4>2. millis_since_start' * micros_per_milli = Q + micros_per_milli
          BY <1>3, <4>1
        <4>. QED BY <4>1, <4>2, <1>1, <1>4, <2>1 DEF ClockInv, ClockTypeOK
      <3>2. CASE ~Clock!MilliIsOver
        <4>1. /\ millis_since_start' = millis_since_start
              /\ micros_in_this_milli' = micros_in_this_milli + 1
              /\ micros_in_this_milli < micros_per_milli
          BY <1>6, <3>2 DEF Clock!timer_handler, Clock!tick, Clock!MilliIsOver, ClockInv,
                            ClockTypeOK
        <4>2. millis_since_start' * micros_per_milli = Q
          BY <4>1
        <4>. QED BY <4>1, <4>2, <1>1, <1>4, <2>1 DEF ClockInv, ClockTypeOK
      <3>. QED BY <3>1, <3>2
    <2>4. ticks_in_this_micro' \in 0 .. ticks_per_micro
      BY <2>1
    <2>5. Clock!CountersAgree'
      BY <2>2, <2>3, <2>4 DEF Clock!CountersAgree
    <2>6. ClockTypeOK'
      BY <2>1, <2>3, <2>4 DEF ClockInv, ClockTypeOK
    <2>7. OneTickIn' /\ micros_since_start <= micros_since_start'
      BY <2>1 DEF ClockInv, ClockTypeOK, OneTickIn
    <2>. QED BY <2>5, <2>6, <2>7
  <1>. QED BY <1>5, <1>6

(* Neither a tick nor a step of the sleeper sets the counters apart. *)
LEMMA NextClockInv ==
  ASSUME Clock!TimingAssumption
  PROVE  ClockInv /\ [Clock!Next]_(Clock!vars) => ClockInv'
  <1>. SUFFICES ASSUME ClockInv, [Clock!Next]_(Clock!vars) PROVE ClockInv'
    OBVIOUS
  <1>0. ticks_per_micro \in Nat /\ micros_per_milli \in Nat
    BY DEF Clock!TimingAssumption
  <1>1. CASE Clock!Pit
    BY <1>1 DEF Clock!Pit, Clock!counters, Clock!sleep, ClockInv, ClockTypeOK,
                Clock!CountersAgree, OneTickIn, BeganInMicro, WokenInTime
  <1>2. CASE Clock!timer_handler
    <2>1. /\ ClockTypeOK' /\ Clock!CountersAgree' /\ OneTickIn'
          /\ micros_since_start <= micros_since_start'
      BY <1>2, TickKeepsCounters
    <2>2. us' = us /\ began' = began /\ since' = since /\ sleeper' = sleeper
      BY <1>2 DEF Clock!timer_handler, Clock!sleep
    <2>3. micros_since_start \in Nat /\ micros_since_start' \in Nat /\ began \in Nat /\ us \in Nat
      BY <2>1 DEF ClockInv, ClockTypeOK
    <2>4. WokenInTime'
      <3>1. micros_since_start <= micros_since_start'
        BY <2>1
      <3>2. sleeper = "woken" => began + us <= micros_since_start
        BY DEF ClockInv, WokenInTime
      <3>3. sleeper = "woken" => began + us <= micros_since_start'
        BY <3>1, <3>2, <2>3
      <3>. QED BY <3>3, <2>2 DEF WokenInTime
    <2>5. sleeper # "awake" => us > 0 /\ began <= micros_since_start'
      BY <2>1, <2>3 DEF ClockInv, BeganInMicro
    <2>6. sleeper # "awake" => since' <= began' * ticks_per_micro + ticks_per_micro
      BY <2>2 DEF ClockInv, BeganInMicro
    <2>7. BeganInMicro'
      BY <2>2, <2>5, <2>6 DEF BeganInMicro
    <2>. QED BY <2>1, <2>4, <2>7 DEF ClockInv
  <1>3. ASSUME NEW n \in Nat \ {0}, Clock!busy_sleep(n) PROVE ClockInv'
    <2>1. ClockTypeOK' /\ Clock!CountersAgree' /\ OneTickIn' /\ WokenInTime'
      BY <1>0, <1>3 DEF Clock!busy_sleep, Clock!counters, ClockInv, ClockTypeOK,
                        Clock!CountersAgree, OneTickIn, WokenInTime
    <2>2. /\ us' = n /\ began' = micros_since_start /\ since' = handled
          /\ micros_since_start' = micros_since_start
      BY <1>3 DEF Clock!busy_sleep, Clock!counters
    <2>3. handled <= micros_since_start * ticks_per_micro + ticks_per_micro
      BY <1>0, ProductIsNat DEF ClockInv, ClockTypeOK, Clock!CountersAgree
    <2>4. since' <= began' * ticks_per_micro + ticks_per_micro
      BY <2>2, <2>3
    <2>. QED BY <1>0, <2>1, <2>2, <2>4 DEF ClockInv, ClockTypeOK, BeganInMicro
  <1>4. CASE Clock!WakeUp
    BY <1>4 DEF Clock!WakeUp, Clock!Slept, Clock!counters, ClockInv, ClockTypeOK,
                Clock!CountersAgree, OneTickIn, BeganInMicro, WokenInTime
  <1>5. CASE Clock!Again
    BY <1>5 DEF Clock!Again, Clock!counters, ClockInv, ClockTypeOK, Clock!CountersAgree,
                OneTickIn, BeganInMicro, WokenInTime
  <1>6. CASE UNCHANGED Clock!vars
    BY <1>6 DEF Clock!vars, Clock!counters, Clock!sleep, ClockInv, ClockTypeOK,
                Clock!CountersAgree, OneTickIn, BeganInMicro, WokenInTime
  <1>. QED BY <1>1, <1>2, <1>3, <1>4, <1>5, <1>6 DEF Clock!Next

(* A sleeper that is woken has slept long enough. *)
LEMMA ClockInvSleeps ==
  ASSUME Clock!TimingAssumption
  PROVE  ClockInv => Clock!SleepsLongEnough
  <1>. SUFFICES ASSUME ClockInv, sleeper = "woken"
                PROVE  handled - since > (us - 1) * ticks_per_micro
    BY DEF Clock!SleepsLongEnough
  <1>0. ticks_per_micro \in Nat \ {0} /\ micros_per_milli \in Nat \ {0}
    BY DEF Clock!TimingAssumption
  <1>. USE <1>0
  <1>. DEFINE M == micros_since_start * ticks_per_micro
              D == began * ticks_per_micro
              U == (us - 1) * ticks_per_micro
  <1>1. /\ us \in Nat /\ us > 0 /\ began \in Nat /\ micros_since_start \in Nat
        /\ began + us <= micros_since_start
        /\ since \in Nat /\ since <= D + ticks_per_micro
        /\ handled = M + ticks_in_this_micro /\ ticks_in_this_micro \in Nat
        /\ ticks_in_this_micro > 0
    BY DEF ClockInv, ClockTypeOK, Clock!CountersAgree, OneTickIn, BeganInMicro, WokenInTime
  <1>2. M \in Nat /\ D \in Nat /\ U \in Nat
    BY <1>1, ProductIsNat
  <1>3. (began + us) * ticks_per_micro <= M
    BY <1>1, LargerMultiple
  <1>4. (began + us) * ticks_per_micro = D + U + ticks_per_micro
    <2>1. (began + us) * ticks_per_micro = began * ticks_per_micro + us * ticks_per_micro
      BY <1>1, SMT
    <2>2. us * ticks_per_micro = (us - 1) * ticks_per_micro + ticks_per_micro
      BY <1>1, SMT
    <2>. QED BY <2>1, <2>2, <1>2
  <1>. HIDE DEF M, D, U
  <1>5. handled - since > U
    BY <1>1, <1>2, <1>3, <1>4
  <1>. QED BY <1>5 DEF U

(* For any units, the counters are the ticks handled, in microseconds and  *)
(* milliseconds with their remainders.                                     *)
THEOREM TimingCounts ==
  ASSUME Clock!TimingAssumption
  PROVE  Clock!Spec => []Clock!CountersAgree
  <1>1. Clock!Init => ClockInv
    BY InitClockInv
  <1>2. ClockInv /\ [Clock!Next]_(Clock!vars) => ClockInv'
    BY NextClockInv
  <1>3. ClockInv => Clock!CountersAgree
    BY DEF ClockInv
  <1>. QED BY <1>1, <1>2, <1>3, PTL DEF Clock!Spec

(* For any units, busy_sleep lets the ticks of all but one of its          *)
(* microseconds pass.                                                      *)
THEOREM TimingSleeps ==
  ASSUME Clock!TimingAssumption
  PROVE  Clock!Spec => []Clock!SleepsLongEnough
  <1>1. Clock!Init => ClockInv
    BY InitClockInv
  <1>2. ClockInv /\ [Clock!Next]_(Clock!vars) => ClockInv'
    BY NextClockInv
  <1>3. ClockInv => Clock!SleepsLongEnough
    BY ClockInvSleeps
  <1>. QED BY <1>1, <1>2, <1>3, PTL DEF Clock!Spec

-----------------------------------------------------------------------------
USE CapacityAssumption, NoneAssumption

IInv == TypeOK /\ Consistent

-----------------------------------------------------------------------------
(* The k-th element of a buffer lies in the array. *)
LEMMA SlotInSlots ==
  ASSUME TypeOK, NEW k \in 1 .. Capacity + 1
  PROVE  Slot(k) \in Slots
BY DEF TypeOK, Slot, Slots

(* Different elements lie in different slots. *)
LEMMA SlotsDiffer ==
  ASSUME TypeOK, NEW j \in 1..Capacity, NEW k \in 1..Capacity, j # k
  PROVE  Slot(j) # Slot(k)
BY DEF TypeOK, Slot, Slots

(* Both constructors build a consistent buffer. *)
LEMMA InitIInv == Init => IInv
<1> SUFFICES ASSUME Init PROVE IInv
  OBVIOUS
<1>1. PICK m \in 0..Capacity : \E input \in [0 .. m - 1 -> Elem] :
         /\ storage = [i \in Slots |-> IF i < m THEN input[i] ELSE None]
         /\ begin = 0
         /\ end = IF m = Capacity THEN 0 ELSE m
         /\ count = m
         /\ outcome = "done"
         /\ popped = None
  BY DEF Init
<1>2. PICK input \in [0 .. m - 1 -> Elem] :
         /\ storage = [i \in Slots |-> IF i < m THEN input[i] ELSE None]
         /\ begin = 0
         /\ end = IF m = Capacity THEN 0 ELSE m
         /\ count = m
         /\ outcome = "done"
         /\ popped = None
  BY <1>1
<1>3. TypeOK
  BY <1>2 DEF TypeOK, Slots
<1>4. end = Slot(count + 1)
  BY <1>2 DEF Slot
<1>5. ASSUME NEW k \in 1..count PROVE storage[Slot(k)] \in Elem
  <2>1. Slot(k) = k - 1 /\ k - 1 \in Slots /\ k - 1 \in 0 .. m - 1
    BY <1>2 DEF Slot, Slots
  <2> QED BY <2>1, <1>2
<1> QED BY <1>3, <1>4, <1>5 DEF IInv, Consistent

(* No operation leaves the types of the members. *)
LEMMA TypeStep == TypeOK /\ [Next]_vars => TypeOK'
<1> USE DEF TypeOK, Slots, forward_wrap, backward_wrap, full, empty, Refuse
<1> SUFFICES ASSUME TypeOK, [Next]_vars PROVE TypeOK'
  OBVIOUS
<1>1. ASSUME NEW v \in Elem, push_back(v) PROVE TypeOK'
  BY <1>1 DEF push_back
<1>2. ASSUME NEW v \in Elem, push_front(v) PROVE TypeOK'
  BY <1>2 DEF push_front
<1>3. CASE pop_front
  BY <1>3 DEF pop_front
<1>4. CASE pop_back
  BY <1>4 DEF pop_back
<1>5. CASE clear
  BY <1>5 DEF clear
<1>6. CASE UNCHANGED vars
  BY <1>6 DEF vars
<1> QED BY <1>1, <1>2, <1>3, <1>4, <1>5, <1>6 DEF Next

(* What each successful call does to the occupied slots. *)
LEMMA PushBackSlots ==
  ASSUME TypeOK, Consistent, NEW v \in Elem, push_back(v), ~full
  PROVE  /\ count' = count + 1 /\ count < Capacity
         /\ end' = forward_wrap(end)
         /\ \A k \in 1 .. Capacity + 1 : Slot(k)' = Slot(k)
         /\ storage'[Slot(count + 1)] = v
         /\ \A k \in 1..count : storage'[Slot(k)] = storage[Slot(k)]
         /\ outcome' = "done" /\ popped' = popped
<1>1. /\ begin' = begin /\ end' = forward_wrap(end)
      /\ storage' = [storage EXCEPT ![end] = v]
      /\ count' = count + 1 /\ count < Capacity
      /\ outcome' = "done" /\ popped' = popped
  BY DEF push_back, full, Refuse, TypeOK
<1>2. \A k \in 1 .. Capacity + 1 : Slot(k)' = Slot(k)
  BY <1>1 DEF Slot
<1>3. storage'[Slot(count + 1)] = v
  BY <1>1 DEF TypeOK, Consistent
<1>4. ASSUME NEW k \in 1..count PROVE storage'[Slot(k)] = storage[Slot(k)]
  <2>1. Slot(k) # Slot(count + 1) /\ Slot(k) \in Slots
    BY <1>1, SlotsDiffer, SlotInSlots DEF TypeOK
  <2> QED BY <2>1, <1>1 DEF TypeOK, Consistent
<1> QED BY <1>1, <1>2, <1>3, <1>4

(* push_front renumbers the elements by one and keeps their slots. *)
LEMMA PushFrontSlots ==
  ASSUME TypeOK, Consistent, NEW v \in Elem, push_front(v), ~full
  PROVE  /\ count' = count + 1 /\ count < Capacity
         /\ end' = end
         /\ \A k \in 2 .. Capacity + 1 : Slot(k)' = Slot(k - 1)
         /\ storage'[Slot(1)'] = v
         /\ \A k \in 1..count : storage'[Slot(k)] = storage[Slot(k)]
         /\ outcome' = "done" /\ popped' = popped
<1>1. /\ begin' = backward_wrap(begin) /\ begin' \in Slots /\ end' = end
      /\ storage' = [storage EXCEPT ![begin'] = v]
      /\ count' = count + 1 /\ count < Capacity
      /\ outcome' = "done" /\ popped' = popped
  BY DEF push_front, full, Refuse, TypeOK, backward_wrap, Slots
<1>2. \A k \in 2 .. Capacity + 1 : Slot(k)' = Slot(k - 1)
  BY <1>1 DEF Slot, backward_wrap, TypeOK, Slots
<1>3. Slot(1)' = begin'
  BY <1>1 DEF Slot, Slots
<1>4. \A k \in 1..count : Slot(k) # begin' /\ Slot(k) \in Slots
  BY <1>1 DEF Slot, backward_wrap, TypeOK, Slots
<1>5. storage'[Slot(1)'] = v
  BY <1>1, <1>3 DEF TypeOK
<1>6. \A k \in 1..count : storage'[Slot(k)] = storage[Slot(k)]
  BY <1>1, <1>4 DEF TypeOK
<1> QED BY <1>1, <1>2, <1>5, <1>6

(* pop_front renumbers the elements by one and keeps their slots. *)
LEMMA PopFrontSlots ==
  ASSUME TypeOK, Consistent, pop_front, ~empty
  PROVE  /\ count' = count - 1 /\ count > 0
         /\ end' = end /\ storage' = storage
         /\ \A k \in 1..Capacity : Slot(k)' = Slot(k + 1)
         /\ popped' = storage[Slot(1)] /\ outcome' = "done"
<1>1. /\ begin' = forward_wrap(begin) /\ end' = end /\ storage' = storage
      /\ count' = count - 1 /\ count > 0
      /\ popped' = storage[begin] /\ outcome' = "done"
  BY DEF pop_front, empty, Refuse, TypeOK
<1>2. \A k \in 1..Capacity : Slot(k)' = Slot(k + 1)
  BY <1>1 DEF Slot, forward_wrap, TypeOK, Slots
<1>3. Slot(1) = begin
  BY DEF Slot, TypeOK, Slots
<1> QED BY <1>1, <1>2, <1>3

(* pop_back keeps the number and the slot of what it leaves. *)
LEMMA PopBackSlots ==
  ASSUME TypeOK, Consistent, pop_back, ~empty
  PROVE  /\ count' = count - 1 /\ count > 0
         /\ end' = Slot(count) /\ storage' = storage
         /\ \A k \in 1 .. Capacity + 1 : Slot(k)' = Slot(k)
         /\ popped' = storage[Slot(count)] /\ outcome' = "done"
<1>1. /\ begin' = begin /\ end' = backward_wrap(end) /\ storage' = storage
      /\ count' = count - 1 /\ count > 0
      /\ popped' = storage[end'] /\ outcome' = "done"
  BY DEF pop_back, empty, Refuse, TypeOK
<1>2. \A k \in 1 .. Capacity + 1 : Slot(k)' = Slot(k)
  BY <1>1 DEF Slot
<1>3. end' = Slot(count)
  BY <1>1 DEF TypeOK, Slot, backward_wrap, Slots, Consistent
<1> QED BY <1>1, <1>2, <1>3

(* No operation lets begin, end and count drift apart. *)
LEMMA ConsistentStep == IInv /\ [Next]_vars => Consistent'
<1> SUFFICES ASSUME TypeOK, Consistent, [Next]_vars PROVE Consistent'
  BY DEF IInv
<1> USE DEF Consistent
<1>1. ASSUME Refuse PROVE Consistent'
  BY <1>1 DEF Refuse, Slot
<1>2. ASSUME NEW v \in Elem, push_back(v), ~full PROVE Consistent'
  <2>1. (end = Slot(count + 1))'
    BY <1>2, PushBackSlots DEF Slot, forward_wrap, TypeOK, Slots, push_back, full
  <2>2. ASSUME NEW k \in 1..count' PROVE storage'[Slot(k)'] \in Elem
    <3>1. k \in 1 .. Capacity + 1 /\ (k = count + 1 \/ k \in 1..count)
      BY <1>2, PushBackSlots DEF TypeOK
    <3> QED BY <3>1, <1>2, PushBackSlots
  <2> QED BY <2>1, <2>2
<1>3. ASSUME NEW v \in Elem, push_front(v), ~full PROVE Consistent'
  <2>1. (end = Slot(count + 1))'
    BY <1>3, PushFrontSlots DEF TypeOK
  <2>2. ASSUME NEW k \in 1..count' PROVE storage'[Slot(k)'] \in Elem
    <3>1. k = 1 \/ (k \in 2 .. Capacity + 1 /\ k - 1 \in 1..count)
      BY <1>3, PushFrontSlots DEF TypeOK
    <3> QED BY <3>1, <1>3, PushFrontSlots
  <2> QED BY <2>1, <2>2
<1>4. ASSUME pop_front, ~empty PROVE Consistent'
  <2>1. (end = Slot(count + 1))'
    BY <1>4, PopFrontSlots DEF TypeOK
  <2>2. ASSUME NEW k \in 1..count' PROVE storage'[Slot(k)'] \in Elem
    <3>1. k + 1 \in 1..count /\ k \in 1..Capacity
      BY <1>4, PopFrontSlots DEF TypeOK
    <3> QED BY <3>1, <1>4, PopFrontSlots
  <2> QED BY <2>1, <2>2
<1>5. ASSUME pop_back, ~empty PROVE Consistent'
  <2>1. (end = Slot(count + 1))'
    BY <1>5, PopBackSlots DEF TypeOK
  <2>2. ASSUME NEW k \in 1..count' PROVE storage'[Slot(k)'] \in Elem
    <3>1. k \in 1..count /\ k \in 1 .. Capacity + 1
      BY <1>5, PopBackSlots DEF TypeOK
    <3> QED BY <3>1, <1>5, PopBackSlots
  <2> QED BY <2>1, <2>2
<1>6. CASE clear
  BY <1>6 DEF clear, Slot
<1>7. CASE UNCHANGED vars
  BY <1>7 DEF vars, Slot
<1> QED BY <1>1, <1>2, <1>3, <1>4, <1>5, <1>6, <1>7
        DEF Next, push_back, push_front, pop_front, pop_back

(* Every reachable state of a ring buffer is well typed and consistent:    *)
(* no sequence of pushes, pops and clears lets begin, end and count drift  *)
(* apart.                                                                  *)
THEOREM RingBufferConsistent == Spec => [](TypeOK /\ Consistent)
<1>1. Init => IInv
  BY InitIInv
<1>2. IInv /\ [Next]_vars => IInv'
  BY TypeStep, ConsistentStep DEF IInv
<1>3. IInv => TypeOK /\ Consistent
  BY DEF IInv
<1> QED BY <1>1, <1>2, <1>3, PTL DEF Spec

(* Whatever the capacity and the sequence of calls, front() and back() of  *)
(* a non-empty buffer are the first and the last of its contents.          *)
THEOREM RingBufferFrontAndBack == Spec => []FrontAndBack
<1>1. TypeOK /\ Consistent => FrontAndBack
  <2> SUFFICES ASSUME TypeOK, Consistent, count > 0
               PROVE  front = Contents[1] /\ back = Contents[count]
    BY DEF FrontAndBack
  <2>1. 1 \in 1..count /\ count \in 1..count /\ Slot(1) = begin
    BY DEF TypeOK, Slot, Slots
  <2>2. backward_wrap(end) = Slot(count)
    BY DEF TypeOK, Consistent, Slot, Slots, backward_wrap
  <2> QED BY <2>1, <2>2 DEF front, back, Contents
<1> QED BY <1>1, RingBufferConsistent, PTL

(* A range-for over a buffer of any capacity visits its elements, except   *)
(* that it visits none of a full one, whose begin() equals its end().      *)
THEOREM RingBufferIteratesUnlessFull ==
  Spec => []IF full THEN Visited = << >> ELSE IterationVisitsAll
<1> DEFINE Steps == IF begin <= end THEN end - begin ELSE end + Capacity - begin
<1>1. TypeOK /\ Consistent => IF full THEN Visited = << >> ELSE IterationVisitsAll
  <2> SUFFICES ASSUME TypeOK, Consistent
               PROVE  IF full THEN Visited = << >> ELSE IterationVisitsAll
    OBVIOUS
  <2>1. Steps = IF full THEN 0 ELSE count
    BY DEF TypeOK, Consistent, Slot, Slots, full
  <2>2. Visited = [k \in 1 .. Steps |-> storage[Slot(k)]]
    BY DEF Visited
  <2> HIDE DEF Steps
  <2>3. CASE full
    BY <2>1, <2>2, <2>3
  <2>4. CASE ~full
    BY <2>1, <2>2, <2>4 DEF IterationVisitsAll, Contents
  <2> QED BY <2>3, <2>4
<1> QED BY <1>1, RingBufferConsistent, PTL

(* The members of a ring buffer keep their types under any calls. *)
THEOREM RingBufferTypes == Spec => []TypeOK
<1>1. TypeOK /\ Consistent => TypeOK
  OBVIOUS
<1> QED BY <1>1, RingBufferConsistent, PTL

-----------------------------------------------------------------------------
(* The contents of a consistent buffer are a sequence of elements. *)
LEMMA ContentsIsSeq ==
  ASSUME TypeOK, Consistent
  PROVE  /\ Contents \in Seq(Elem)
         /\ Len(Contents) = count
         /\ \A k \in 1..count : Contents[k] = storage[Slot(k)]
BY DEF Contents, TypeOK, Consistent

(* push_back is PushBack of the deque. *)
LEMMA PushBackRefines ==
  ASSUME IInv, IInv', NEW v \in Elem, push_back(v)
  PROVE  Deque!PushBack(v)
<1> USE DEF IInv
<1>1. CASE full /\ Refuse
  BY <1>1, ContentsIsSeq
     DEF full, Refuse, Deque!PushBack, Deque!Refuse, Contents, Slot
<1>2. CASE ~full
  <2>1. Contents' \in Seq(Elem) /\ Len(Contents') = count + 1
        /\ \A k \in 1 .. count + 1 : Contents'[k] = storage'[Slot(k)']
    BY <1>2, PushBackSlots, ContentsIsSeq DEF Contents, TypeOK, Consistent
  <2>2. \A k \in 1..count : Contents'[k] = Contents[k]
    BY <1>2, <2>1, PushBackSlots, ContentsIsSeq DEF TypeOK
  <2>3. Contents'[count + 1] = v
    BY <1>2, <2>1, PushBackSlots DEF TypeOK
  <2>4. Contents' = Append(Contents, v)
    <3>1. Append(Contents, v) \in Seq(Elem) /\ Len(Append(Contents, v)) = count + 1
          /\ \A k \in 1..count : Append(Contents, v)[k] = Contents[k]
          /\ Append(Contents, v)[count + 1] = v
      BY ContentsIsSeq, AppendProperties
    <3>2. \A k \in 1 .. count + 1 : k \in 1..count \/ k = count + 1
      BY DEF TypeOK
    <3> QED BY <3>1, <3>2, <2>1, <2>2, <2>3, SeqEqual
  <2> QED BY <1>2, <2>4, PushBackSlots, ContentsIsSeq DEF Deque!PushBack
<1> QED BY <1>1, <1>2 DEF push_back

(* push_front is PushFront of the deque. *)
LEMMA PushFrontRefines ==
  ASSUME IInv, IInv', NEW v \in Elem, push_front(v)
  PROVE  Deque!PushFront(v)
<1> USE DEF IInv
<1>1. CASE full /\ Refuse
  BY <1>1, ContentsIsSeq
     DEF full, Refuse, Deque!PushFront, Deque!Refuse, Contents, Slot
<1>2. CASE ~full
  <2>1. Contents' \in Seq(Elem) /\ Len(Contents') = count + 1
        /\ \A k \in 1 .. count + 1 : Contents'[k] = storage'[Slot(k)']
    BY <1>2, PushFrontSlots, ContentsIsSeq DEF Contents, TypeOK, Consistent
  <2>2. ASSUME NEW k \in 2 .. count + 1 PROVE Contents'[k] = Contents[k - 1]
    <3>1. k \in 2 .. Capacity + 1 /\ k - 1 \in 1..count /\ k \in 1 .. count + 1
      BY <1>2, PushFrontSlots DEF TypeOK
    <3> QED BY <3>1, <1>2, <2>1, PushFrontSlots, ContentsIsSeq
  <2>3. Contents'[1] = v
    BY <1>2, <2>1, PushFrontSlots DEF TypeOK
  <2>4. Contents' = <<v>> \o Contents
    <3>1. <<v>> \in Seq(Elem) /\ Len(<<v>>) = 1 /\ <<v>>[1] = v
      OBVIOUS
    <3>2. /\ <<v>> \o Contents \in Seq(Elem)
          /\ Len(<<v>> \o Contents) = 1 + count
          /\ \A k \in 1 .. 1 + count : (<<v>> \o Contents)[k] =
                IF k <= 1 THEN <<v>>[k] ELSE Contents[k - 1]
      BY <3>1, ContentsIsSeq, ConcatProperties
    <3>3. \A k \in 1 .. count + 1 : Contents'[k] = (<<v>> \o Contents)[k]
      BY <3>1, <3>2, <2>2, <2>3 DEF TypeOK
    <3> QED BY <3>2, <3>3, <2>1, SeqEqual DEF TypeOK
  <2> QED BY <1>2, <2>4, PushFrontSlots, ContentsIsSeq DEF Deque!PushFront
<1> QED BY <1>1, <1>2 DEF push_front

(* pop_front is PopFront of the deque. *)
LEMMA PopFrontRefines ==
  ASSUME IInv, IInv', pop_front
  PROVE  Deque!PopFront
<1> USE DEF IInv
<1>1. CASE empty /\ Refuse
  BY <1>1, ContentsIsSeq, EmptySeq
     DEF empty, Refuse, Deque!PopFront, Deque!Refuse, Contents, Slot
<1>2. CASE ~empty
  <2>1. Contents' \in Seq(Elem) /\ Len(Contents') = count - 1
        /\ \A k \in 1 .. count - 1 : Contents'[k] = storage'[Slot(k)']
    <3>1. count' = count - 1 /\ count - 1 \in Nat
      BY <1>2, PopFrontSlots DEF TypeOK
    <3>2. Contents' = [k \in 1 .. count - 1 |-> storage'[Slot(k)']]
      BY <3>1 DEF Contents
    <3>3. \A k \in 1 .. count - 1 : storage'[Slot(k)'] \in Elem
      BY <3>1 DEF Consistent
    <3> QED BY <3>1, <3>2, <3>3
  <2>2. ASSUME NEW k \in 1 .. count - 1 PROVE Contents'[k] = Contents[k + 1]
    <3>1. k \in 1..Capacity /\ k + 1 \in 1..count
      BY DEF TypeOK
    <3> QED BY <3>1, <1>2, <2>1, PopFrontSlots, ContentsIsSeq
  <2>3. Contents # <<>>
    BY <1>2, PopFrontSlots, ContentsIsSeq
  <2>4. Contents' = Tail(Contents)
    <3>1. /\ Tail(Contents) \in Seq(Elem)
          /\ Len(Tail(Contents)) = count - 1
          /\ \A k \in 1 .. count - 1 : Tail(Contents)[k] = Contents[k + 1]
      BY <2>3, ContentsIsSeq, HeadTailProperties
    <3> QED BY <3>1, <2>1, <2>2, SeqEqual
  <2>5. Head(Contents) = storage[Slot(1)]
    BY <1>2, PopFrontSlots, ContentsIsSeq DEF TypeOK
  <2> QED BY <1>2, <2>3, <2>4, <2>5, PopFrontSlots DEF Deque!PopFront
<1> QED BY <1>1, <1>2 DEF pop_front

(* pop_back is PopBack of the deque. *)
LEMMA PopBackRefines ==
  ASSUME IInv, IInv', pop_back
  PROVE  Deque!PopBack
<1> USE DEF IInv
<1>1. CASE empty /\ Refuse
  BY <1>1, ContentsIsSeq, EmptySeq
     DEF empty, Refuse, Deque!PopBack, Deque!Refuse, Contents, Slot
<1>2. CASE ~empty
  <2>1. Contents' \in Seq(Elem) /\ Len(Contents') = count - 1
        /\ \A k \in 1 .. count - 1 : Contents'[k] = storage'[Slot(k)']
    <3>1. count' = count - 1 /\ count - 1 \in Nat
      BY <1>2, PopBackSlots DEF TypeOK
    <3>2. Contents' = [k \in 1 .. count - 1 |-> storage'[Slot(k)']]
      BY <3>1 DEF Contents
    <3>3. \A k \in 1 .. count - 1 : storage'[Slot(k)'] \in Elem
      BY <3>1 DEF Consistent
    <3> QED BY <3>1, <3>2, <3>3
  <2>2. ASSUME NEW k \in 1 .. count - 1 PROVE Contents'[k] = Contents[k]
    <3>1. k \in 1 .. Capacity + 1 /\ k \in 1..count
      BY DEF TypeOK
    <3> QED BY <3>1, <1>2, <2>1, PopBackSlots, ContentsIsSeq
  <2>3. Contents # <<>>
    BY <1>2, PopBackSlots, ContentsIsSeq
  <2>4. Contents' = SubSeq(Contents, 1, Len(Contents) - 1)
    <3>1. \A k \in 1 .. count - 1 : Contents[k] \in Elem
      BY ContentsIsSeq, ElementOfSeq DEF TypeOK
    <3>2. /\ SubSeq(Contents, 1, count - 1) \in Seq(Elem)
          /\ Len(SubSeq(Contents, 1, count - 1)) = count - 1
          /\ \A k \in 1 .. count - 1 : SubSeq(Contents, 1, count - 1)[k] = Contents[k]
      BY <1>2, <3>1, PopBackSlots, SubSeqProperties DEF TypeOK
    <3> QED BY <3>2, <2>1, <2>2, SeqEqual, ContentsIsSeq
  <2>5. Contents[Len(Contents)] = storage[Slot(count)]
    BY <1>2, PopBackSlots, ContentsIsSeq DEF TypeOK
  <2> QED BY <1>2, <2>3, <2>4, <2>5, PopBackSlots DEF Deque!PopBack
<1> QED BY <1>1, <1>2 DEF pop_back

(* clear is Clear of the deque. *)
LEMMA ClearRefines ==
  ASSUME IInv, IInv', clear
  PROVE  Deque!Clear
<1>1. count' = 0
  BY DEF clear
<1>2. Contents' = <<>>
  BY <1>1, ContentsIsSeq DEF Contents
<1> QED BY <1>2 DEF clear, Deque!Clear

(* Every behaviour of the ring buffer is one of a bounded deque: each call *)
(* returns what the deque returns and leaves the elements it would leave,  *)
(* for every capacity and wherever the contents lie in the array.          *)
THEOREM RingBufferRefinesDeque == Spec => RefinesDeque
<1>1. Init => Deque!Init
  <2> SUFFICES ASSUME Init PROVE Deque!Init
    OBVIOUS
  <2>1. IInv
    BY InitIInv
  <2>2. count \in 0..Capacity /\ Contents \in [1..count -> Elem]
    BY <2>1 DEF IInv, TypeOK, Consistent, Contents
  <2>3. outcome = "done" /\ popped = None
    BY DEF Init
  <2> QED BY <2>2, <2>3 DEF Deque!Init
<1>2. IInv /\ IInv' /\ [Next]_vars => [Deque!Next]_(Deque!vars)
  <2> SUFFICES ASSUME IInv, IInv', [Next]_vars
               PROVE  [Deque!Next]_(Deque!vars)
    OBVIOUS
  <2>1. ASSUME NEW v \in Elem, push_back(v) \/ push_front(v)
        PROVE  Deque!Next
    BY <2>1, PushBackRefines, PushFrontRefines DEF Deque!Next
  <2>2. ASSUME pop_front PROVE Deque!Next
    BY <2>2, PopFrontRefines DEF Deque!Next
  <2>3. ASSUME pop_back PROVE Deque!Next
    BY <2>3, PopBackRefines DEF Deque!Next
  <2>4. ASSUME clear PROVE Deque!Next
    BY <2>4, ClearRefines DEF Deque!Next
  <2>5. ASSUME UNCHANGED vars PROVE UNCHANGED Deque!vars
    BY <2>5 DEF vars, Deque!vars, Contents, Slot
  <2> QED BY <2>1, <2>2, <2>3, <2>4, <2>5 DEF Next
<1>3. Spec => []IInv
  BY RingBufferConsistent, PTL DEF IInv
<1> QED BY <1>1, <1>2, <1>3, PTL DEF Spec, RefinesDeque, Deque!Spec
=============================================================================
