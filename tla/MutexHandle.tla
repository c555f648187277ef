----------------------------- MODULE MutexHandle -----------------------------
(***************************************************************************)
(* Mutexes and the objects that own them (mutex.h): guard, mutex_handle    *)
(* and the optional handle of try_lock.  A handle is constructed by lock() *)
(* or try_lock(), moved, assigned, released and destroyed in any order the *)
(* language allows; each call is one step of the task that owns the        *)
(* handle.  acquire() of a locked mutex yields until it is free.  Checked  *)
(* by proof only (module LibraryProofs).                                   *)
(***************************************************************************)
CONSTANTS
  Mutexes,  \* the managed_by_mutex objects
  Handles,  \* the places a mutex_handle may live in
  None      \* the null pointer

NoneAssumption == None \notin Mutexes

VARIABLES
  locked,   \* mutex::locked
  alive,    \* is there an object in the place: "yes" or "no"
  mtx,      \* guard::mtx of the handle's guard
  data      \* mutex_handle::data, named by the mutex that protects it

vars == <<locked, alive, mtx, data>>

Init ==
  /\ locked = [m \in Mutexes |-> "no"]
  /\ alive = [h \in Handles |-> "no"]
  /\ mtx = [h \in Handles |-> None]
  /\ data = [h \in Handles |-> None]

Hold(h, m) ==
  /\ mtx' = [mtx EXCEPT ![h] = m]
  /\ data' = [data EXCEPT ![h] = m]

(* managed_by_mutex::lock: the guard acquires, the handle points to data. *)
lock(h, m) ==
  /\ alive[h] = "no"
  /\ locked[m] = "no"
  /\ locked' = [locked EXCEPT ![m] = "yes"]
  /\ alive' = [alive EXCEPT ![h] = "yes"]
  /\ Hold(h, m)

(* try_lock: the temporary handle is moved into the optional, which leaves *)
(* nothing for its destructor to release; or the optional stays empty.     *)
try_lock(h, m) ==
  /\ alive[h] = "no"
  /\ alive' = [alive EXCEPT ![h] = "yes"]
  /\ \/ /\ locked[m] = "no"
        /\ locked' = [locked EXCEPT ![m] = "yes"]
        /\ Hold(h, m)
     \/ /\ locked[m] = "yes"
        /\ UNCHANGED <<locked, mtx, data>>

(* The guard of a new handle is null before it is swapped. *)
move_construct(h, other) ==
  /\ alive[h] = "no"
  /\ alive[other] = "yes"
  /\ alive' = [alive EXCEPT ![h] = "yes"]
  /\ mtx' = [mtx EXCEPT ![h] = mtx[other], ![other] = None]
  /\ data' = [data EXCEPT ![h] = data[other], ![other] = None]
  /\ UNCHANGED locked

(* Assignment swaps the guards and takes the data; other.data is cleared   *)
(* last, also when other is the object itself.                             *)
SwapGuard(h, other) == [mtx EXCEPT ![h] = mtx[other], ![other] = mtx[h]]

TakeData(h, other) == [data EXCEPT ![h] = data[other], ![other] = None]

move_assign(h, other) ==
  /\ alive[h] = "yes"
  /\ alive[other] = "yes"
  /\ mtx' = SwapGuard(h, other)
  /\ data' = TakeData(h, other)
  /\ UNCHANGED <<locked, alive>>

(* mutex_handle::release, also through optional_storage::destroy: the      *)
(* guard frees its mutex, if it has one.                                   *)
Free(h) ==
  /\ locked' = [m \in Mutexes |-> IF m = mtx[h] THEN "no" ELSE locked[m]]
  /\ mtx' = [mtx EXCEPT ![h] = None]
  /\ data' = [data EXCEPT ![h] = None]

release(h) == alive[h] = "yes" /\ Free(h) /\ UNCHANGED alive

destroy(h) == alive[h] = "yes" /\ Free(h) /\ alive' = [alive EXCEPT ![h] = "no"]

Next ==
  \E h \in Handles :
    \/ \E m \in Mutexes : lock(h, m) \/ try_lock(h, m)
    \/ \E other \in Handles : move_construct(h, other) \/ move_assign(h, other)
    \/ release(h)
    \/ destroy(h)

Spec == Init /\ [][Next]_vars

-----------------------------------------------------------------------------
(* Types of the handles' fields. *)
TypeOK ==
  /\ locked \in [Mutexes -> {"no", "yes"}]
  /\ alive \in [Handles -> {"no", "yes"}]
  /\ mtx \in [Handles -> Mutexes \cup {None}]
  /\ data \in [Handles -> Mutexes \cup {None}]

(* A mutex is locked exactly while one guard points to it, however the     *)
(* guards were moved: none is released twice, and none is lost.            *)
LockedByOneGuard ==
  \A m \in Mutexes :
    /\ locked[m] = "yes" <=> \E h \in Handles : mtx[h] = m
    /\ \A h, g \in Handles : mtx[h] = m /\ mtx[g] = m => h = g

(* A handle that gives access to data holds the lock of that data, and no  *)
(* object that was destroyed does.                                         *)
AccessNeedsLock ==
  \A h \in Handles :
    /\ data[h] # None => data[h] = mtx[h]
    /\ alive[h] = "no" => mtx[h] = None /\ data[h] = None
=============================================================================
