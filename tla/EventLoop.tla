------------------------------ MODULE EventLoop ------------------------------
(***************************************************************************)
(* The timer loop of util/EventLoop.cpp: a thread in Loop, a thread that   *)
(* calls Start and Stop, and users that call AddTimer and ModifyTimer.     *)
(*                                                                         *)
(* mAccessGuard is held by the loop exactly while loop = "pass"; the other *)
(* critical sections are one step each.  Time is abstracted to whether a   *)
(* timer's next has come.  Callbacks return and do not call the EventLoop: *)
(* they run with mAccessGuard held, which is not recursive.                *)
(***************************************************************************)

CONSTANTS
  Timers,   \* names
  Users,    \* threads that call AddTimer and ModifyTimer
  None      \* not a name

ASSUME LoopAssumption == None \notin Timers

VARIABLES
  mTimers,         \* name -> "absent", "pending" (next is to come), "due"
  mStopRequested,
  loop,            \* "off" no thread to join, "begin" before line 73, "sleep"
                   \* in sleep_until, "pass" in UpdateTimers, "done" Loop has
                   \* returned, "abort" the process was terminated
  left,            \* due timers UpdateTimers has still to call
  control,         \* "idle", "stop" waiting for the mutex, "join"
  modifying,       \* user -> the timer ModifyTimer found, or None
  registered       \* ghost: names that were given a callback

loopVars == <<mTimers, mStopRequested, loop, left, control, modifying, registered>>

LoopInit == /\ mTimers = [t \in Timers |-> "absent"]
            /\ mStopRequested = FALSE
            /\ loop = "off" /\ left = {} /\ control = "idle"
            /\ modifying = [u \in Users |-> None]
            /\ registered = {}

Listed == {t \in Timers : mTimers[t] # "absent"}

Unlocked == loop \notin {"pass", "abort"}

-----------------------------------------------------------------------------
(* Loop.                                                                    *)

\* mStopRequested = false, without the mutex.
Begin ==
  /\ loop = "begin"
  /\ mStopRequested' = FALSE
  /\ loop' = "sleep"
  /\ UNCHANGED <<mTimers, left, control, modifying, registered>>

\* Mutant of WakeUp: the request is cleared at every turn.
WakeUpAfresh ==
  /\ loop = "sleep"
  /\ loop' = "pass"
  /\ left' = {t \in Timers : mTimers[t] = "due"}
  /\ mStopRequested' = FALSE
  /\ UNCHANGED <<mTimers, control, modifying, registered>>

\* The delay is over: lock, and one look at the clock for the whole pass.
WakeUp ==
  /\ loop = "sleep"
  /\ loop' = "pass"
  /\ left' = {t \in Timers : mTimers[t] = "due"}
  /\ UNCHANGED <<mTimers, mStopRequested, control, modifying, registered>>

\* Mutant of CallTimer: one timer per pass.
CallOneTimer(t) ==
  /\ loop = "pass"
  /\ t \in left
  /\ left' = {}
  /\ mTimers' = [mTimers EXCEPT ![t] = "pending"]
  /\ UNCHANGED <<mStopRequested, loop, control, modifying, registered>>

\* next is reloaded, then the callback runs.
CallTimer(t) ==
  /\ loop = "pass"
  /\ t \in left
  /\ left' = left \ {t}
  /\ mTimers' = [mTimers EXCEPT ![t] = "pending"]
  /\ UNCHANGED <<mStopRequested, loop, control, modifying, registered>>

\* stop = mStopRequested, unlock, and the test of the while loop.
EndPass ==
  /\ loop = "pass"
  /\ left = {}
  /\ loop' = IF mStopRequested THEN "done" ELSE "sleep"
  /\ UNCHANGED <<mTimers, mStopRequested, left, control, modifying, registered>>

LoopStep == Begin \/ WakeUp \/ (\E t \in Timers : CallTimer(t)) \/ EndPass

\* steady_clock gets to a timer's next.
Elapse(t) ==
  /\ mTimers[t] = "pending"
  /\ mTimers' = [mTimers EXCEPT ![t] = "due"]
  /\ UNCHANGED <<mStopRequested, loop, left, control, modifying, registered>>

-----------------------------------------------------------------------------
(* The thread that owns the loop.                                           *)

\* Assigning to a std::thread that has not been joined terminates the process.
Start ==
  /\ control = "idle" /\ loop # "abort"
  /\ loop' = IF loop = "off" THEN "begin" ELSE "abort"
  /\ UNCHANGED <<mTimers, mStopRequested, left, control, modifying, registered>>

CallStop ==
  /\ control = "idle" /\ loop # "abort"
  /\ control' = "stop"
  /\ UNCHANGED <<mTimers, mStopRequested, loop, left, modifying, registered>>

RequestStop ==
  /\ control = "stop" /\ Unlocked
  /\ mStopRequested' = TRUE
  /\ control' = "join"
  /\ UNCHANGED <<mTimers, loop, left, modifying, registered>>

JoinReturns ==
  /\ control = "join"
  /\ loop \in {"off", "done"}
  /\ loop' = "off"
  /\ control' = "idle"
  /\ UNCHANGED <<mTimers, mStopRequested, left, modifying, registered>>

ControlStep == RequestStop \/ JoinReturns

-----------------------------------------------------------------------------
(* The users.                                                               *)

\* std::map::insert leaves an entry of that name alone.
AddTimer(t) ==
  /\ Unlocked
  /\ t \notin Listed
  /\ mTimers' = [mTimers EXCEPT ![t] = "pending"]
  /\ registered' = registered \cup {t}
  /\ UNCHANGED <<mStopRequested, loop, left, control, modifying>>

\* ModifyTimer: mTimers.count(name) > 0, without the mutex.
FindTimer(u, t) ==
  /\ loop # "abort"
  /\ modifying[u] = None
  /\ t \in Listed
  /\ modifying' = [modifying EXCEPT ![u] = t]
  /\ UNCHANGED <<mTimers, mStopRequested, loop, left, control, registered>>

\* Mutant of ModifyTimer: the mutex is not taken.
ModifyUnlocked(u) ==
  /\ loop # "abort"
  /\ modifying[u] # None
  /\ mTimers' = [mTimers EXCEPT ![modifying[u]] = "pending"]
  /\ modifying' = [modifying EXCEPT ![u] = None]
  /\ UNCHANGED <<mStopRequested, loop, left, control, registered>>

\* mTimers[name] with the mutex: makes an entry without a callback if there
\* is none.
ModifyTimer(u) ==
  /\ Unlocked
  /\ modifying[u] # None
  /\ mTimers' = [mTimers EXCEPT ![modifying[u]] = "pending"]
  /\ modifying' = [modifying EXCEPT ![u] = None]
  /\ UNCHANGED <<mStopRequested, loop, left, control, registered>>

LoopNext == \/ LoopStep
            \/ \E t \in Timers : Elapse(t) \/ AddTimer(t)
            \/ Start \/ CallStop \/ ControlStep
            \/ \E u \in Users : ModifyTimer(u) \/ \E t \in Timers : FindTimer(u, t)

LoopSpec == LoopInit /\ [][LoopNext]_loopVars

\* The thread of the loop is scheduled and the thread in Stop gets the mutex,
\* which is free at every sleep of the loop, and returns from join.
LoopFairness == WF_loopVars(LoopStep) /\ SF_loopVars(RequestStop) /\ WF_loopVars(JoinReturns)

LoopFairSpec == LoopSpec /\ LoopFairness

-----------------------------------------------------------------------------

\* Every variable has its type.
LoopTypeOK == /\ mTimers \in [Timers -> {"absent", "pending", "due"}]
              /\ mStopRequested \in BOOLEAN
              /\ loop \in {"off", "begin", "sleep", "pass", "done", "abort"}
              /\ left \subseteq Timers
              /\ control \in {"idle", "stop", "join"}
              /\ modifying \in [Users -> Timers \cup {None}]
              /\ registered \subseteq Timers

\* Every entry of mTimers has a callback, so t.callBack() can be called:
\* although ModifyTimer tests without the mutex, mTimers[name] never makes an
\* entry, because no function takes a timer away.
EntriesHaveCallbacks == Listed \subseteq registered

\* The due timers of a pass are still due when it comes to them: nobody
\* modifies a timer between the look at the clock and its callback.
PassIsUndisturbed ==
  \A t \in left : loop = "abort" \/ (loop = "pass" /\ mTimers[t] = "due")

\* The loop (EventLoop.cpp:52-104): ModifyTimer's test outside of the mutex makes
\* no entry without a callback, and the due timers of a pass stay due until
\* they are called.
LoopSafe == LoopTypeOK /\ EntriesHaveCallbacks /\ PassIsUndisturbed

\* A timer that is due while the loop runs is called, or moved by ModifyTimer,
\* or the loop ends.
DueIsServed ==
  \A t \in Timers : (mTimers[t] = "due" /\ loop \in {"sleep", "pass"})
                    ~> (mTimers[t] # "due" \/ loop \notin {"sleep", "pass"})

\* Stop returns if the thread it joins has passed the first statement of Loop
\* when the stop is requested: the request is not cleared any more.  A request
\* that comes earlier is lost, and Stop never returns.
StopReturnsOnceBegun ==
  (control = "join" /\ mStopRequested /\ loop # "begin") ~> control = "idle"
=============================================================================
