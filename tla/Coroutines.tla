----------------------------- MODULE Coroutines -----------------------------
(***************************************************************************)
(* A coroutine and the Tasks it awaits (utils/coroutine.h), started by     *)
(* sync_wait, co_future or async_run and moved between event loops by the  *)
(* awaiters switchThreadCoro, queueInLoopCoro and sleepCoro.               *)
(*                                                                         *)
(* Frame 1 is the AsyncTask that the starting function wraps around the    *)
(* Task it is given, frame 2; each Task may await another.  One frame at   *)
(* most runs; while none does, the handle to resume is in the queue of a   *)
(* loop, in a closure of work, or in a timer.                              *)
(***************************************************************************)
EXTENDS Integers, Sequences, SequencesExt

CONSTANTS
  Loops,
  MaxFrames,       \* bound of the model: the AsyncTask and the Tasks below it
  MaxAwaits,       \* bound of the model: how often the coroutine awaits anything
  None

\* The threads: those of the loops, the caller's own, and the one that sync_wait makes.
ASSUME ThreadAssumption ==
  /\ None \notin Loops \cup {"caller", "helper", "AsyncTask"}
  /\ Loops \cap {"caller", "helper"} = {}

VARIABLES
  mode,            \* the function that starts it
  home,            \* the loop whose thread calls it, or None
  caller,          \* what the calling thread does
  helper,          \* the thread sync_wait makes
  mutex, flag,     \* of sync_wait
  frames,          \* continuation_ of each frame that exists
  current,         \* the frame that runs, or will be resumed
  running,         \* the thread it runs on, or None
  result,          \* what the last await gave it
  thrown,          \* exception_ of the awaiter it waits for
  queue,           \* what is queued in each loop
  timers,          \* loops with a timer that resumes it
  outcome,         \* what the caller got
  promised,        \* the shared state of co_future's promise, value and exception_ptr of sync_wait
  wrapper,         \* how far the AsyncTask is behind its co_await
  awaits,          \* how often it has awaited, for the bound
  asked,           \* the loop it has asked to go on in, for the properties
  ended            \* what frame 2 ended with, for the properties

coroutineVars == <<mode, home, caller, helper, mutex, flag, frames, current, running, result,
                   thrown, queue, timers, outcome, promised, wrapper, awaits, asked, ended>>
syncVars == <<mode, home, caller, helper, mutex, flag, outcome, promised, wrapper>>

Modes == {"sync_wait", "co_future", "async_run"}
Results == {"value", "exception"}
CallingThread == IF home = None THEN "caller" ELSE home

CoroutineInit ==
  /\ mode \in Modes
  /\ home \in Loops \cup {None}
  /\ caller = "calling" /\ helper = "none"
  /\ mutex = None /\ flag = FALSE
  /\ frames = << >> /\ current = 0 /\ running = None
  /\ result = None /\ thrown = FALSE
  /\ queue = [l \in Loops |-> << >>]
  /\ timers = {}
  /\ outcome = None /\ promised = None /\ wrapper = "awaits"
  /\ awaits = 0 /\ asked = None /\ ended = None

-----------------------------------------------------------------------------
(* Starting *)

\* The AsyncTask does not suspend first: it runs on the thread that makes it, and
\* awaits the Task it is given.
Launch(thread) ==
  /\ frames' = <<0, 1>>
  /\ current' = 2
  /\ running' = thread
  /\ UNCHANGED <<result, thrown, queue, timers, awaits, asked, ended>>

\* sync_wait locks its mutex and makes a thread ...
SyncWait ==
  /\ mode = "sync_wait" /\ caller = "calling"
  /\ mutex' = "caller"
  /\ caller' = "checking"
  /\ helper' = "made"
  /\ UNCHANGED <<mode, home, flag, frames, current, running, result, thrown, queue,
                 timers, outcome, promised, wrapper, awaits, asked, ended>>

\* ... which runs the AsyncTask until it first waits.
HelperStarts ==
  /\ helper = "made"
  /\ helper' = "running"
  /\ Launch("helper")
  /\ UNCHANGED <<mode, home, caller, mutex, flag, outcome, promised, wrapper>>

\* co_future and async_run run it on the calling thread until it first waits.
StartHere ==
  /\ mode # "sync_wait" /\ caller = "calling"
  /\ caller' = "launched"
  /\ Launch(CallingThread)
  /\ UNCHANGED <<mode, home, helper, mutex, flag, outcome, promised, wrapper>>

-----------------------------------------------------------------------------
(* The coroutine *)

Task == running # None /\ current > 1

\* Mutant: the AsyncTask is made the continuation of every Task.
ContinuationFirst(frame) == 1
\* task_awaiter: setContinuation, and on to the awaited Task
Continuation(frame) == frame

AwaitTask ==
  /\ Task
  /\ Len(frames) < MaxFrames /\ awaits < MaxAwaits
  /\ awaits' = awaits + 1
  /\ frames' = Append(frames, Continuation(current))
  /\ current' = Len(frames) + 1
  /\ UNCHANGED <<syncVars, running, result, thrown, queue, timers, asked, ended>>

\* return_value or unhandled_exception, final_awaiter: the continuation goes on on this
\* thread with the result; its await ends the life of the Task.
Return ==
  /\ Task
  /\ \E r \in Results :
       /\ result' = r
       /\ ended' = IF current = 2 THEN r ELSE ended
  /\ current' = frames[current]
  /\ frames' = Front(frames)
  /\ UNCHANGED <<syncVars, running, thrown, queue, timers, awaits, asked>>

\* The thread goes back to what it did before the coroutine ran on it.
Left(thread) == helper' = IF thread = "helper" THEN "leaving" ELSE helper
Suspend ==
  /\ running' = None
  /\ awaits' = awaits + 1
  /\ Left(running)
  /\ thrown' = FALSE
  /\ UNCHANGED <<mode, home, caller, mutex, flag, outcome, promised, wrapper, frames, current,
                 result, ended>>
Waits == Task /\ awaits < MaxAwaits

\* switchThreadCoro: runInLoop goes on at once in the loop's own thread.
Switch ==
  /\ Waits
  /\ \E l \in Loops :
       /\ asked' = l
       /\ \/ /\ running = l
             /\ awaits' = awaits + 1
             /\ result' = "value"
             /\ UNCHANGED <<syncVars, frames, current, running, thrown, queue, ended>>
          \/ /\ running # l
             /\ queue' = [queue EXCEPT ![l] = Append(@, [op |-> "resume"])]
             /\ Suspend
  /\ UNCHANGED timers

\* queueInLoopCoro(workLoop, task, resumeLoop), without a resumeLoop in the work loop;
\* the other queueInLoopCoro, which has none, catches std::exception only.
QueueInLoop ==
  /\ Waits
  /\ \E l \in Loops, to \in Loops, all \in BOOLEAN :
       /\ all \/ to = l
       /\ queue' = [queue EXCEPT ![l] =
                      Append(@, [op |-> "work", to |-> to, catchesAll |-> all])]
       /\ asked' = to
  /\ Suspend
  /\ UNCHANGED timers

Sleep ==
  /\ Waits
  /\ \E l \in Loops : timers' = timers \cup {l} /\ asked' = l
  /\ Suspend
  /\ UNCHANGED queue

-----------------------------------------------------------------------------
(* The loops *)

\* The loop's thread is not in sync_wait, in the future's get() or in the coroutine.
Free(l) == running # l /\ (home = l => caller \in {"launched", "returned"})

\* await_resume: rethrows the awaiter's exception.
ResumeOn(l) ==
  /\ running' = l
  /\ result' = IF thrown' THEN "exception" ELSE "value"

\* setException
Note(r) == r = "exception"

\* Mutant: the handle is resumed where the work was done.
ResumeHere(l, to) == l
\* Which loop resumes it
ResumeIn(l, to) == to

\* The loop takes the next closure.  Work may end with an exception of any kind: one
\* that nothing catches is the loop's own affair, and the coroutine is forgotten.
LoopStep(l) ==
  /\ Free(l)
  /\ queue[l] # << >>
  /\ LET item == Head(queue[l])
         rest == [queue EXCEPT ![l] = Tail(@)]
     IN  \/ /\ item.op = "resume"
            /\ queue' = rest
            /\ UNCHANGED <<thrown, asked>>
            /\ ResumeOn(l)
         \/ /\ item.op = "work"
            /\ \E r \in Results :
                 /\ thrown' = Note(r)
                 /\ \/ /\ ResumeIn(l, item.to) = l
                       /\ queue' = rest
                       /\ ResumeOn(l)
                    \/ /\ ResumeIn(l, item.to) # l
                       /\ queue' = [rest EXCEPT ![item.to] = Append(@, [op |-> "resume"])]
                       /\ UNCHANGED <<running, result>>
            /\ UNCHANGED asked
         \/ /\ item.op = "work" /\ ~item.catchesAll
            /\ queue' = rest
            /\ asked' = "forgotten"
            /\ UNCHANGED <<running, result, thrown>>
  /\ UNCHANGED <<syncVars, frames, current, timers, awaits, ended>>

TimerFires(l) ==
  /\ Free(l) /\ l \in timers
  /\ timers' = timers \ {l}
  /\ UNCHANGED thrown
  /\ ResumeOn(l)
  /\ UNCHANGED <<syncVars, frames, current, queue, awaits, asked, ended>>

-----------------------------------------------------------------------------
(* The end *)

\* The AsyncTask is back from its co_await, on whatever thread resumed it.
Wrapper == running # None /\ current = 1
InWrapper ==
  /\ Wrapper
  /\ UNCHANGED <<mode, home, helper, frames, current, running, result, thrown, queue, timers,
                 outcome, awaits, asked, ended>>

\* sync_wait's keeps the value or the exception in a local of the caller ...
Keep ==
  /\ InWrapper
  /\ mode = "sync_wait" /\ wrapper = "awaits"
  /\ promised' = result
  /\ wrapper' = "kept"
  /\ UNCHANGED <<caller, mutex, flag>>

\* Mutant: the flag is set without the lock.
MayNotifyUnlocked == TRUE
\* unique_lock lk(mtx)
MayNotify == mutex = None

\* ... takes the caller's mutex, sets its flag and notifies ...
NotifyCaller ==
  /\ InWrapper
  /\ wrapper = "kept"
  /\ MayNotify
  /\ mutex' = "AsyncTask"
  /\ flag' = TRUE
  /\ caller' = IF caller = "sleeping" THEN "woken" ELSE caller
  /\ wrapper' = "notified"
  /\ UNCHANGED promised

\* ... and gives the mutex up at the end of its body.
Unlock ==
  /\ InWrapper
  /\ wrapper = "notified"
  /\ mutex' = None
  /\ wrapper' = "told"
  /\ UNCHANGED <<caller, flag, promised>>

\* co_future's fulfils its promise; async_run's has nobody to tell, and an exception
\* that escapes it ends the process.
Fulfil ==
  /\ InWrapper
  /\ mode # "sync_wait" /\ wrapper = "awaits"
  /\ promised' = IF mode = "async_run" /\ result = "exception" THEN "terminated" ELSE result
  /\ wrapper' = "told"
  /\ UNCHANGED <<caller, mutex, flag>>

\* It does not suspend at its end: its frame goes, with the promise and the Task that
\* co_future gave it, and the thread goes back to what it did.  By then the caller may
\* have gone on long since.
EndWrapper ==
  /\ Wrapper
  /\ wrapper = "told" /\ promised # "terminated"
  /\ frames' = << >> /\ current' = 0 /\ running' = None
  /\ Left(running)
  /\ UNCHANGED <<mode, home, caller, mutex, flag, result, thrown, queue, timers, outcome,
                 promised, wrapper, awaits, asked, ended>>

\* cv.wait: the predicate is looked at under the lock, which the wait gives up.
Check ==
  /\ caller = "checking"
  /\ caller' = IF flag THEN "joining" ELSE "goingToSleep"
  /\ UNCHANGED <<mode, home, helper, mutex, flag, frames, current, running, result, thrown,
                 queue, timers, outcome, promised, wrapper, awaits, asked, ended>>
GoToSleep ==
  /\ caller = "goingToSleep"
  /\ caller' = "sleeping"
  /\ mutex' = None
  /\ UNCHANGED <<mode, home, helper, flag, frames, current, running, result, thrown,
                 queue, timers, outcome, promised, wrapper, awaits, asked, ended>>
\* ... also when nobody has notified.
WakeUp ==
  /\ caller \in {"sleeping", "woken"}
  /\ mutex = None
  /\ mutex' = "caller"
  /\ caller' = "checking"
  /\ UNCHANGED <<mode, home, helper, flag, frames, current, running, result, thrown,
                 queue, timers, outcome, promised, wrapper, awaits, asked, ended>>

\* The helper thread returns from resume or from the await_suspend it was in.
HelperEnds ==
  /\ helper = "leaving"
  /\ helper' = "ended"
  /\ UNCHANGED <<mode, home, caller, mutex, flag, frames, current, running, result, thrown,
                 queue, timers, outcome, promised, wrapper, awaits, asked, ended>>

\* sync_wait joins its thread and returns the value or throws.
Join ==
  /\ caller = "joining" /\ helper = "ended"
  /\ caller' = "returned"
  /\ mutex' = None
  /\ outcome' = promised
  /\ UNCHANGED <<mode, home, helper, flag, frames, current, running, result, thrown,
                 queue, timers, promised, wrapper, awaits, asked, ended>>

\* The caller of co_future may wait for its future when the coroutine has left its thread,
GetFuture ==
  /\ mode = "co_future" /\ caller = "launched" /\ running # CallingThread
  /\ caller' = "getting"
  /\ UNCHANGED <<mode, home, helper, mutex, flag, frames, current, running, result, thrown,
                 queue, timers, outcome, promised, wrapper, awaits, asked, ended>>
\* and gets what the promise was given.
Got ==
  /\ caller = "getting" /\ promised # None
  /\ caller' = "returned"
  /\ outcome' = promised
  /\ UNCHANGED <<mode, home, helper, mutex, flag, frames, current, running, result, thrown,
                 queue, timers, promised, wrapper, awaits, asked, ended>>

CoroutineRuns ==
  \/ AwaitTask \/ Return \/ Switch \/ QueueInLoop \/ Sleep
  \/ Keep \/ NotifyCaller \/ Unlock \/ Fulfil \/ EndWrapper
CallerStarts == SyncWait \/ StartHere
CallerRuns == Check \/ GoToSleep \/ Join \/ GetFuture \/ Got
HelperRuns == HelperStarts \/ HelperEnds

CoroutineNext ==
  \/ CoroutineRuns \/ CallerStarts \/ CallerRuns \/ WakeUp \/ HelperRuns
  \/ \E l \in Loops : LoopStep(l) \/ TimerFires(l)

\* Threads that can run do; one that waits for the lock gets it in the end, however often
\* the sleeping caller takes it for nothing.
CoroutineFairness ==
  /\ WF_coroutineVars(CoroutineRuns)
  /\ SF_coroutineVars(NotifyCaller)
  /\ WF_coroutineVars(CallerRuns)
  /\ WF_coroutineVars(HelperRuns)
  /\ WF_coroutineVars(caller = "woken" /\ WakeUp)
  /\ \A l \in Loops : WF_coroutineVars(LoopStep(l)) /\ WF_coroutineVars(TimerFires(l))

CoroutineSpec == CoroutineInit /\ [][CoroutineNext]_coroutineVars /\ CoroutineFairness

-----------------------------------------------------------------------------
\* The caller gets what the Task it gave ended with, value or exception, sync_wait's when
\* the thread it made has ended; while the AsyncTask, on whatever thread, has still to use
\* the mutex, the flag or the result on sync_wait's stack, sync_wait does not return; and
\* async_run ends the process if, and only if, its Task ended with an exception.
OutcomeExact ==
  /\ outcome # None => outcome = ended /\ helper \in {"none", "ended"}
  /\ mode = "sync_wait" /\ caller = "returned" => wrapper = "told" /\ mutex = None
  /\ promised # None => (promised = "terminated" <=> (mode = "async_run" /\ ended = "exception"))

\* Where a coroutine has asked to go on, it and the coroutines that await it run.
InAskedLoop == running # None /\ asked # None => running = asked

\* No wake-up is lost: who waits for a coroutine gets its result, unless that is to run in
\* a loop that the waiting thread itself keeps from running, or its work has thrown
\* something that is no std::exception.
Stuck == home # None /\ (queue[home] # << >> \/ home \in timers)
EventuallyOver ==
  caller # "calling" ~>
    (\/ caller = "returned"
     \/ mode # "sync_wait" /\ promised # None
     \/ Stuck /\ caller \notin {"calling", "launched"}
     \/ asked = "forgotten")
=============================================================================
