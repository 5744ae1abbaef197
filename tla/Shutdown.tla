------------------------------- MODULE Shutdown -------------------------------
(***************************************************************************)
(* Graceful shutdown of one command-line task: the main thread in          *)
(* App::run_pipeline_internal and PipelineRunner::run, the watchdog thread *)
(* of ShutdownHandler, the thread it starts for the shutdown callback, and *)
(* the signal that may interrupt them at any moment.                       *)
(*                                                                         *)
(* The task itself is the single step Work, which nothing obliges to       *)
(* happen: VideoRunner and ImageBatch are about what it does.  The clock   *)
(* counts from the moment the watchdog starts to wait for the callback.    *)
(***************************************************************************)
EXTENDS Naturals

CONSTANTS Timeout,           \* how long the watchdog waits (5 s in the code)
          WaitLimit,         \* how long the callback waits (10 s)
          MaxSignals         \* bound: signals that arrive

ASSUME ShutdownAssumption ==
  /\ Timeout \in Nat \ {0} /\ WaitLimit \in Nat /\ MaxSignals \in Nat
  /\ Timeout < WaitLimit

VARIABLES posix,             \* signal handler, or Windows console handler
          main, watchdog, callback,  \* where the three threads are
          handler,           \* where the signal handler is
          signals,           \* signals so far
          signalReceived,    \* s_signal_received
          installed,         \* s_installed
          state,             \* s_state
          mutex,             \* holder of s_mutex, or "free"
          running,           \* m_running
          cancelled,         \* m_cancelled
          result,            \* what PipelineRunner::run returned
          now, deadline,     \* the clock; when the callback stops waiting
          ended              \* how the process ended: "no", "ok", "failed",
                             \* "cancelled" (1), "forced" (exit(1))

vars == <<posix, main, watchdog, callback, handler, signals, signalReceived,
          installed, state, mutex, running, cancelled, result, now, deadline,
          ended>>

Init ==
  /\ posix \in BOOLEAN
  /\ main = "install" /\ watchdog = "none" /\ callback = "none"
  /\ handler = "off"
  /\ signals = 0 /\ signalReceived = FALSE
  /\ installed = FALSE /\ state = "Running" /\ mutex = "free"
  /\ running = FALSE /\ cancelled = FALSE /\ result = "none"
  /\ now = 0 /\ deadline = 0
  /\ ended = "no"

-----------------------------------------------------------------------------
(* The main thread *)

\* install: the flags are reset and the watchdog thread is started, ...
Install ==
  /\ main = "install"
  /\ installed' = TRUE /\ state' = "Running" /\ signalReceived' = FALSE
  /\ watchdog' = "start"
  /\ main' = "handlers"
  /\ UNCHANGED <<posix, callback, handler, signals, mutex, running, cancelled,
                 result, now, deadline, ended>>

\* ... then the handlers are put in place.
InstallHandlers ==
  /\ main = "handlers"
  /\ handler' = "idle"
  /\ main' = "run"
  /\ UNCHANGED <<posix, watchdog, callback, signals, signalReceived, installed,
                 state, mutex, running, cancelled, result, now, deadline, ended>>

\* PipelineRunner::run sets m_running, and forgets earlier cancellations.
RunBegins ==
  /\ main = "run"
  /\ running' = TRUE
  /\ main' = "reset"
  /\ UNCHANGED <<posix, watchdog, callback, handler, signals, signalReceived,
                 installed, state, mutex, cancelled, result, now, deadline, ended>>

RunResets ==
  /\ main = "reset"
  /\ cancelled' = FALSE
  /\ main' = "work"
  /\ UNCHANGED <<posix, watchdog, callback, handler, signals, signalReceived,
                 installed, state, mutex, running, result, now, deadline, ended>>

\* The task comes to an end.  Cancelled between two targets, or too late, it
\* still reports success.
Work ==
  /\ main = "work"
  /\ result' \in {"ok", "failed"}
  /\ main' = "finish"
  /\ UNCHANGED <<posix, watchdog, callback, handler, signals, signalReceived,
                 installed, state, mutex, running, cancelled, now, deadline, ended>>

RunEnds ==
  /\ main = "finish"
  /\ running' = FALSE
  /\ main' = "uninstall"
  /\ UNCHANGED <<posix, watchdog, callback, handler, signals, signalReceived,
                 installed, state, mutex, cancelled, result, now, deadline, ended>>

\* uninstall: the flag, the notification, the join, the default handlers.
Uninstall ==
  /\ main = "uninstall"
  /\ installed' = FALSE
  /\ main' = "notify"
  /\ UNCHANGED <<posix, watchdog, callback, handler, signals, signalReceived,
                 state, mutex, running, cancelled, result, now, deadline, ended>>

\* notify_all wakes the watchdog if it sleeps.
Woken == IF watchdog = "asleep" THEN "start" ELSE watchdog

\* Seeded bug: the notification is sent without the mutex.
NotifyUnlocked ==
  /\ main = "notify"
  /\ watchdog' = Woken
  /\ main' = "join"
  /\ UNCHANGED <<posix, callback, handler, signals, signalReceived, installed,
                 state, mutex, running, cancelled, result, now, deadline, ended>>

UninstallNotifies ==
  /\ main = "notify"
  /\ mutex = "free"
  /\ watchdog' = Woken
  /\ main' = "join"
  /\ UNCHANGED <<posix, callback, handler, signals, signalReceived, installed,
                 state, mutex, running, cancelled, result, now, deadline, ended>>

\* After the join s_on_shutdown is destroyed.
UninstallJoins ==
  /\ main = "join"
  /\ watchdog = "done"
  /\ handler' = "off"
  /\ main' = "report"
  /\ UNCHANGED <<posix, watchdog, callback, signals, signalReceived, installed,
                 state, mutex, running, cancelled, result, now, deadline, ended>>

\* Seeded bug: only the result of run is looked at.
ReportResult ==
  /\ main = "report"
  /\ ended' = result
  /\ main' = "ended"
  /\ UNCHANGED <<posix, watchdog, callback, handler, signals, result,
                 signalReceived, installed, state, mutex, running, cancelled,
                 now, deadline>>

Report ==
  /\ main = "report"
  /\ ended' = IF state # "Running" THEN "cancelled" ELSE result
  /\ main' = "ended"
  /\ UNCHANGED <<posix, watchdog, callback, handler, signals, result,
                 signalReceived, installed, state, mutex, running, cancelled,
                 now, deadline>>

\* Work is not among them: see the fairness conditions.
MainStep ==
  \/ Install \/ InstallHandlers \/ RunBegins \/ RunResets \/ RunEnds
  \/ Uninstall \/ UninstallNotifies \/ UninstallJoins \/ Report

-----------------------------------------------------------------------------
(* The watchdog thread.  It holds s_mutex from here to its end, except      *)
(* while it sleeps.                                                         *)

WatchdogTests ==
  /\ watchdog = "start"
  /\ mutex = "free"
  /\ mutex' = "watchdog"
  /\ watchdog' = IF signalReceived \/ ~installed THEN "woken" ELSE "drowsy"
  /\ UNCHANGED <<posix, main, callback, handler, signals, signalReceived,
                 installed, state, running, cancelled, result, now, deadline,
                 ended>>

\* The predicate was false; the thread goes to sleep and releases the mutex.
WatchdogSleeps ==
  /\ watchdog = "drowsy"
  /\ mutex' = "free"
  /\ watchdog' = "asleep"
  /\ UNCHANGED <<posix, main, callback, handler, signals, signalReceived,
                 installed, state, running, cancelled, result, now, deadline,
                 ended>>

WatchdogLeaves == watchdog' = "done" /\ mutex' = "free"

\* The task is over before a signal has been acted upon.
WatchdogDismissed ==
  /\ watchdog = "woken"
  /\ ~installed
  /\ WatchdogLeaves
  /\ UNCHANGED <<posix, main, callback, handler, signals, signalReceived,
                 installed, state, running, cancelled, result, now, deadline,
                 ended>>

\* Running becomes Requested and the callback gets a thread of its own.
WatchdogRequests ==
  /\ watchdog = "woken"
  /\ installed
  /\ state = "Running"
  /\ state' = "Requested"
  /\ callback' = "cancel"
  /\ watchdog' = "poll"
  /\ UNCHANGED <<posix, main, handler, signals, signalReceived, installed,
                 mutex, running, cancelled, result, now, deadline, ended>>

WatchdogSeesCompleted ==
  /\ watchdog = "poll"
  /\ state = "Completed"
  /\ WatchdogLeaves
  /\ UNCHANGED <<posix, main, callback, handler, signals, signalReceived,
                 installed, state, running, cancelled, result, now, deadline,
                 ended>>

\* Seeded bug: the time-out has no handler that ends the process.
WatchdogGivesUp ==
  /\ watchdog = "poll"
  /\ now >= Timeout
  /\ state = "Requested"
  /\ state' = "TimedOut"
  /\ WatchdogLeaves
  /\ UNCHANGED <<posix, main, callback, handler, signals, signalReceived,
                 installed, running, cancelled, result, now, deadline, ended>>

\* The time is up: Requested becomes TimedOut and on_timeout ends the process,
\* all its threads with it.
WatchdogForces ==
  /\ watchdog = "poll"
  /\ now >= Timeout
  /\ state = "Requested"
  /\ state' = "TimedOut"
  /\ ended' = "forced"
  /\ main' = "ended" /\ watchdog' = "done" /\ callback' = "gone"
  /\ handler' = "off"
  /\ UNCHANGED <<posix, signals, signalReceived, installed, mutex, running,
                 cancelled, result, now, deadline>>

WatchdogStep ==
  \/ WatchdogTests \/ WatchdogSleeps \/ WatchdogDismissed \/ WatchdogRequests
  \/ WatchdogSeesCompleted \/ WatchdogForces

-----------------------------------------------------------------------------
(* The callback thread: cancel, wait_for_completion, mark_completed. *)

\* Seeded bug: the callback gives up before the watchdog does.
CallbackCancelsInHaste ==
  /\ callback = "cancel"
  /\ cancelled' = TRUE
  /\ deadline' = now + 1
  /\ callback' = "wait"
  /\ UNCHANGED <<posix, main, watchdog, handler, signals, signalReceived,
                 installed, state, mutex, running, result, now, ended>>

CallbackCancels ==
  /\ callback = "cancel"
  /\ cancelled' = TRUE
  /\ deadline' = now + WaitLimit
  /\ callback' = "wait"
  /\ UNCHANGED <<posix, main, watchdog, handler, signals, signalReceived,
                 installed, state, mutex, running, result, now, ended>>

\* Whether the run is over or the wait has run out makes no difference.
CallbackWaited ==
  /\ callback = "wait"
  /\ ~running \/ now >= deadline
  /\ callback' = "mark"
  /\ UNCHANGED <<posix, main, watchdog, handler, signals, signalReceived,
                 installed, state, mutex, running, cancelled, result, now,
                 deadline, ended>>

CallbackMarks ==
  /\ callback = "mark"
  /\ state' = "Completed"
  /\ callback' = "done"
  /\ UNCHANGED <<posix, main, watchdog, handler, signals, signalReceived,
                 installed, mutex, running, cancelled, result, now, deadline,
                 ended>>

CallbackStep == CallbackCancels \/ CallbackWaited \/ CallbackMarks

-----------------------------------------------------------------------------
(* The signal handler: set the flag, then notify.  The POSIX one notifies  *)
(* without the mutex; the Windows one calls request_shutdown, which takes  *)
(* it.                                                                     *)

Signal ==
  /\ handler = "idle"
  /\ signals < MaxSignals
  /\ signals' = signals + 1
  /\ signalReceived' = TRUE
  /\ handler' = "notify"
  /\ UNCHANGED <<posix, main, watchdog, callback, installed, state, mutex,
                 running, cancelled, result, now, deadline, ended>>

\* Seeded bug: the Windows handler does not take the mutex either.
SignalNotifiesUnlocked ==
  /\ handler = "notify"
  /\ watchdog' = Woken
  /\ handler' = "idle"
  /\ UNCHANGED <<posix, main, callback, signals, signalReceived, installed,
                 state, mutex, running, cancelled, result, now, deadline, ended>>

SignalNotifies ==
  /\ handler = "notify"
  /\ posix \/ mutex = "free"
  /\ watchdog' = Woken
  /\ handler' = "idle"
  /\ UNCHANGED <<posix, main, callback, signals, signalReceived, installed,
                 state, mutex, running, cancelled, result, now, deadline, ended>>

\* A second passes.  The threads poll every 100 ms: one whose time is up has
\* acted before the next second is over.
Tick ==
  /\ watchdog = "poll"
  /\ now < Timeout
  /\ ~(callback = "wait" /\ now >= deadline)
  /\ now' = now + 1
  /\ UNCHANGED <<posix, main, watchdog, callback, handler, signals,
                 signalReceived, installed, state, mutex, running, cancelled,
                 result, deadline, ended>>

Next ==
  \/ MainStep \/ Work
  \/ WatchdogStep
  \/ CallbackStep
  \/ Signal \/ SignalNotifies
  \/ Tick

(***************************************************************************)
(* Fairness: the threads run, a handler that has begun ends, and time goes *)
(* on.  The task itself may take any time, or hang; nobody has to send a   *)
(* signal.                                                                 *)
(***************************************************************************)
Spec ==
  /\ Init /\ [][Next]_vars
  /\ WF_vars(MainStep) /\ WF_vars(WatchdogStep) /\ WF_vars(CallbackStep)
  /\ WF_vars(SignalNotifies) /\ WF_vars(Tick)

-----------------------------------------------------------------------------
(* Properties *)

\* Every variable holds a value of its type.
TypeOK ==
  /\ posix \in BOOLEAN
  /\ main \in {"install", "handlers", "run", "reset", "work", "finish",
               "uninstall", "notify", "join", "report", "ended"}
  /\ watchdog \in {"none", "start", "drowsy", "asleep", "woken", "poll", "done"}
  /\ callback \in {"none", "cancel", "wait", "mark", "done", "gone"}
  /\ handler \in {"off", "idle", "notify"}
  /\ signals \in 0..MaxSignals
  /\ signalReceived \in BOOLEAN /\ installed \in BOOLEAN
  /\ state \in {"Running", "Requested", "TimedOut", "Completed"}
  /\ mutex \in {"free", "watchdog"}
  /\ running \in BOOLEAN /\ cancelled \in BOOLEAN
  /\ result \in {"none", "ok", "failed"}
  /\ now \in 0..Timeout /\ deadline \in 0..(Timeout + WaitLimit)
  /\ ended \in {"no", "ok", "failed", "cancelled", "forced"}

\* uninstall destroys the callback (shutdown_handler.cpp, s_on_shutdown =
\* nullptr) although its thread is detached: by then the callback has made its
\* last use of the runner it holds, because the watchdog that was joined saw its
\* mark or ended the process.
CallbackOutlived == main = "report" => callback \in {"none", "done"}

\* The exit status 0 is given only to a task that succeeded and that nobody
\* cancelled, however late the signal came.
ZeroMeansUncancelled == ended = "ok" => result = "ok" /\ ~cancelled

\* uninstall returns: whether the watchdog is about to sleep, sleeps, or is at
\* work on a signal, the main thread gets to join it or the process is ended.
UninstallReturns == (main = "uninstall") ~> (ended # "no")

\* A task that has been cancelled while it runs is over in bounded time, even
\* if it hangs: it stops, or the watchdog ends the process.
CancelEndsProcess ==
  (state = "Requested" /\ cancelled /\ main = "work") ~> (ended # "no")

\* On Windows a signal is never missed.  (The POSIX handler notifies without
\* the mutex, and a watchdog between its test and its sleep misses it.)
SignalIsHeard ==
  (~posix /\ signalReceived) ~> (state # "Running" \/ ended # "no")

\* shutdown_handler.ixx: Completed, "shutdown completed successfully", is set
\* after the cleanup.  The run that checks this expects a violation.
CompletedMeansStopped == state = "Completed" => ~running
=============================================================================
