---------------------------- MODULE ShutdownProofs ----------------------------
(***************************************************************************)
(* Theorems about Shutdown, for any time-outs and any number of signals,   *)
(* with either kind of signal handler.                                     *)
(***************************************************************************)
EXTENDS Shutdown, TLAPS

\* Before the watchdog acts on a signal there is no callback and the state is
\* Running; afterwards the two say the same.
Course ==
  /\ watchdog \in {"none", "start", "drowsy", "asleep", "woken"} =>
       callback = "none" /\ state = "Running"
  /\ watchdog = "poll" => callback \in {"cancel", "wait", "mark", "done"}
  /\ callback \in {"cancel", "wait", "mark"} => state = "Requested" /\ watchdog = "poll"
  /\ callback = "none" => state = "Running"
  /\ callback = "done" => state = "Completed"
  /\ callback = "gone" => state = "TimedOut"

\* Only the callback cancels.
Cancelled == cancelled => callback \notin {"none", "cancel"}

\* The main thread reports when the watchdog has ended, and what it reports
\* stands.
Ending ==
  /\ main = "install" => watchdog = "none"
  /\ main \in {"handlers", "run", "reset", "work", "finish", "uninstall", "notify", "join"} =>
       watchdog # "none"
  /\ main \in {"report", "ended"} => watchdog = "done"
  /\ main = "ended" <=> ended # "no"
  /\ callback = "gone" <=> ended = "forced"
  /\ ended = "ok" => result = "ok" /\ callback = "none"
  /\ main \in {"finish", "uninstall", "notify", "join", "report"} => result # "none"

Inv == TypeOK /\ Course /\ Cancelled /\ Ending

-----------------------------------------------------------------------------

\* The invariant holds before anything has been installed.
LEMMA InvStart == Init => Inv
<1> SUFFICES ASSUME Init
             PROVE  Inv
  OBVIOUS
<1>1. now \in 0..Timeout /\ deadline \in 0..(Timeout + WaitLimit) /\ signals \in 0..MaxSignals
  BY ShutdownAssumption DEF Init
<1>2. TypeOK
  BY <1>1 DEF Init, TypeOK
<1>3. Course /\ Cancelled
  BY DEF Init, Course, Cancelled
<1>4. Ending
  BY DEF Init, Ending
<1> QED BY <1>2, <1>3, <1>4 DEF Inv

\* The type invariant in two parts: where the threads are, and the rest.
Places ==
  /\ main \in {"install", "handlers", "run", "reset", "work", "finish",
               "uninstall", "notify", "join", "report", "ended"}
  /\ watchdog \in {"none", "start", "drowsy", "asleep", "woken", "poll", "done"}
  /\ callback \in {"none", "cancel", "wait", "mark", "done", "gone"}
  /\ handler \in {"off", "idle", "notify"}
  /\ state \in {"Running", "Requested", "TimedOut", "Completed"}
  /\ mutex \in {"free", "watchdog"}
  /\ result \in {"none", "ok", "failed"}
  /\ ended \in {"no", "ok", "failed", "cancelled", "forced"}

Values ==
  /\ posix \in BOOLEAN
  /\ signals \in 0..MaxSignals
  /\ signalReceived \in BOOLEAN /\ installed \in BOOLEAN
  /\ running \in BOOLEAN /\ cancelled \in BOOLEAN
  /\ now \in 0..Timeout /\ deadline \in 0..(Timeout + WaitLimit)

\* Each thread goes from one of its places to another; the report copies a
\* result, which is there by then.
LEMMA PlacesKept ==
  ASSUME Places, Ending, Next
  PROVE  Places'
<1> USE DEF Places
<1>1. CASE MainStep
  <2>1. CASE Install \/ InstallHandlers \/ RunBegins \/ RunResets \/ RunEnds \/ Uninstall
    BY <2>1 DEF Install, InstallHandlers, RunBegins, RunResets, RunEnds, Uninstall
  <2>2. CASE UninstallNotifies \/ UninstallJoins
    BY <2>2 DEF UninstallNotifies, UninstallJoins, Woken
  <2>3. CASE Report
    BY <2>3 DEF Report, Ending
  <2> QED BY <1>1, <2>1, <2>2, <2>3 DEF MainStep
<1>2. CASE WatchdogStep
  BY <1>2 DEF WatchdogStep, WatchdogTests, WatchdogSleeps, WatchdogDismissed,
              WatchdogRequests, WatchdogSeesCompleted, WatchdogForces, WatchdogLeaves
<1>3. CASE CallbackStep
  BY <1>3 DEF CallbackStep, CallbackCancels, CallbackWaited, CallbackMarks
<1>4. CASE Work \/ Signal \/ SignalNotifies \/ Tick
  BY <1>4 DEF Work, Signal, SignalNotifies, Tick, Woken
<1> QED BY <1>1, <1>2, <1>3, <1>4 DEF Next

\* The flags stay flags, and the clock within the time-outs.
LEMMA ValuesKept ==
  ASSUME Values, Next
  PROVE  Values'
<1>1. /\ posix' \in BOOLEAN /\ signalReceived' \in BOOLEAN
      /\ installed' \in BOOLEAN /\ running' \in BOOLEAN /\ cancelled' \in BOOLEAN
  <2> USE DEF Values
  <2>1. CASE MainStep
    BY <2>1 DEF MainStep, Install, InstallHandlers, RunBegins, RunResets, RunEnds,
                Uninstall, UninstallNotifies, UninstallJoins, Report
  <2>2. CASE WatchdogStep
    BY <2>2 DEF WatchdogStep, WatchdogTests, WatchdogSleeps, WatchdogDismissed,
                WatchdogRequests, WatchdogSeesCompleted, WatchdogForces
  <2>3. CASE CallbackStep
    BY <2>3 DEF CallbackStep, CallbackCancels, CallbackWaited, CallbackMarks
  <2>4. CASE Work \/ Signal \/ SignalNotifies \/ Tick
    BY <2>4 DEF Work, Signal, SignalNotifies, Tick
  <2> QED BY <2>1, <2>2, <2>3, <2>4 DEF Next
<1>2. /\ signals' \in 0..MaxSignals /\ now' \in 0..Timeout
      /\ deadline' \in 0..(Timeout + WaitLimit)
  <2> USE ShutdownAssumption DEF Values
  <2>1. CASE MainStep
    BY <2>1 DEF MainStep, Install, InstallHandlers, RunBegins, RunResets, RunEnds,
                Uninstall, UninstallNotifies, UninstallJoins, Report
  <2>2. CASE WatchdogStep
    BY <2>2 DEF WatchdogStep, WatchdogTests, WatchdogSleeps, WatchdogDismissed,
                WatchdogRequests, WatchdogSeesCompleted, WatchdogForces
  <2>3. CASE CallbackStep
    BY <2>3 DEF CallbackStep, CallbackCancels, CallbackWaited, CallbackMarks
  <2>4. CASE Work \/ Signal \/ SignalNotifies \/ Tick
    BY <2>4 DEF Work, Signal, SignalNotifies, Tick
  <2> QED BY <2>1, <2>2, <2>3, <2>4 DEF Next
<1> QED BY <1>1, <1>2 DEF Values

\* Every step keeps the types.
LEMMA TypeKept ==
  ASSUME TypeOK, Ending, Next
  PROVE  TypeOK'
<1>1. Places' /\ Values'
  BY PlacesKept, ValuesKept DEF TypeOK, Places, Values
<1> QED BY <1>1 DEF TypeOK, Places, Values

\* The other threads leave the callback alone, and the state with it.
LEMMA CourseKept ==
  ASSUME Course, Cancelled, Ending, Next
  PROVE  Course' /\ Cancelled'
<1> USE DEF Course, Cancelled
<1>1. CASE MainStep
  <2>1. CASE Install
    BY <2>1 DEF Install, Ending
  <2>2. CASE InstallHandlers \/ RunBegins \/ RunResets
    BY <2>2 DEF InstallHandlers, RunBegins, RunResets
  <2>3. CASE RunEnds \/ Uninstall
    BY <2>3 DEF RunEnds, Uninstall
  <2>4. CASE UninstallNotifies
    BY <2>4 DEF UninstallNotifies, Woken
  <2>5. CASE UninstallJoins \/ Report
    BY <2>5 DEF UninstallJoins, Report
  <2> QED BY <1>1, <2>1, <2>2, <2>3, <2>4, <2>5 DEF MainStep
<1>2. CASE Work \/ Signal \/ Tick
  BY <1>2 DEF Work, Signal, Tick
<1>3. CASE SignalNotifies
  BY <1>3 DEF SignalNotifies, Woken
<1>4. CASE WatchdogStep
  <2>1. CASE WatchdogTests \/ WatchdogSleeps
    BY <2>1 DEF WatchdogTests, WatchdogSleeps
  <2>2. CASE WatchdogDismissed \/ WatchdogSeesCompleted
    BY <2>2 DEF WatchdogDismissed, WatchdogSeesCompleted, WatchdogLeaves
  <2>3. CASE WatchdogRequests
    BY <2>3 DEF WatchdogRequests
  <2>4. CASE WatchdogForces
    BY <2>4 DEF WatchdogForces
  <2> QED BY <1>4, <2>1, <2>2, <2>3, <2>4 DEF WatchdogStep
<1>5. CASE CallbackStep
  BY <1>5 DEF CallbackStep, CallbackCancels, CallbackWaited, CallbackMarks
<1> QED BY <1>1, <1>2, <1>3, <1>4, <1>5 DEF Next

\* The main thread goes to its report only past a watchdog that has ended, and
\* that one never starts again.
LEMMA EndingKept ==
  ASSUME TypeOK, Course, Ending, Next
  PROVE  Ending'
<1> USE DEF Ending
<1>1. CASE MainStep
  <2>1. CASE Install \/ InstallHandlers \/ RunBegins \/ RunResets
    BY <2>1 DEF Install, InstallHandlers, RunBegins, RunResets
  <2>2. CASE RunEnds \/ Uninstall
    BY <2>2 DEF RunEnds, Uninstall
  <2>3. CASE UninstallNotifies
    BY <2>3 DEF UninstallNotifies, Woken
  <2>4. CASE UninstallJoins
    BY <2>4 DEF UninstallJoins
  <2>5. CASE Report
    BY <2>5 DEF Report, TypeOK, Course
  <2> QED BY <1>1, <2>1, <2>2, <2>3, <2>4, <2>5 DEF MainStep
<1>2. CASE Work \/ Signal \/ Tick
  BY <1>2 DEF Work, Signal, Tick
<1>3. CASE SignalNotifies
  BY <1>3 DEF SignalNotifies, Woken
<1>4. CASE WatchdogStep
  <2>1. CASE WatchdogTests \/ WatchdogSleeps
    BY <2>1 DEF WatchdogTests, WatchdogSleeps
  <2>2. CASE WatchdogDismissed \/ WatchdogSeesCompleted
    BY <2>2 DEF WatchdogDismissed, WatchdogSeesCompleted, WatchdogLeaves
  <2>3. CASE WatchdogRequests
    BY <2>3 DEF WatchdogRequests, Course
  <2>4. CASE WatchdogForces
    BY <2>4 DEF WatchdogForces
  <2> QED BY <1>4, <2>1, <2>2, <2>3, <2>4 DEF WatchdogStep
<1>5. CASE CallbackStep
  BY <1>5 DEF CallbackStep, CallbackCancels, CallbackWaited, CallbackMarks, Course
<1> QED BY <1>1, <1>2, <1>3, <1>4, <1>5 DEF Next

\* Every step keeps the invariant.
LEMMA InvKept == Inv /\ [Next]_vars => Inv'
<1> SUFFICES ASSUME Inv, [Next]_vars
             PROVE  Inv'
  OBVIOUS
<1>1. CASE UNCHANGED vars
  BY <1>1 DEF vars, Inv, TypeOK, Course, Cancelled, Ending
<1>2. CASE Next
  BY <1>2, TypeKept, CourseKept, EndingKept DEF Inv
<1> QED BY <1>1, <1>2

\* The invariant, and the type invariant with it, holds in every reachable
\* state of a command-line run under the shutdown handler.
THEOREM ShutdownInvariance == Spec => []Inv
BY InvStart, InvKept, PTL DEF Spec

\* When uninstall destroys the shutdown callback, its detached thread has made
\* its last use of the runner it holds: the watchdog, which was joined, either
\* started none or saw it finished (uninstall, s_on_shutdown = nullptr).
THEOREM CallbackIsOutlived == Spec => []CallbackOutlived
<1>1. Inv => CallbackOutlived
  BY DEF Inv, TypeOK, Course, Ending, CallbackOutlived
<1> QED BY <1>1, ShutdownInvariance, PTL

\* The exit status 0 means that the task succeeded and that nobody has cancelled
\* it, however late a signal came (the end of run_pipeline_internal).
THEOREM ZeroExitIsUncancelled == Spec => []ZeroMeansUncancelled
<1>1. Inv => ZeroMeansUncancelled
  BY DEF Inv, Cancelled, Ending, ZeroMeansUncancelled
<1> QED BY <1>1, ShutdownInvariance, PTL
=============================================================================
