------------------------------ MODULE Desktop ------------------------------
(***************************************************************************)
(* The desktop shell and the backends it launches.                         *)
(*                                                                         *)
(* A launch (desktop/src/main.js, launchWorkspace) makes a supervisor,     *)
(* which spawns a backend process (desktop/server.py), waits for its       *)
(* readiness record and its health, and loads a window; whatever fails,    *)
(* the launch stops the process and shows the error page.  The backend     *)
(* takes the lock of the data directory, sweeps what earlier backends left *)
(* there, makes its private root and serves.  Quitting and restarting ask  *)
(* the backend to prepare, then stop it: SIGTERM, 750 ms, SIGKILL, 750 ms. *)
(* The retry button and the settings dialog start such tasks while others  *)
(* are under way: the shell keeps one variable "supervisor" for all.       *)
(*                                                                         *)
(* A launch, its supervisor and its process share a number, in the order   *)
(* of the launches.  What prepare-shutdown does inside the backend is in   *)
(* WorkspaceSessions; here it ends work and shuts the gate, or refuses.    *)
(***************************************************************************)
EXTENDS Naturals, FiniteSets

CONSTANTS
    MaxLaunches,    \* bound: launches during the life of the shell
    Restarts        \* the restarts settings may ask for

ASSUME DesktopAssumption == MaxLaunches \in Nat \ {0} /\ "quit" \notin Restarts

VARIABLES
    \* the shell
    app,            \* it runs, or has quit
    supervisor,     \* the launch its variable holds
    launched,       \* how many launches there were
    launch,         \* per launch, how far launchWorkspace is
    sup,            \* per launch, the supervisor's fields
    stop,           \* per launch, how far the supervisor's stop is
    page,           \* what the main window shows: nothing, the error page or a launch
    task,           \* the quit and the restarts
    \* the backends
    proc, gate, work,
    lock,           \* the holder of backend.lock
    roots           \* the launches with a directory under sessions/

shell == <<app, supervisor, launched, launch, sup, stop, page, task>>
backends == <<proc, gate, work, lock, roots>>
vars == <<app, supervisor, launched, launch, sup, stop, page, task, proc, gate, work, lock, roots>>

Launches == 1 .. MaxLaunches
None == 0
ErrorPage == MaxLaunches + 1

Tasks == {"quit"} \cup Restarts
NoTask == [at |-> "idle", of |-> None]

\* A supervisor: its child, its readiness, and whether it has seen the exit event.
NewSupervisor == [child |-> FALSE, ready |-> FALSE, exited |-> FALSE]

Alive(c) == proc[c] \notin {"none", "dead"}

---------------------------------------------------------------------------
(* The backend process. *)

\* The system releases the lock of a process that dies; its memory is gone with it.
Die(c) ==
    /\ proc' = [proc EXCEPT ![c] = "dead"]
    /\ lock' = IF lock = c THEN None ELSE lock
    /\ work' = [work EXCEPT ![c] = FALSE]
    /\ gate' = [gate EXCEPT ![c] = "open"]

\* Mutant: a lock that is taken goes unnoticed.
AcquireAnyway(c) ==
    /\ proc[c] = "boot"
    /\ proc' = [proc EXCEPT ![c] = "locked"] /\ lock' = c
    /\ UNCHANGED <<gate, work, roots>>


\* DataDirectoryLock: an owned directory ends the process with status 2.
Acquire(c) ==
    /\ proc[c] = "boot"
    /\ IF lock = None
       THEN proc' = [proc EXCEPT ![c] = "locked"] /\ lock' = c
       ELSE proc' = [proc EXCEPT ![c] = "dead"] /\ UNCHANGED lock
    /\ UNCHANGED <<gate, work, roots>>

\* DesktopSessionStorage.prepare removes whatever lies under sessions/ and makes a root;
\* the socket listens and the readiness record is written, before the application exists.
Prepare(c) ==
    /\ proc[c] = "locked"
    /\ proc' = [proc EXCEPT ![c] = "announced"]
    /\ roots' = {c}
    /\ UNCHANGED <<gate, work, lock>>

Serve(c) ==
    /\ proc[c] = "announced"
    /\ proc' = [proc EXCEPT ![c] = "serving"]
    /\ UNCHANGED <<gate, work, lock, roots>>

\* Requests of the window start runs while the gate is open, and runs end.
Work(c) ==
    /\ proc[c] = "serving"
    /\ work[c] \/ (page = c /\ gate[c] = "open")
    /\ work' = [work EXCEPT ![c] = ~ @]
    /\ UNCHANGED <<proc, gate, lock, roots>>

\* The finally of serve_desktop, on a failure to bind or to build the application and
\* after a shutdown; the lock is released last.
Fail(c) ==
    /\ proc[c] = "announced"
    /\ proc' = [proc EXCEPT ![c] = "closing"]
    /\ UNCHANGED <<gate, work, lock, roots>>

Close(c) ==
    /\ proc[c] = "closing"
    /\ roots' = roots \ {c}
    /\ Die(c)

\* Killed, by the system or by a fault of its own: nothing is cleaned up.
Crash(c) ==
    /\ Alive(c)
    /\ Die(c)
    /\ UNCHANGED roots

\* The model ends when the shell quits; a backend it leaves behind is not followed.
Backend(c) ==
    /\ app = "up"
    /\ \/ Acquire(c) \/ Prepare(c) \/ Serve(c) \/ Work(c)
       \/ Fail(c) \/ Close(c) \/ Crash(c)
    /\ UNCHANGED shell

---------------------------------------------------------------------------
(* The supervisor of a launch. *)

\* stop of a supervisor that still has a living child has something to do; any other
\* call of stop returns at once.
HasChild(c) == sup[c].child /\ ~ sup[c].exited

\* stop up to its first await: it forgets the child and signals a living one.  SIGTERM
\* makes a serving backend close; before that it simply dies.
BeginStop(c) ==
    /\ sup' = [sup EXCEPT ![c].child = FALSE, ![c].ready = FALSE]
    /\ IF HasChild(c)
       THEN /\ stop' = [stop EXCEPT ![c] = "term"]
            /\ IF proc[c] \in {"boot", "locked", "announced"}
               THEN Die(c)
               ELSE /\ proc' = [proc EXCEPT ![c] = IF @ = "serving" THEN "closing" ELSE @]
                    /\ UNCHANGED <<lock, work, gate>>
       ELSE UNCHANGED <<stop, proc, lock, work, gate>>

\* Mutant: after SIGKILL it waits for the exit, however long.
EndStopAwaitsExit(c) ==
    /\ \/ /\ stop[c] \in {"term", "kill"} /\ ~ Alive(c)
          /\ stop' = [stop EXCEPT ![c] = "no"]
       \/ /\ stop[c] = "term" /\ Alive(c)
          /\ stop' = [stop EXCEPT ![c] = "kill"]
    /\ UNCHANGED <<app, supervisor, launched, launch, sup, page, task>>
    /\ UNCHANGED backends


\* 750 ms later, or at the exit.  A killed process may not have been reaped when the time
\* is up again: then stop throws.
EndStop(c) ==
    /\ \/ /\ stop[c] \in {"term", "kill"} /\ ~ Alive(c)
          /\ stop' = [stop EXCEPT ![c] = "no"]
       \/ /\ stop[c] = "term" /\ Alive(c)
          /\ stop' = [stop EXCEPT ![c] = "kill"]
       \/ /\ stop[c] = "kill" /\ Alive(c)
          /\ stop' = [stop EXCEPT ![c] = "threw"]
    /\ UNCHANGED <<app, supervisor, launched, launch, sup, page, task>>
    /\ UNCHANGED backends

Stopped(c) == c # None => stop[c] \notin {"term", "kill"}
Threw(c) == c # None /\ stop[c] = "threw"

\* The exit event, once.  It is unexpected only of a child that was ready.
Exited(c) ==
    /\ proc[c] = "dead" /\ ~ sup[c].exited
    /\ IF sup[c].child /\ sup[c].ready
       THEN /\ sup' = [sup EXCEPT ![c] = [NewSupervisor EXCEPT !.exited = TRUE]]
            /\ page' = IF supervisor = c THEN ErrorPage ELSE page
       ELSE /\ sup' = [sup EXCEPT ![c].exited = TRUE]
            /\ UNCHANGED page
    /\ UNCHANGED <<app, supervisor, launched, launch, stop, task>>
    /\ UNCHANGED backends

---------------------------------------------------------------------------
(* launchWorkspace. *)

Spawn ==
    /\ launched < MaxLaunches
    /\ LET c == launched + 1
       IN  /\ launched' = c
           /\ supervisor' = c
           /\ launch' = [launch EXCEPT ![c] = "waiting"]
           /\ sup' = [sup EXCEPT ![c].child = TRUE]
           /\ proc' = [proc EXCEPT ![c] = "boot"]
    /\ UNCHANGED <<app, stop, page, gate, work, lock, roots>>

\* The readiness record has arrived and /health answers.
Healthy(c) ==
    /\ launch[c] = "waiting" /\ proc[c] = "serving"
    /\ launch' = [launch EXCEPT ![c] = "healthy"]
    /\ UNCHANGED <<app, supervisor, launched, sup, stop, page, task>>
    /\ UNCHANGED backends

Up(c) ==
    /\ launch[c] = "healthy"
    /\ launch' = [launch EXCEPT ![c] = "loading"]
    /\ sup' = [sup EXCEPT ![c].ready = TRUE]
    /\ UNCHANGED <<app, supervisor, launched, stop, page, task>>
    /\ UNCHANGED backends

\* The process exits before it is ready, or a deadline passes: start stops it.
GiveUp(c) ==
    /\ launch[c] = "waiting"
    /\ launch' = [launch EXCEPT ![c] = IF HasChild(c) THEN "stopping" ELSE "failed"]
    /\ BeginStop(c)
    /\ UNCHANGED <<app, supervisor, launched, page, task, roots>>

\* The window loads, or the error page replaces the previous window.
Load(c) ==
    /\ launch[c] = "loading"
    /\ launch' = [launch EXCEPT ![c] = "settled"]
    /\ page' = IF proc[c] = "serving" THEN c ELSE ErrorPage
    /\ UNCHANGED <<app, supervisor, launched, sup, stop, task>>
    /\ UNCHANGED backends

ShowError(c) ==
    /\ launch[c] = "failed" \/ (launch[c] = "stopping" /\ Stopped(c))
    /\ launch' = [launch EXCEPT ![c] = "settled"]
    /\ page' = ErrorPage
    /\ UNCHANGED <<app, supervisor, launched, sup, stop, task>>
    /\ UNCHANGED backends

\* The retry button: the error page stays, and can be clicked again, until a window loads.
Retry ==
    /\ page = ErrorPage
    /\ Spawn
    /\ UNCHANGED task

---------------------------------------------------------------------------
(* Quitting and restarting. *)

\* Saving settings asks whether the backend is idle and arms a timer.
SaveSettings(t) ==
    /\ task[t].at = "idle" /\ page \in Launches
    /\ sup[supervisor].ready /\ proc[supervisor] = "serving" /\ ~ work[supervisor]
    /\ task' = [task EXCEPT ![t].at = "armed"]
    /\ UNCHANGED <<app, supervisor, launched, launch, sup, stop, page>>
    /\ UNCHANGED backends

\* stopBackend, of whatever supervisor the shell holds now.
BeginTaskStop(t) ==
    /\ task' = [task EXCEPT ![t] =
         [at |-> "stopping", of |-> IF HasChild(supervisor) THEN supervisor ELSE None]]
    /\ BeginStop(supervisor)
    /\ UNCHANGED <<app, supervisor, launched, launch, page, roots>>

\* before-quit, or the timer: ask the backend to prepare.  Without a ready one there is
\* nothing to ask, and the stop begins at once.
Ask(t) ==
    /\ task[t].at = IF t = "quit" THEN "idle" ELSE "armed"
    /\ IF sup[supervisor].ready
       THEN /\ task' = [task EXCEPT ![t] = [at |-> "asking", of |-> supervisor]]
            /\ UNCHANGED <<app, supervisor, launched, launch, sup, stop, page>>
            /\ UNCHANGED backends
       ELSE BeginTaskStop(t)

\* Mutant: the backend says that it is idle and leaves its gate open.
AnswerLeavesOpen(t) ==
    /\ task[t].at = "asking" /\ proc[task[t].of] = "serving"
    /\ \/ /\ work[task[t].of]
          /\ task' = [task EXCEPT ![t] = NoTask]
          /\ UNCHANGED <<gate, work>>
       \/ /\ task' = [task EXCEPT ![t].at = "answered"]
          /\ work' = [work EXCEPT ![task[t].of] = FALSE]
          /\ UNCHANGED gate
    /\ UNCHANGED <<app, supervisor, launched, launch, sup, stop, page>>
    /\ UNCHANGED <<proc, lock, roots>>

\* prepare-shutdown answers.  It cancels the agent's runs and shuts the gate, or refuses:
\* a request of the control service is under way, or a writer does not end in time.
Answer(t) ==
    /\ task[t].at = "asking" /\ proc[task[t].of] = "serving"
    /\ \/ /\ work[task[t].of]
          /\ task' = [task EXCEPT ![t] = NoTask]
          /\ UNCHANGED <<gate, work>>
       \/ /\ task' = [task EXCEPT ![t].at = "answered"]
          /\ work' = [work EXCEPT ![task[t].of] = FALSE]
          /\ gate' = [gate EXCEPT ![task[t].of] = "shut"]
    /\ UNCHANGED <<app, supervisor, launched, launch, sup, stop, page>>
    /\ UNCHANGED <<proc, lock, roots>>

Prepared(t) ==
    /\ task[t].at = "answered"
    /\ BeginTaskStop(t)

\* The backend is gone or closing: the request fails, and a dialog says so.
NoAnswer(t) ==
    /\ task[t].at = "asking" /\ proc[task[t].of] # "serving"
    /\ task' = [task EXCEPT ![t] = NoTask]
    /\ UNCHANGED <<app, supervisor, launched, launch, sup, stop, page>>
    /\ UNCHANGED backends

\* The stop has returned: the shell quits, or launches again.  It may have thrown.
Finish(t) ==
    /\ task[t].at = "stopping" /\ Stopped(task[t].of)
    /\ task' = [task EXCEPT ![t] = NoTask]
    /\ IF Threw(task[t].of)
       THEN /\ UNCHANGED <<app, supervisor, launched, launch, sup, stop, page>>
            /\ UNCHANGED backends
       ELSE IF t = "quit"
            THEN /\ app' = "gone"
                 /\ UNCHANGED <<supervisor, launched, launch, sup, stop, page>>
                 /\ UNCHANGED backends
            ELSE Spawn

\* The shell takes up an answer before the user or a new backend can do anything.
Free == app = "up" /\ \A t \in Tasks : task[t].at # "answered"

Shell ==
    \/ app = "up" /\ \E t \in Tasks : Prepared(t)
    \/ /\ Free
       /\ \/ Retry
          \/ \E c \in Launches : \/ Healthy(c) \/ Up(c) \/ GiveUp(c)
                                 \/ Load(c) \/ ShowError(c) \/ EndStop(c) \/ Exited(c)
          \/ \E t \in Restarts : SaveSettings(t)
          \/ \E t \in Tasks : Ask(t) \/ Answer(t) \/ NoAnswer(t) \/ Finish(t)

Init ==
    /\ app = "up" /\ supervisor = 1 /\ launched = 1 /\ page = None
    /\ launch = [c \in Launches |-> IF c = 1 THEN "waiting" ELSE "none"]
    /\ sup = [c \in Launches |-> [NewSupervisor EXCEPT !.child = c = 1]]
    /\ stop = [c \in Launches |-> "no"]
    /\ task = [t \in Tasks |-> NoTask]
    /\ proc = [c \in Launches |-> IF c = 1 THEN "boot" ELSE "none"]
    /\ gate = [c \in Launches |-> "open"]
    /\ work = [c \in Launches |-> FALSE]
    /\ lock = None /\ roots = {}

Next == Shell \/ \E c \in Launches : Backend(c)

\* The shell's timers fire, and what it awaits under a time limit settles.  loadURL has no
\* limit: it settles when the backend is dead, and may hang as long as the backend does.
\* Nothing is assumed of a backend.
Fairness ==
    /\ WF_vars(app = "up" /\ \E t \in Tasks : Prepared(t))
    /\ \A c \in Launches :
        /\ WF_vars(Free /\ (Healthy(c) \/ GiveUp(c)))
        /\ WF_vars(Free /\ (Up(c) \/ ShowError(c)))
        /\ WF_vars(Free /\ ~ Alive(c) /\ Load(c))
        /\ WF_vars(Free /\ EndStop(c))
    /\ WF_vars(Free /\ Finish("quit"))

Spec == Init /\ [][Next]_vars /\ Fairness

---------------------------------------------------------------------------
\* Whatever launches overlap, a backend that has made its private root keeps it until it
\* closes, and no second backend gets past the lock of the data directory: the sweep of
\* sessions/ in session_storage.py never removes the root of a living backend.
LivingBackendsKeepTheirRoot ==
    \A c \in Launches :
        proc[c] \in {"announced", "serving"} => c \in roots /\ lock = c

\* The shell never signals a backend in which work is active, though work may begin
\* between the question and the signal and the variable "supervisor" may change while a
\* quit or a restart waits: from the signal on, none is active.
NoWorkIsKilled ==
    \A c \in Launches : stop[c] # "no" => ~ work[c]

\* The launches, of which there are finitely many here, all end with a window or with the
\* error page, and so do the stops a quit waits for, though a backend may hang at any
\* point.  The one wait without an end is that for the page of a backend which hangs after
\* it was healthy, and it ends with that backend.
LoadHangs(c) == launch[c] = "loading" /\ Alive(c)
ShellSettles ==
    <>[](\/ app = "gone"
         \/ /\ \A c \in Launches : launch[c] \in {"none", "settled"} \/ LoadHangs(c)
            /\ task["quit"].at # "stopping")
=============================================================================
