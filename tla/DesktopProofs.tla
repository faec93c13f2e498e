---------------------------- MODULE DesktopProofs ----------------------------
(***************************************************************************)
(* Proofs about Desktop, for any number of launches and any restarts the   *)
(* settings may ask for: the sweep of one backend leaves the roots of the  *)
(* others alone, and no backend is signalled with work active.             *)
(***************************************************************************)
EXTENDS Desktop, TLAPS

----------------------------------------------------------------------------
(* The inductive invariant *)

ProcStates == {"none", "boot", "locked", "announced", "serving", "closing", "dead"}
LaunchStates == {"none", "waiting", "healthy", "loading", "stopping", "failed", "settled"}
TaskStates == {"idle", "armed", "asking", "answered", "stopping"}

\* The fields of a supervisor.
Supervisors == [child : BOOLEAN, ready : BOOLEAN, exited : BOOLEAN]

\* Every variable keeps its type, and a question is put to some launch.
Types ==
    /\ app \in {"up", "gone"}
    /\ launched \in Launches /\ supervisor \in 1 .. launched
    /\ launch \in [Launches -> LaunchStates]
    /\ sup \in [Launches -> Supervisors]
    /\ stop \in [Launches -> {"no", "term", "kill", "threw"}]
    /\ page \in Launches \cup {None, ErrorPage}
    /\ task \in [Tasks -> [at : TaskStates, of : Launches \cup {None}]]
    /\ \A t \in Tasks : task[t].at \in {"asking", "answered"} => task[t].of \in Launches
    /\ proc \in [Launches -> ProcStates]
    /\ gate \in [Launches -> {"open", "shut"}]
    /\ work \in [Launches -> BOOLEAN]
    /\ lock \in Launches \cup {None} /\ roots \subseteq Launches

\* Nothing is known of a launch that has not begun, and one that has begun has a process.
LaunchesBegin ==
    \A c \in Launches :
        /\ c > launched => launch[c] = "none" /\ ~ sup[c].child /\ ~ sup[c].exited
        /\ c > launched <=> proc[c] = "none"

\* Past Acquire a backend holds the lock to its end.
LockIsHeld ==
    \A c \in Launches :
        /\ proc[c] \in {"locked", "announced", "serving", "closing"} => lock = c
        /\ proc[c] \in {"announced", "serving"} => c \in roots

\* A supervisor whose child lives and that is not ready is that of a launch under way.
LaunchesGetReady ==
    \A c \in Launches :
        HasChild(c) /\ ~ sup[c].ready => launch[c] \in {"waiting", "healthy"}

\* A window is that of a launch that has settled, on a backend that has served.
WindowsAreServed ==
    page \in Launches => launch[page] = "settled" /\ proc[page] \in {"serving", "closing", "dead"}

\* Work is active only where a window could begin it, and never from a signal on.
WorkIsServed ==
    \A c \in Launches :
        /\ work[c] => proc[c] = "serving" /\ launch[c] = "settled"
        /\ stop[c] # "no" => proc[c] \in {"closing", "dead"}

\* From the answer to the signal nothing works, and no window can begin to: the backend
\* that answered held the lock, so that the window of any other one is dead.
AnswersLast ==
    \A t \in Tasks : task[t].at = "answered" =>
        \A c \in Launches :
            /\ ~ work[c]
            /\ page = c => gate[c] = "shut" \/ proc[c] = "dead"

IInv ==
    /\ Types
    /\ LaunchesBegin
    /\ LockIsHeld
    /\ LaunchesGetReady
    /\ WindowsAreServed
    /\ WorkIsServed
    /\ AnswersLast

----------------------------------------------------------------------------
(* Steps *)

\* A launch takes the next number and makes its process.
LEMMA SpawnEffect ==
    ASSUME IInv, Spawn
    PROVE  \E n \in Launches :
           /\ n = launched + 1
           /\ proc[n] = "none" /\ launch[n] = "none" /\ ~ sup[n].exited
           /\ launched' = n /\ supervisor' = n
           /\ launch' = [launch EXCEPT ![n] = "waiting"]
           /\ sup' \in [Launches -> Supervisors] /\ sup'[n].child /\ ~ sup'[n].exited
           /\ \A d \in Launches \ {n} : sup'[d] = sup[d]
           /\ proc' = [proc EXCEPT ![n] = "boot"]
           /\ UNCHANGED <<app, stop, page, gate, work, lock, roots>>
<1> DEFINE n == launched + 1
<1>1. /\ n \in Launches /\ n > launched
      /\ launched' = n /\ supervisor' = n
      /\ launch' = [launch EXCEPT ![n] = "waiting"]
      /\ sup' = [sup EXCEPT ![n].child = TRUE]
      /\ proc' = [proc EXCEPT ![n] = "boot"]
      /\ UNCHANGED <<app, stop, page, gate, work, lock, roots>>
  BY DesktopAssumption DEF Spawn, IInv, Types, Launches
<1> HIDE DEF n
<1>2. proc[n] = "none" /\ launch[n] = "none" /\ ~ sup[n].exited
  BY <1>1 DEF IInv, LaunchesBegin
<1>3. /\ sup' \in [Launches -> Supervisors] /\ sup'[n].child /\ ~ sup'[n].exited
      /\ ~ sup[n].exited
      /\ \A d \in Launches \ {n} : sup'[d] = sup[d]
  <2>1. ~ sup[n].exited
    BY <1>2
  <2>2. /\ sup \in [Launches -> Supervisors] /\ n \in Launches
        /\ sup' = [sup EXCEPT ![n].child = TRUE]
    BY <1>1 DEF IInv, Types
  <2>3. /\ sup' \in [Launches -> Supervisors] /\ sup'[n].child /\ sup'[n].exited = sup[n].exited
        /\ \A d \in Launches \ {n} : sup'[d] = sup[d]
    BY <2>2 DEF Supervisors
  <2>4. QED
    BY <2>1, <2>3
<1>4. QED
  BY <1>1, <1>2, <1>3 DEF n

\* What a stop does to the supervisor: it forgets the child.
LEMMA StopForgets ==
    ASSUME IInv, NEW c \in Launches, BeginStop(c)
    PROVE  /\ sup' \in [Launches -> Supervisors]
           /\ ~ sup'[c].child /\ ~ sup'[c].ready
           /\ \A d \in Launches \ {c} : sup'[d] = sup[d]
<1>1. sup \in [Launches -> Supervisors]
  BY DEF IInv, Types
<1>2. sup' = [sup EXCEPT ![c].child = FALSE, ![c].ready = FALSE]
  BY DEF BeginStop
<1>3. QED
  BY <1>1, <1>2 DEF Supervisors

\* What a stop does to the process: a living child dies at once or begins to close.
LEMMA StopSignals ==
    ASSUME IInv, NEW c \in Launches, c <= launched, BeginStop(c)
    PROVE  /\ proc' \in [Launches -> ProcStates] /\ gate' \in [Launches -> {"open", "shut"}]
           /\ work' \in [Launches -> BOOLEAN]
           /\ stop' \in [Launches -> {"no", "term", "kill", "threw"}]
           /\ \A d \in Launches \ {c} :
                 /\ proc'[d] = proc[d] /\ work'[d] = work[d]
                 /\ gate'[d] = gate[d] /\ stop'[d] = stop[d]
           /\ stop'[c] = stop[c] \/ proc'[c] \in {"closing", "dead"}
           /\ proc[c] # "none"
           /\ \/ proc'[c] = "dead" /\ lock' = (IF lock = c THEN None ELSE lock) /\ ~ work'[c]
              \/ proc'[c] = proc[c] /\ lock' = lock /\ work' = work /\ gate'[c] = gate[c]
              \/ proc[c] = "serving" /\ proc'[c] = "closing" /\ lock' = lock /\ work' = work
                 /\ gate'[c] = gate[c]
<1> USE DEF BeginStop, Die, ProcStates
<1>0. Types /\ proc[c] # "none"
  BY DEF IInv, LaunchesBegin, Types, Launches
<1>1. CASE ~HasChild(c)
  <2>1. UNCHANGED <<stop, proc, lock, work, gate>>
    BY <1>1
  <2>2. QED
    BY <1>0, <2>1 DEF Types
<1>2. CASE HasChild(c) /\ proc[c] \in {"boot", "locked", "announced"}
  <2>1. /\ stop' = [stop EXCEPT ![c] = "term"] /\ proc' = [proc EXCEPT ![c] = "dead"]
        /\ lock' = IF lock = c THEN None ELSE lock
        /\ work' = [work EXCEPT ![c] = FALSE] /\ gate' = [gate EXCEPT ![c] = "open"]
    BY <1>2
  <2>2. QED
    BY <1>0, <2>1 DEF Types
<1>3. CASE HasChild(c) /\ proc[c] \notin {"boot", "locked", "announced"}
  <2>1. /\ stop' = [stop EXCEPT ![c] = "term"] /\ UNCHANGED <<lock, work, gate>>
        /\ proc' = [proc EXCEPT ![c] = IF @ = "serving" THEN "closing" ELSE @]
    BY <1>3
  <2>2. proc[c] \in {"serving", "closing", "dead"}
    BY <1>0, <1>3 DEF Types
  <2>3. QED
    BY <1>0, <2>1, <2>2 DEF Types
<1>4. QED
  BY <1>1, <1>2, <1>3

\* A launch that has begun, and its process.
LEMMA Begun ==
    ASSUME IInv, NEW c \in Launches, launch[c] # "none" \/ proc[c] # "none" \/ sup[c].child
    PROVE  c <= launched /\ proc[c] # "none"
<1>1. CASE c > launched
  <2>1. ~ sup[c].child /\ launch[c] = "none" /\ proc[c] = "none"
    BY <1>1 DEF IInv, LaunchesBegin
  <2>2. QED
    BY <2>1
<1>2. CASE ~ (c > launched)
  BY <1>2 DEF IInv, Types, LaunchesBegin, Launches
<1>3. QED
  BY <1>1, <1>2

\* The stop of a task is that of the supervisor the shell holds.
LEMMA TaskStopEffect ==
    ASSUME IInv, NEW t \in Tasks, BeginTaskStop(t)
    PROVE  /\ supervisor \in Launches /\ supervisor <= launched /\ BeginStop(supervisor)
           /\ task' \in [Tasks -> [at : TaskStates, of : Launches \cup {None}]]
           /\ task'[t].at = "stopping" /\ \A u \in Tasks \ {t} : task'[u] = task[u]
           /\ UNCHANGED <<app, supervisor, launched, launch, page, roots>>
<1>1. supervisor \in Launches /\ supervisor <= launched
  BY DesktopAssumption DEF IInv, Types, Launches
<1>2. QED
  BY <1>1 DEF BeginTaskStop, IInv, Types, TaskStates

\* The exit event of a process: its supervisor is no longer ready.
LEMMA ExitedEffect ==
    ASSUME IInv, NEW c \in Launches, Exited(c)
    PROVE  /\ c <= launched /\ proc[c] = "dead"
           /\ sup' \in [Launches -> Supervisors] /\ sup'[c].exited
           /\ \A d \in Launches \ {c} : sup'[d] = sup[d]
           /\ page' \in {page, ErrorPage}
           /\ UNCHANGED <<app, supervisor, launched, launch, stop, task, backends>>
<1>1. proc[c] = "dead" /\ c <= launched
  BY Begun DEF Exited
<1>2. page' \in {page, ErrorPage} /\ UNCHANGED <<app, supervisor, launched, launch, stop, task,
                                                  backends>>
  BY DEF Exited
<1>3. sup \in [Launches -> Supervisors]
  BY DEF IInv, Types
<1>4. CASE sup[c].child /\ sup[c].ready
  <2>1. sup' = [sup EXCEPT ![c] = [NewSupervisor EXCEPT !.exited = TRUE]]
    BY <1>4 DEF Exited
  <2>2. /\ [NewSupervisor EXCEPT !.exited = TRUE] \in Supervisors
        /\ [NewSupervisor EXCEPT !.exited = TRUE].exited
    BY DEF NewSupervisor, Supervisors
  <2>3. /\ sup' \in [Launches -> Supervisors] /\ sup'[c].exited
        /\ \A d \in Launches \ {c} : sup'[d] = sup[d]
    BY <1>3, <2>1, <2>2
  <2>4. QED
    BY <1>1, <1>2, <2>3
<1>5. CASE ~ (sup[c].child /\ sup[c].ready)
  <2>1. sup' = [sup EXCEPT ![c].exited = TRUE]
    BY <1>5 DEF Exited
  <2>2. /\ sup' \in [Launches -> Supervisors] /\ sup'[c].exited
        /\ \A d \in Launches \ {c} : sup'[d] = sup[d]
    BY <1>3, <2>1 DEF Supervisors
  <2>3. QED
    BY <1>1, <1>2, <2>2
<1>6. QED
  BY <1>4, <1>5

\* The backend that answers serves: it holds the lock, and no other one serves.
LEMMA AnswerEffect ==
    ASSUME IInv, NEW t \in Tasks, Answer(t)
    PROVE  /\ task[t].of \in Launches /\ proc[task[t].of] = "serving"
           /\ \A d \in Launches \ {task[t].of} :
                 /\ proc[d] \notin {"serving", "closing"}
                 /\ work'[d] = work[d]
                 /\ gate'[d] = gate[d]
           /\ task' \in [Tasks -> [at : TaskStates, of : Launches \cup {None}]]
           /\ \A u \in Tasks \ {t} : task'[u] = task[u]
           /\ work' \in [Launches -> BOOLEAN] /\ gate' \in [Launches -> {"open", "shut"}]
           /\ \/ task'[t].at = "idle" /\ work' = work /\ gate' = gate
              \/ task'[t].at = "answered" /\ ~ work'[task[t].of] /\ gate'[task[t].of] = "shut"
           /\ UNCHANGED <<app, supervisor, launched, launch, sup, stop, page, proc, lock,
                           roots>>
<1>1. /\ task \in [Tasks -> [at : TaskStates, of : Launches \cup {None}]]
      /\ proc[task[t].of] = "serving"
      /\ work \in [Launches -> BOOLEAN] /\ gate \in [Launches -> {"open", "shut"}]
      /\ UNCHANGED <<app, supervisor, launched, launch, sup, stop, page, proc, lock, roots>>
  BY DEF IInv, Types, Answer
<1>2. task[t].of \in Launches
  BY DEF Answer, IInv, Types
<1>3. \A d \in Launches \ {task[t].of} : proc[d] \notin {"serving", "closing"}
  BY <1>1, <1>2 DEF IInv, LockIsHeld
<1>4. CASE task' = [task EXCEPT ![t] = NoTask] /\ UNCHANGED <<gate, work>>
  <2>1. NoTask \in [at : TaskStates, of : Launches \cup {None}] /\ NoTask.at = "idle"
    BY DEF NoTask, TaskStates
  <2>2. QED
    BY <1>1, <1>2, <1>3, <1>4, <2>1
<1>5. CASE /\ task' = [task EXCEPT ![t].at = "answered"]
           /\ work' = [work EXCEPT ![task[t].of] = FALSE]
           /\ gate' = [gate EXCEPT ![task[t].of] = "shut"]
  <2>1. /\ task' \in [Tasks -> [at : TaskStates, of : Launches \cup {None}]]
        /\ task'[t].at = "answered" /\ \A u \in Tasks \ {t} : task'[u] = task[u]
    BY <1>1, <1>5 DEF TaskStates
  <2>2. /\ work' \in [Launches -> BOOLEAN] /\ gate' \in [Launches -> {"open", "shut"}]
        /\ ~ work'[task[t].of] /\ gate'[task[t].of] = "shut"
        /\ \A d \in Launches \ {task[t].of} : work'[d] = work[d] /\ gate'[d] = gate[d]
    BY <1>1, <1>2, <1>5
  <2>3. QED
    BY <1>1, <1>2, <1>3, <2>1, <2>2
<1>6. QED
  BY <1>4, <1>5 DEF Answer

\* The tasks keep their type through a launch and through a stop, and so does the rest.
LEMMA SpawnTypes ==
    ASSUME IInv, Spawn, task' \in [Tasks -> [at : TaskStates, of : Launches \cup {None}]],
           \A t \in Tasks : task'[t].at \in {"asking", "answered"} => task'[t].of \in Launches
    PROVE  Types'
<1>1. PICK n \in Launches :
           /\ n = launched + 1
           /\ launched' = n /\ supervisor' = n
           /\ launch' = [launch EXCEPT ![n] = "waiting"]
           /\ sup' \in [Launches -> Supervisors]
           /\ proc' = [proc EXCEPT ![n] = "boot"]
           /\ UNCHANGED <<app, stop, page, gate, work, lock, roots>>
  BY SpawnEffect
<1>2. launched' \in Launches /\ supervisor' \in 1 .. launched'
  BY <1>1, DesktopAssumption DEF Launches
<1>3. launch' \in [Launches -> LaunchStates] /\ proc' \in [Launches -> ProcStates]
  BY <1>1 DEF IInv, Types, LaunchStates, ProcStates
<1>4. QED
  BY <1>1, <1>2, <1>3 DEF IInv, Types

LEMMA StopTypes ==
    ASSUME IInv, NEW c \in Launches, c <= launched, BeginStop(c),
           UNCHANGED <<app, supervisor, launched, page, roots>>,
           launch' \in [Launches -> LaunchStates],
           task' \in [Tasks -> [at : TaskStates, of : Launches \cup {None}]],
           \A t \in Tasks : task'[t].at \in {"asking", "answered"} => task'[t].of \in Launches
    PROVE  Types'
<1>1. lock' \in Launches \cup {None}
  BY StopSignals DEF IInv, Types
<1>2. QED
  BY <1>1, StopForgets, StopSignals DEF IInv, Types

\* Work is not stopped: a stop has no child to signal, or that child has no work.
LEMMA StopKeepsWorkServed ==
    ASSUME IInv, NEW c \in Launches, c <= launched, BeginStop(c), ~ HasChild(c) \/ ~ work[c],
           UNCHANGED launch
    PROVE  WorkIsServed'
<1>1. WorkIsServed /\ proc \in [Launches -> ProcStates]
  BY DEF IInv, Types
<1>2. CASE ~ HasChild(c)
  <2>1. UNCHANGED <<stop, proc, work>>
    BY <1>2 DEF BeginStop
  <2>2. QED
    BY <1>1, <2>1 DEF WorkIsServed
<1>3. CASE ~ work[c]
  <2>1. ~ work'[c] /\ (stop'[c] # "no" => proc'[c] \in {"closing", "dead"})
    BY <1>1, <1>3, StopSignals DEF WorkIsServed
  <2>2. QED
    BY <1>1, <2>1, StopSignals DEF WorkIsServed
<1>4. QED
  BY <1>2, <1>3

\* An answer keeps the types, and an unfavourable one what the others have promised.
LEMMA AnswerTypes ==
    ASSUME IInv, NEW t \in Tasks, Answer(t)
    PROVE  Types'
<1>1. \A u \in Tasks : task'[u].at \in {"asking", "answered"} => task'[u].of \in Launches
  <2>1. task'[t].of = task[t].of \/ task'[t].at = "idle"
    <3>1. task \in [Tasks -> [at : TaskStates, of : Launches \cup {None}]]
      BY DEF IInv, Types
    <3>2. QED
      BY <3>1 DEF Answer, NoTask
  <2>2. QED
    BY <2>1, AnswerEffect DEF IInv, Types
<1>2. QED
  BY <1>1, AnswerEffect DEF IInv, Types

\* A refusal promises nothing.
LEMMA RefusalKeepsAnswers ==
    ASSUME IInv, NEW t \in Tasks, Answer(t), task'[t].at = "idle", work' = work, gate' = gate
    PROVE  AnswersLast'
<1>1. \A u \in Tasks : task'[u].at = "answered" => task[u].at = "answered"
  BY AnswerEffect
<1>2. UNCHANGED <<page, proc>>
  BY AnswerEffect
<1>3. QED
  BY <1>1, <1>2 DEF IInv, AnswersLast

\* Every step keeps the types.
LEMMA TypesStep ==
    ASSUME IInv, [Next]_vars
    PROVE  Types'
<1> USE DesktopAssumption DEF IInv, Types, Launches, None, ErrorPage, Tasks, ProcStates,
        LaunchStates, TaskStates, NoTask, NewSupervisor, Supervisors
<1>1. ASSUME NEW c \in Launches, Acquire(c), UNCHANGED shell  PROVE Types'
  BY <1>1 DEF Acquire, shell
<1>2. ASSUME NEW c \in Launches, Prepare(c), UNCHANGED shell  PROVE Types'
  BY <1>2 DEF Prepare, shell
<1>3. ASSUME NEW c \in Launches, Serve(c), UNCHANGED shell  PROVE Types'
  BY <1>3 DEF Serve, shell
<1>4. ASSUME NEW c \in Launches, Work(c), UNCHANGED shell  PROVE Types'
  BY <1>4 DEF Work, shell
<1>5. ASSUME NEW c \in Launches, Fail(c), UNCHANGED shell  PROVE Types'
  BY <1>5 DEF Fail, shell
<1>6. ASSUME NEW c \in Launches, Close(c), UNCHANGED shell  PROVE Types'
  BY <1>6 DEF Close, Die, shell
<1>7. ASSUME NEW c \in Launches, Crash(c), UNCHANGED shell  PROVE Types'
  BY <1>7 DEF Crash, Die, Alive, shell
<1>8. ASSUME Retry  PROVE Types'
  BY <1>8, SpawnTypes DEF Retry
<1>9. ASSUME NEW c \in Launches, Healthy(c), Free  PROVE Types'
  BY <1>9 DEF Healthy, backends
<1>10. ASSUME NEW c \in Launches, Up(c), Free  PROVE Types'
  BY ZenonT(60), <1>10 DEF Up, backends
<1>11. ASSUME NEW c \in Launches, GiveUp(c), Free  PROVE Types'
  BY <1>11, Begun, StopTypes DEF GiveUp
<1>12. ASSUME NEW c \in Launches, Load(c), Free  PROVE Types'
  BY <1>12 DEF Load, backends
<1>13. ASSUME NEW c \in Launches, ShowError(c), Free  PROVE Types'
  BY <1>13 DEF ShowError, backends
<1>14. ASSUME NEW c \in Launches, EndStop(c), Free  PROVE Types'
  BY <1>14 DEF EndStop, backends, Alive
<1>15. ASSUME NEW c \in Launches, Exited(c), Free  PROVE Types'
  BY ZenonT(60), <1>15, ExitedEffect DEF backends
<1>16. ASSUME NEW t \in Restarts, SaveSettings(t), Free  PROVE Types'
  BY <1>16 DEF SaveSettings, backends
<1>17. ASSUME NEW t \in Tasks, Prepared(t)  PROVE Types'
  <2>1. \A u \in Tasks : task'[u].at \in {"asking", "answered"} => task'[u].of \in Launches
    BY <1>17, TaskStopEffect DEF Prepared
  <2>2. QED
    BY <1>17, <2>1, TaskStopEffect, StopTypes DEF Prepared
<1>18. ASSUME NEW t \in Tasks, Ask(t), Free  PROVE Types'
  <2>1. CASE sup[supervisor].ready
    <3>1. /\ task' = [task EXCEPT ![t] = [at |-> "asking", of |-> supervisor]]
          /\ UNCHANGED <<app, supervisor, launched, launch, sup, stop, page, backends>>
      BY <1>18, <2>1 DEF Ask
    <3>2. supervisor \in Launches
      BY SMT
    <3>3. QED
      BY <3>1, <3>2 DEF backends
  <2>2. CASE ~ sup[supervisor].ready
    <3>1. BeginTaskStop(t)
      BY <1>18, <2>2 DEF Ask
    <3>2. \A u \in Tasks : task'[u].at \in {"asking", "answered"} => task'[u].of \in Launches
      BY <3>1, TaskStopEffect
    <3>3. QED
      BY <3>1, <3>2, TaskStopEffect, StopTypes
  <2>3. QED
    BY <2>1, <2>2
<1>19. ASSUME NEW t \in Tasks, Answer(t), Free  PROVE Types'
  BY <1>19, AnswerTypes
<1>20. ASSUME NEW t \in Tasks, NoAnswer(t), Free  PROVE Types'
  BY <1>20 DEF NoAnswer, backends
<1>21. ASSUME NEW t \in Tasks, Finish(t), Free  PROVE Types'
  <2>1. /\ task' \in [Tasks -> [at : TaskStates, of : Launches \cup {None}]]
        /\ \A u \in Tasks : task'[u].at \in {"asking", "answered"} => task'[u].of \in Launches
    BY <1>21 DEF Finish
  <2>2. CASE Spawn
    BY <2>1, <2>2, SpawnTypes
  <2>3. CASE app' \in {"up", "gone"} /\ UNCHANGED <<supervisor, launched, launch, sup, stop,
                                                     page, backends>>
    BY <2>1, <2>3 DEF backends
  <2>4. QED
    BY <1>21, <2>2, <2>3 DEF Finish
<1>22. CASE UNCHANGED vars
  BY <1>22 DEF vars
<1>23. QED
  BY <1>1, <1>2, <1>3, <1>4, <1>5, <1>6, <1>7, <1>8, <1>9, <1>10, <1>11, <1>12, <1>13, <1>14,
     <1>15, <1>16, <1>17, <1>18, <1>19, <1>20, <1>21, <1>22
     DEF Next, Backend, Shell, Tasks

\* Every step keeps launches in their order.
LEMMA LaunchesBeginStep ==
    ASSUME IInv, [Next]_vars
    PROVE  LaunchesBegin'
<1> USE DesktopAssumption DEF IInv, Types, Launches, None, ErrorPage, Tasks, LaunchesBegin
<1>1. ASSUME NEW c \in Launches, Acquire(c), UNCHANGED shell  PROVE LaunchesBegin'
  BY <1>1 DEF Acquire, shell
<1>2. ASSUME NEW c \in Launches, Prepare(c), UNCHANGED shell  PROVE LaunchesBegin'
  BY <1>2 DEF Prepare, shell
<1>3. ASSUME NEW c \in Launches, Serve(c), UNCHANGED shell  PROVE LaunchesBegin'
  BY <1>3 DEF Serve, shell
<1>4. ASSUME NEW c \in Launches, Work(c), UNCHANGED shell  PROVE LaunchesBegin'
  BY <1>4 DEF Work, shell
<1>5. ASSUME NEW c \in Launches, Fail(c), UNCHANGED shell  PROVE LaunchesBegin'
  BY <1>5 DEF Fail, shell
<1>6. ASSUME NEW c \in Launches, Close(c), UNCHANGED shell  PROVE LaunchesBegin'
  BY <1>6 DEF Close, Die, shell
<1>7. ASSUME NEW c \in Launches, Crash(c), UNCHANGED shell  PROVE LaunchesBegin'
  BY <1>7 DEF Crash, Die, Alive, shell
<1>8. ASSUME Retry  PROVE LaunchesBegin'
  BY <1>8, SpawnEffect DEF Retry, backends
<1>9. ASSUME NEW c \in Launches, Healthy(c), Free  PROVE LaunchesBegin'
  BY <1>9 DEF Healthy, backends
<1>10. ASSUME NEW c \in Launches, Up(c), Free  PROVE LaunchesBegin'
  BY <1>10 DEF Up, backends
<1>11. ASSUME NEW c \in Launches, GiveUp(c), Free  PROVE LaunchesBegin'
  BY SMTT(30), <1>11, Begun, StopForgets, StopSignals DEF GiveUp
<1>12. ASSUME NEW c \in Launches, Load(c), Free  PROVE LaunchesBegin'
  BY <1>12 DEF Load, backends
<1>13. ASSUME NEW c \in Launches, ShowError(c), Free  PROVE LaunchesBegin'
  BY <1>13 DEF ShowError, backends
<1>14. ASSUME NEW c \in Launches, EndStop(c), Free  PROVE LaunchesBegin'
  BY <1>14 DEF EndStop, backends, Alive
<1>15. ASSUME NEW c \in Launches, Exited(c), Free  PROVE LaunchesBegin'
  BY <1>15, ExitedEffect DEF backends
<1>16. ASSUME NEW t \in Restarts, SaveSettings(t), Free  PROVE LaunchesBegin'
  BY <1>16 DEF SaveSettings, backends
<1>17. ASSUME NEW t \in Tasks, Prepared(t)  PROVE LaunchesBegin'
  BY <1>17, TaskStopEffect, StopForgets, StopSignals DEF Prepared
<1>18. ASSUME NEW t \in Tasks, Ask(t), Free  PROVE LaunchesBegin'
  BY <1>18, TaskStopEffect, StopForgets, StopSignals DEF Ask, backends
<1>19. ASSUME NEW t \in Tasks, Answer(t), Free  PROVE LaunchesBegin'
  BY <1>19, AnswerEffect
<1>20. ASSUME NEW t \in Tasks, NoAnswer(t), Free  PROVE LaunchesBegin'
  BY <1>20 DEF NoAnswer, backends
<1>21. ASSUME NEW t \in Tasks, Finish(t), Free  PROVE LaunchesBegin'
  BY <1>21, SpawnEffect DEF Finish, backends, Threw, Stopped
<1>22. CASE UNCHANGED vars
  BY <1>22 DEF vars
<1>23. QED
  BY <1>1, <1>2, <1>3, <1>4, <1>5, <1>6, <1>7, <1>8, <1>9, <1>10, <1>11, <1>12, <1>13, <1>14,
     <1>15, <1>16, <1>17, <1>18, <1>19, <1>20, <1>21, <1>22
     DEF Next, Backend, Shell, Tasks

\* Every step keeps the lock with its holder.
LEMMA LockIsHeldStep ==
    ASSUME IInv, [Next]_vars
    PROVE  LockIsHeld'
<1> USE DesktopAssumption DEF IInv, Types, Launches, None, ErrorPage, Tasks, LockIsHeld
<1>1. ASSUME NEW c \in Launches, Acquire(c), UNCHANGED shell  PROVE LockIsHeld'
  BY <1>1 DEF Acquire, shell
<1>2. ASSUME NEW c \in Launches, Prepare(c), UNCHANGED shell  PROVE LockIsHeld'
  BY <1>2 DEF Prepare, shell
<1>3. ASSUME NEW c \in Launches, Serve(c), UNCHANGED shell  PROVE LockIsHeld'
  BY <1>3 DEF Serve, shell
<1>4. ASSUME NEW c \in Launches, Work(c), UNCHANGED shell  PROVE LockIsHeld'
  BY <1>4 DEF Work, shell
<1>5. ASSUME NEW c \in Launches, Fail(c), UNCHANGED shell  PROVE LockIsHeld'
  BY <1>5 DEF Fail, shell
<1>6. ASSUME NEW c \in Launches, Close(c), UNCHANGED shell  PROVE LockIsHeld'
  BY <1>6 DEF Close, Die, shell
<1>7. ASSUME NEW c \in Launches, Crash(c), UNCHANGED shell  PROVE LockIsHeld'
  BY <1>7 DEF Crash, Die, Alive, shell
<1>8. ASSUME Retry  PROVE LockIsHeld'
  BY <1>8, SpawnEffect DEF Retry, backends
<1>9. ASSUME NEW c \in Launches, Healthy(c), Free  PROVE LockIsHeld'
  BY <1>9 DEF Healthy, backends
<1>10. ASSUME NEW c \in Launches, Up(c), Free  PROVE LockIsHeld'
  BY <1>10 DEF Up, backends
<1>11. ASSUME NEW c \in Launches, GiveUp(c), Free  PROVE LockIsHeld'
  BY <1>11, Begun, StopForgets, StopSignals DEF GiveUp
<1>12. ASSUME NEW c \in Launches, Load(c), Free  PROVE LockIsHeld'
  BY <1>12 DEF Load, backends
<1>13. ASSUME NEW c \in Launches, ShowError(c), Free  PROVE LockIsHeld'
  BY <1>13 DEF ShowError, backends
<1>14. ASSUME NEW c \in Launches, EndStop(c), Free  PROVE LockIsHeld'
  BY <1>14 DEF EndStop, backends, Alive
<1>15. ASSUME NEW c \in Launches, Exited(c), Free  PROVE LockIsHeld'
  BY <1>15, ExitedEffect DEF backends
<1>16. ASSUME NEW t \in Restarts, SaveSettings(t), Free  PROVE LockIsHeld'
  BY <1>16 DEF SaveSettings, backends
<1>17. ASSUME NEW t \in Tasks, Prepared(t)  PROVE LockIsHeld'
  BY ZenonT(60), <1>17, TaskStopEffect, StopForgets, StopSignals DEF Prepared
<1>18. ASSUME NEW t \in Tasks, Ask(t), Free  PROVE LockIsHeld'
  BY <1>18, TaskStopEffect, StopForgets, StopSignals DEF Ask, backends
<1>19. ASSUME NEW t \in Tasks, Answer(t), Free  PROVE LockIsHeld'
  BY <1>19, AnswerEffect
<1>20. ASSUME NEW t \in Tasks, NoAnswer(t), Free  PROVE LockIsHeld'
  BY <1>20 DEF NoAnswer, backends
<1>21. ASSUME NEW t \in Tasks, Finish(t), Free  PROVE LockIsHeld'
  BY <1>21, SpawnEffect DEF Finish, backends, Threw, Stopped
<1>22. CASE UNCHANGED vars
  BY <1>22 DEF vars
<1>23. QED
  BY <1>1, <1>2, <1>3, <1>4, <1>5, <1>6, <1>7, <1>8, <1>9, <1>10, <1>11, <1>12, <1>13, <1>14,
     <1>15, <1>16, <1>17, <1>18, <1>19, <1>20, <1>21, <1>22
     DEF Next, Backend, Shell, Tasks

\* Every step keeps readiness to launches under way.
LEMMA LaunchesGetReadyStep ==
    ASSUME IInv, [Next]_vars
    PROVE  LaunchesGetReady'
<1> USE DesktopAssumption DEF IInv, Types, Launches, None, ErrorPage, Tasks, LaunchesGetReady,
        LaunchesBegin, HasChild, NewSupervisor
<1>1. ASSUME NEW c \in Launches, Acquire(c), UNCHANGED shell  PROVE LaunchesGetReady'
  BY <1>1 DEF Acquire, shell
<1>2. ASSUME NEW c \in Launches, Prepare(c), UNCHANGED shell  PROVE LaunchesGetReady'
  BY <1>2 DEF Prepare, shell
<1>3. ASSUME NEW c \in Launches, Serve(c), UNCHANGED shell  PROVE LaunchesGetReady'
  BY <1>3 DEF Serve, shell
<1>4. ASSUME NEW c \in Launches, Work(c), UNCHANGED shell  PROVE LaunchesGetReady'
  BY <1>4 DEF Work, shell
<1>5. ASSUME NEW c \in Launches, Fail(c), UNCHANGED shell  PROVE LaunchesGetReady'
  BY <1>5 DEF Fail, shell
<1>6. ASSUME NEW c \in Launches, Close(c), UNCHANGED shell  PROVE LaunchesGetReady'
  BY <1>6 DEF Close, Die, shell
<1>7. ASSUME NEW c \in Launches, Crash(c), UNCHANGED shell  PROVE LaunchesGetReady'
  BY <1>7 DEF Crash, Die, Alive, shell
<1>8. ASSUME Retry  PROVE LaunchesGetReady'
  BY <1>8, SpawnEffect DEF Retry, backends
<1>9. ASSUME NEW c \in Launches, Healthy(c), Free  PROVE LaunchesGetReady'
  BY <1>9 DEF Healthy, backends
<1>10. ASSUME NEW c \in Launches, Up(c), Free  PROVE LaunchesGetReady'
  BY <1>10 DEF Up, backends
<1>11. ASSUME NEW c \in Launches, GiveUp(c), Free  PROVE LaunchesGetReady'
  BY <1>11, Begun, StopForgets, StopSignals DEF GiveUp
<1>12. ASSUME NEW c \in Launches, Load(c), Free  PROVE LaunchesGetReady'
  BY <1>12 DEF Load, backends
<1>13. ASSUME NEW c \in Launches, ShowError(c), Free  PROVE LaunchesGetReady'
  BY <1>13 DEF ShowError, backends
<1>14. ASSUME NEW c \in Launches, EndStop(c), Free  PROVE LaunchesGetReady'
  BY <1>14 DEF EndStop, backends, Alive
<1>15. ASSUME NEW c \in Launches, Exited(c), Free  PROVE LaunchesGetReady'
  BY <1>15, ExitedEffect DEF backends
<1>16. ASSUME NEW t \in Restarts, SaveSettings(t), Free  PROVE LaunchesGetReady'
  BY <1>16 DEF SaveSettings, backends
<1>17. ASSUME NEW t \in Tasks, Prepared(t)  PROVE LaunchesGetReady'
  BY <1>17, TaskStopEffect, StopForgets, StopSignals DEF Prepared
<1>18. ASSUME NEW t \in Tasks, Ask(t), Free  PROVE LaunchesGetReady'
  BY <1>18, TaskStopEffect, StopForgets, StopSignals DEF Ask, backends
<1>19. ASSUME NEW t \in Tasks, Answer(t), Free  PROVE LaunchesGetReady'
  BY <1>19, AnswerEffect
<1>20. ASSUME NEW t \in Tasks, NoAnswer(t), Free  PROVE LaunchesGetReady'
  BY <1>20 DEF NoAnswer, backends
<1>21. ASSUME NEW t \in Tasks, Finish(t), Free  PROVE LaunchesGetReady'
  BY <1>21, SpawnEffect DEF Finish, backends, Threw, Stopped
<1>22. CASE UNCHANGED vars
  BY <1>22 DEF vars
<1>23. QED
  BY <1>1, <1>2, <1>3, <1>4, <1>5, <1>6, <1>7, <1>8, <1>9, <1>10, <1>11, <1>12, <1>13, <1>14,
     <1>15, <1>16, <1>17, <1>18, <1>19, <1>20, <1>21, <1>22
     DEF Next, Backend, Shell, Tasks

\* Every step keeps windows to backends that have served.
LEMMA WindowsAreServedStep ==
    ASSUME IInv, [Next]_vars
    PROVE  WindowsAreServed'
<1> USE DesktopAssumption DEF IInv, Types, Launches, None, ErrorPage, Tasks, WindowsAreServed,
        LaunchesBegin
<1>1. ASSUME NEW c \in Launches, Acquire(c), UNCHANGED shell  PROVE WindowsAreServed'
  BY <1>1 DEF Acquire, shell
<1>2. ASSUME NEW c \in Launches, Prepare(c), UNCHANGED shell  PROVE WindowsAreServed'
  BY <1>2 DEF Prepare, shell
<1>3. ASSUME NEW c \in Launches, Serve(c), UNCHANGED shell  PROVE WindowsAreServed'
  BY <1>3 DEF Serve, shell
<1>4. ASSUME NEW c \in Launches, Work(c), UNCHANGED shell  PROVE WindowsAreServed'
  BY <1>4 DEF Work, shell
<1>5. ASSUME NEW c \in Launches, Fail(c), UNCHANGED shell  PROVE WindowsAreServed'
  BY <1>5 DEF Fail, shell
<1>6. ASSUME NEW c \in Launches, Close(c), UNCHANGED shell  PROVE WindowsAreServed'
  BY <1>6 DEF Close, Die, shell
<1>7. ASSUME NEW c \in Launches, Crash(c), UNCHANGED shell  PROVE WindowsAreServed'
  BY <1>7 DEF Crash, Die, Alive, shell
<1>8. ASSUME Retry  PROVE WindowsAreServed'
  BY <1>8, SpawnEffect DEF Retry, backends
<1>9. ASSUME NEW c \in Launches, Healthy(c), Free  PROVE WindowsAreServed'
  BY <1>9 DEF Healthy, backends
<1>10. ASSUME NEW c \in Launches, Up(c), Free  PROVE WindowsAreServed'
  BY <1>10 DEF Up, backends
<1>11. ASSUME NEW c \in Launches, GiveUp(c), Free  PROVE WindowsAreServed'
  BY <1>11, Begun, StopForgets, StopSignals DEF GiveUp
<1>12. ASSUME NEW c \in Launches, Load(c), Free  PROVE WindowsAreServed'
  BY <1>12 DEF Load, backends
<1>13. ASSUME NEW c \in Launches, ShowError(c), Free  PROVE WindowsAreServed'
  BY <1>13 DEF ShowError, backends
<1>14. ASSUME NEW c \in Launches, EndStop(c), Free  PROVE WindowsAreServed'
  BY <1>14 DEF EndStop, backends, Alive
<1>15. ASSUME NEW c \in Launches, Exited(c), Free  PROVE WindowsAreServed'
  BY <1>15, ExitedEffect DEF backends
<1>16. ASSUME NEW t \in Restarts, SaveSettings(t), Free  PROVE WindowsAreServed'
  BY <1>16 DEF SaveSettings, backends
<1>17. ASSUME NEW t \in Tasks, Prepared(t)  PROVE WindowsAreServed'
  BY <1>17, TaskStopEffect, StopForgets, StopSignals DEF Prepared
<1>18. ASSUME NEW t \in Tasks, Ask(t), Free  PROVE WindowsAreServed'
  BY <1>18, TaskStopEffect, StopForgets, StopSignals DEF Ask, backends
<1>19. ASSUME NEW t \in Tasks, Answer(t), Free  PROVE WindowsAreServed'
  BY <1>19, AnswerEffect
<1>20. ASSUME NEW t \in Tasks, NoAnswer(t), Free  PROVE WindowsAreServed'
  BY <1>20 DEF NoAnswer, backends
<1>21. ASSUME NEW t \in Tasks, Finish(t), Free  PROVE WindowsAreServed'
  BY <1>21, SpawnEffect DEF Finish, backends, Threw, Stopped
<1>22. CASE UNCHANGED vars
  BY <1>22 DEF vars
<1>23. QED
  BY <1>1, <1>2, <1>3, <1>4, <1>5, <1>6, <1>7, <1>8, <1>9, <1>10, <1>11, <1>12, <1>13, <1>14,
     <1>15, <1>16, <1>17, <1>18, <1>19, <1>20, <1>21, <1>22
     DEF Next, Backend, Shell, Tasks

\* Every step keeps work to open backends.
LEMMA WorkIsServedStep ==
    ASSUME IInv, [Next]_vars
    PROVE  WorkIsServed'
<1> USE DesktopAssumption DEF IInv, Types, Launches, None, ErrorPage, Tasks, WorkIsServed,
        LaunchesGetReady, WindowsAreServed, LockIsHeld, LaunchesBegin, HasChild
<1>1. ASSUME NEW c \in Launches, Acquire(c), UNCHANGED shell  PROVE WorkIsServed'
  BY <1>1 DEF Acquire, shell
<1>2. ASSUME NEW c \in Launches, Prepare(c), UNCHANGED shell  PROVE WorkIsServed'
  BY <1>2 DEF Prepare, shell
<1>3. ASSUME NEW c \in Launches, Serve(c), UNCHANGED shell  PROVE WorkIsServed'
  BY <1>3 DEF Serve, shell
<1>4. ASSUME NEW c \in Launches, Work(c), UNCHANGED shell  PROVE WorkIsServed'
  BY <1>4 DEF Work, shell
<1>5. ASSUME NEW c \in Launches, Fail(c), UNCHANGED shell  PROVE WorkIsServed'
  BY <1>5 DEF Fail, shell
<1>6. ASSUME NEW c \in Launches, Close(c), UNCHANGED shell  PROVE WorkIsServed'
  BY <1>6 DEF Close, Die, shell
<1>7. ASSUME NEW c \in Launches, Crash(c), UNCHANGED shell  PROVE WorkIsServed'
  BY <1>7 DEF Crash, Die, Alive, shell
<1>8. ASSUME Retry  PROVE WorkIsServed'
  BY <1>8, SpawnEffect DEF Retry, backends
<1>9. ASSUME NEW c \in Launches, Healthy(c), Free  PROVE WorkIsServed'
  BY <1>9 DEF Healthy, backends
<1>10. ASSUME NEW c \in Launches, Up(c), Free  PROVE WorkIsServed'
  BY <1>10 DEF Up, backends
<1>11. ASSUME NEW c \in Launches, GiveUp(c), Free  PROVE WorkIsServed'
  BY <1>11, Begun, StopForgets, StopSignals DEF GiveUp
<1>12. ASSUME NEW c \in Launches, Load(c), Free  PROVE WorkIsServed'
  BY <1>12 DEF Load, backends
<1>13. ASSUME NEW c \in Launches, ShowError(c), Free  PROVE WorkIsServed'
  BY <1>13 DEF ShowError, backends
<1>14. ASSUME NEW c \in Launches, EndStop(c), Free  PROVE WorkIsServed'
  BY <1>14 DEF EndStop, backends, Alive
<1>15. ASSUME NEW c \in Launches, Exited(c), Free  PROVE WorkIsServed'
  BY <1>15, ExitedEffect DEF backends
<1>16. ASSUME NEW t \in Restarts, SaveSettings(t), Free  PROVE WorkIsServed'
  BY <1>16 DEF SaveSettings, backends
<1>17. ASSUME NEW t \in Tasks, Prepared(t)  PROVE WorkIsServed'
  BY <1>17, TaskStopEffect, StopKeepsWorkServed DEF Prepared, AnswersLast
<1>18. ASSUME NEW t \in Tasks, Ask(t), Free  PROVE WorkIsServed'
  <2>1. CASE sup[supervisor].ready
    BY <1>18, <2>1 DEF Ask, backends
  <2>2. CASE ~ sup[supervisor].ready
    BY <1>18, <2>2, TaskStopEffect, StopKeepsWorkServed DEF Ask
  <2>3. QED
    BY <2>1, <2>2
<1>19. ASSUME NEW t \in Tasks, Answer(t), Free  PROVE WorkIsServed'
  BY <1>19, AnswerEffect
<1>20. ASSUME NEW t \in Tasks, NoAnswer(t), Free  PROVE WorkIsServed'
  BY <1>20 DEF NoAnswer, backends
<1>21. ASSUME NEW t \in Tasks, Finish(t), Free  PROVE WorkIsServed'
  <2>1. CASE Spawn
    BY <2>1, SpawnEffect
  <2>2. CASE UNCHANGED <<launch, stop, proc, work>>
    BY <2>2
  <2>3. QED
    BY <1>21, <2>1, <2>2 DEF Finish, backends
<1>22. CASE UNCHANGED vars
  BY <1>22 DEF vars
<1>23. QED
  BY <1>1, <1>2, <1>3, <1>4, <1>5, <1>6, <1>7, <1>8, <1>9, <1>10, <1>11, <1>12, <1>13, <1>14,
     <1>15, <1>16, <1>17, <1>18, <1>19, <1>20, <1>21, <1>22
     DEF Next, Backend, Shell, Tasks

\* Every step keeps what an answer promised.
LEMMA AnswersLastStep ==
    ASSUME IInv, [Next]_vars
    PROVE  AnswersLast'
<1> USE DesktopAssumption DEF IInv, Types, Launches, None, ErrorPage, Tasks, AnswersLast,
        LockIsHeld, WindowsAreServed, WorkIsServed, NoTask, TaskStates, Free
<1>1. ASSUME NEW c \in Launches, Acquire(c), UNCHANGED shell  PROVE AnswersLast'
  BY <1>1 DEF Acquire, shell
<1>2. ASSUME NEW c \in Launches, Prepare(c), UNCHANGED shell  PROVE AnswersLast'
  BY <1>2 DEF Prepare, shell
<1>3. ASSUME NEW c \in Launches, Serve(c), UNCHANGED shell  PROVE AnswersLast'
  BY <1>3 DEF Serve, shell
<1>4. ASSUME NEW c \in Launches, Work(c), UNCHANGED shell  PROVE AnswersLast'
  BY <1>4 DEF Work, shell
<1>5. ASSUME NEW c \in Launches, Fail(c), UNCHANGED shell  PROVE AnswersLast'
  BY <1>5 DEF Fail, shell
<1>6. ASSUME NEW c \in Launches, Close(c), UNCHANGED shell  PROVE AnswersLast'
  BY <1>6 DEF Close, Die, shell
<1>7. ASSUME NEW c \in Launches, Crash(c), UNCHANGED shell  PROVE AnswersLast'
  BY <1>7 DEF Crash, Die, Alive, shell
<1>8. ASSUME Retry  PROVE AnswersLast'
  BY <1>8, SpawnEffect DEF Retry, backends
<1>9. ASSUME NEW c \in Launches, Healthy(c), Free  PROVE AnswersLast'
  BY <1>9 DEF Healthy, backends
<1>10. ASSUME NEW c \in Launches, Up(c), Free  PROVE AnswersLast'
  BY <1>10 DEF Up, backends
<1>11. ASSUME NEW c \in Launches, GiveUp(c), Free  PROVE AnswersLast'
  BY <1>11, Begun, StopForgets, StopSignals DEF GiveUp
<1>12. ASSUME NEW c \in Launches, Load(c), Free  PROVE AnswersLast'
  BY <1>12 DEF Load, backends
<1>13. ASSUME NEW c \in Launches, ShowError(c), Free  PROVE AnswersLast'
  BY <1>13 DEF ShowError, backends
<1>14. ASSUME NEW c \in Launches, EndStop(c), Free  PROVE AnswersLast'
  BY <1>14 DEF EndStop, backends, Alive
<1>15. ASSUME NEW c \in Launches, Exited(c), Free  PROVE AnswersLast'
  BY <1>15, ExitedEffect DEF backends
<1>16. ASSUME NEW t \in Restarts, SaveSettings(t), Free  PROVE AnswersLast'
  BY <1>16 DEF SaveSettings, backends
<1>17. ASSUME NEW t \in Tasks, Prepared(t)  PROVE AnswersLast'
  BY <1>17, TaskStopEffect, StopForgets, StopSignals DEF Prepared
<1>18. ASSUME NEW t \in Tasks, Ask(t), Free  PROVE AnswersLast'
  BY <1>18, TaskStopEffect, StopForgets, StopSignals DEF Ask, backends
<1>19. ASSUME NEW t \in Tasks, Answer(t), Free  PROVE AnswersLast'
  <2>1. CASE task'[t].at = "idle" /\ work' = work /\ gate' = gate
    BY <1>19, <2>1, RefusalKeepsAnswers
  <2>2. CASE task'[t].at = "answered" /\ ~ work'[task[t].of] /\ gate'[task[t].of] = "shut"
    <3>1. ASSUME NEW d \in Launches
          PROVE  ~ work'[d] /\ (page' = d => gate'[d] = "shut" \/ proc'[d] = "dead")
      <4>1. CASE d = task[t].of
        BY <2>2, <4>1
      <4>2. CASE d # task[t].of
        BY <1>19, <4>2, AnswerEffect
      <4>3. QED
        BY <4>1, <4>2
    <3>2. QED
      BY <3>1
  <2>3. QED
    BY <1>19, <2>1, <2>2, AnswerEffect
<1>20. ASSUME NEW t \in Tasks, NoAnswer(t), Free  PROVE AnswersLast'
  BY <1>20 DEF NoAnswer, backends
<1>21. ASSUME NEW t \in Tasks, Finish(t), Free  PROVE AnswersLast'
  BY <1>21, SpawnEffect DEF Finish, backends, Threw, Stopped
<1>22. CASE UNCHANGED vars
  BY <1>22 DEF vars
<1>23. QED
  BY <1>1, <1>2, <1>3, <1>4, <1>5, <1>6, <1>7, <1>8, <1>9, <1>10, <1>11, <1>12, <1>13, <1>14,
     <1>15, <1>16, <1>17, <1>18, <1>19, <1>20, <1>21, <1>22
     DEF Next, Backend, Shell, Tasks

\* The shell begins with one launch.
LEMMA InitInv ==
    ASSUME Init
    PROVE  IInv
<1>1. 1 \in Launches /\ launched = 1 /\ supervisor = 1
  BY DesktopAssumption DEF Init, Launches
<1>2. \A c \in Launches : sup[c] \in Supervisors
  BY DEF Init, NewSupervisor, Supervisors
<1>3. \A c \in Launches : ~ sup[c].exited /\ ~ sup[c].ready /\ (sup[c].child <=> c = 1)
  BY DEF Init, NewSupervisor
<1>4. Types
  <2>1. sup \in [Launches -> Supervisors]
    BY <1>2 DEF Init
  <2>2. task \in [Tasks -> [at : TaskStates, of : Launches \cup {None}]]
    BY DEF Init, NoTask, TaskStates
  <2>3. QED
    BY <1>1, <2>1, <2>2 DEF Init, Types, NoTask, LaunchStates, ProcStates
<1>5. LaunchesBegin
  BY <1>1, <1>3, DesktopAssumption DEF Init, LaunchesBegin, Launches
<1>6. LaunchesGetReady
  BY <1>1, <1>3 DEF Init, LaunchesGetReady, HasChild
<1>7. LockIsHeld /\ WorkIsServed /\ AnswersLast
  BY DEF Init, LockIsHeld, WorkIsServed, AnswersLast, NoTask
<1>8. WindowsAreServed
  BY DEF Init, WindowsAreServed, None, Launches
<1>9. QED
  BY <1>4, <1>5, <1>6, <1>7, <1>8 DEF IInv

----------------------------------------------------------------------------
(* Theorems *)

\* The invariant of the desktop shell and its backends holds at every time, whatever
\* launches, exits and stops overlap (launchWorkspace and stopBackend in main.js).
THEOREM Invariance == Spec => []IInv
<1>1. Init => IInv
  BY InitInv
<1>2. IInv /\ [Next]_vars => IInv'
  BY TypesStep, LaunchesBeginStep, LockIsHeldStep, LaunchesGetReadyStep, WindowsAreServedStep,
     WorkIsServedStep, AnswersLastStep DEF IInv
<1>3. QED
  BY <1>1, <1>2, PTL DEF Spec

\* The sweep of sessions/ in session_storage.py never removes the root of a living
\* backend: whoever announces itself holds backend.lock, and its root is there.
THEOREM KeptRoots == Spec => []LivingBackendsKeepTheirRoot
<1>1. IInv => LivingBackendsKeepTheirRoot
  BY DEF IInv, LockIsHeld, LivingBackendsKeepTheirRoot
<1>2. QED
  BY <1>1, Invariance, PTL

\* The shell never signals a backend in which work is active, though work may begin
\* between the question and the signal and the shell's supervisor may change meanwhile.
THEOREM NoKilledWork == Spec => []NoWorkIsKilled
<1>1. IInv => NoWorkIsKilled
  BY DEF IInv, WorkIsServed, NoWorkIsKilled
<1>2. QED
  BY <1>1, Invariance, PTL
=============================================================================
