------------------------- MODULE WorkspaceSessions -------------------------
(***************************************************************************)
(* The agent session of the desktop process: WorkspaceSessionService       *)
(* (ide/sessions.py), the session routes (web/ide_routes.py), and the gate *)
(* that admits writes until the desktop may close (desktop/auth.py,        *)
(* prepare-shutdown in web/app.py).                                        *)
(*                                                                         *)
(* A handler is a server thread that serves one request.  Nothing locks    *)
(* the session service: every store call and every access to _current is a *)
(* step, and between two steps any other thread may move.  Agent runs are  *)
(* the ones of module AgentRuns, reduced to what the session service sees: *)
(* the state of the row, and whether the writer thread is alive.  Research *)
(* requests are those of RequestLifecycle, reduced to what the gate asks.  *)
(***************************************************************************)
EXTENDS Naturals, FiniteSets

CONSTANTS
    Workspaces,   \* repositories the user opens
    Sessions,     \* identifiers of conversation rows, each used at most once
    WorkspaceOf,  \* the workspace a session identifier will be used for
    Runs,         \* identifiers of agent runs
    Requests,     \* research requests of the control service
    Handlers,     \* server threads
    Manners,      \* the users considered: patient ones (TRUE), hasty ones (FALSE)
    Returning,    \* those of them who open a repository more than once
    NoSession, NoRun, NoRef

Ops == {"open", "message", "start", "stop", "decide", "approve", "execute", "shutdown"}

ASSUME ConstantsAssumption ==
    /\ WorkspaceOf \in [Sessions -> Workspaces]
    /\ Manners \subseteq BOOLEAN /\ Returning \subseteq Manners
    /\ NoSession \notin Sessions /\ NoRun \notin Runs
    /\ NoRef \notin Workspaces \cup Sessions \cup Runs \cup Requests

VARIABLES
    rows,       \* conversation rows
    opened,     \* session identifiers used so far
    dirs,       \* sessions with a directory under openhands/
    messages,   \* sessions with a user message
    current,    \* _current
    stopping,   \* _stopping_run_ids
    runState,   \* agent_runs.state: "none" before create_run, "gone" once deleted
    sessionOf,  \* agent_runs.conversation_id
    alive,      \* runs whose writer thread has not ended
    research,   \* requests.state of the control service, as far as the gate tells it
    committed,  \* the gate refuses writes
    patient,    \* the user waits for answers and for stopped runs, see Patient
    pc, call,   \* where each handler is, and the request it serves
    cur, target \* its locals: the session it works on, the run it stops

store == <<rows, opened, dirs, messages>>
agent == <<runState, sessionOf, alive>>
service == <<current, stopping>>
gate == <<research, committed, patient>>
procs == <<pc, call, cur, target>>
vars == <<rows, opened, dirs, messages, current, stopping, runState, sessionOf, alive,
          research, committed, patient, pc, call, cur, target>>

Active == {"queued", "running", "waiting"}
RunStates == Active \cup {"none", "cancelled", "ended", "gone"}
\* A request before its approval, and from RUNNING to the end of its validation.
ResearchStates == {"planned", "compiled", "running", "ended"}
PCs == {"idle", "open", "release", "check", "remove", "delete", "forget", "create", "set",
        "message", "append", "start", "insert", "boot", "launch", "stop", "decide",
        "approve", "execute", "simulate", "shutdown", "active", "interrupt", "join", "commit"}

NoCall == [op |-> "none", ref |-> NoRef]
Refs == Workspaces \cup Sessions \cup Runs \cup Requests \cup {NoRef}
Call == [op : Ops \cup {"none"}, ref : Refs]

\* Every request but prepare-shutdown passes the gate, which counts it until it ends.
InFlight == {h \in Handlers : call[h].op \in Ops \ {"shutdown"}}

\* has_active_work of the application: waiting and paused runs are left out, approved
\* plans are not.
HasActiveWork ==
    \/ \E r \in Runs : runState[r] \in {"queued", "running"}
    \/ \E q \in Requests : research[q] \in {"compiled", "running"}

\* active_run_for_workspace
ActiveRuns(w) ==
    {r \in Runs : runState[r] \in Active /\ WorkspaceOf[sessionOf[r]] = w}

\* The workspace lock of the supervisor is taken while a writer lives.
LockTaken(w) == \E r \in alive : WorkspaceOf[sessionOf[r]] = w

Goto(h, l) == pc' = [pc EXCEPT ![h] = l]

\* The request is answered, normally or with an error, and end_write is called.
Answer(h) ==
    /\ Goto(h, "idle")
    /\ call' = [call EXCEPT ![h] = NoCall]
    /\ cur' = [cur EXCEPT ![h] = NoSession]
    /\ target' = [target EXCEPT ![h] = NoRun]

Step(h, l) == Goto(h, l) /\ UNCHANGED <<call, cur, target>>

\* Read _current into the local of handler h.
Look(h, l) == Goto(h, l) /\ cur' = [cur EXCEPT ![h] = current] /\ UNCHANGED <<call, target>>

----------------------------------------------------------------------------
(* The gate and the requests *)

\* A patient user sends a request when the last one is answered, and starts a run, opens
\* another repository or closes the application when the run it stopped has let go; asking
\* to close once more is the product's own advice for a run that is still stopping.
Stopped == {r \in alive : runState[r] = "cancelled"}
Patient(c) ==
    /\ \A h \in Handlers : pc[h] = "idle"
    /\ c.op \in {"open", "start"} => Stopped = {}
    /\ c.op = "shutdown" => Stopped \subseteq stopping

\* Bounds: a request is sent only while there are identifiers for what it creates, and the
\* first message of a session stands for all.
Room(c) ==
    CASE c.op = "open" ->
            /\ \/ patient \in Returning
               \/ /\ \A s \in opened : WorkspaceOf[s] # c.ref
                  /\ \A h \in Handlers : call[h] # c
            /\ Cardinality({h \in Handlers : call[h] = c})
                 < Cardinality({s \in Sessions \ opened : WorkspaceOf[s] = c.ref})
      [] c.op = "start" ->
            Cardinality({h \in Handlers : call[h].op = "start"})
                < Cardinality({r \in Runs : runState[r] = "none"})
      [] c.op = "message" -> c.ref \notin messages
      [] OTHER -> TRUE

Sensible(c) ==
    CASE c.op = "open" -> c.ref \in Workspaces
      [] c.op = "message" -> c.ref \in rows
      [] c.op = "start" -> c.ref \in messages
      [] c.op = "stop" -> c.ref \in Runs /\ runState[c.ref] \in Active
      [] c.op = "decide" -> c.ref \in Runs /\ runState[c.ref] = "waiting"
      [] c.op = "approve" -> c.ref \in Requests /\ research[c.ref] = "planned"
      [] c.op = "execute" -> c.ref \in Requests /\ research[c.ref] = "compiled"
      [] OTHER -> c.ref = NoRef

\* DesktopShutdownMiddleware: begin_write refuses a write once committed.
Send(h) ==
    \E c \in Call :
        /\ pc[h] = "idle" /\ c.op \in Ops /\ Sensible(c) /\ Room(c)
        /\ c.op = "shutdown" \/ ~committed
        /\ patient => Patient(c)
        /\ call' = [call EXCEPT ![h] = c]
        /\ Goto(h, c.op)
        /\ UNCHANGED <<store, agent, service, gate, cur, target>>

----------------------------------------------------------------------------
(* open and release *)

\* Mutant: the session of another workspace is dropped but not released.
OpenAbandons(h) ==
    /\ pc[h] = "open"
    /\ \/ current # NoSession /\ WorkspaceOf[current] = call[h].ref /\ Answer(h)
       \/ (current # NoSession => WorkspaceOf[current] # call[h].ref) /\ Step(h, "create")
    /\ UNCHANGED <<store, agent, service, gate>>

\* open: keep the session of the same workspace, release that of another one.
Open(h) ==
    /\ pc[h] = "open"
    /\ \/ current = NoSession /\ Step(h, "create")
       \/ /\ current # NoSession /\ WorkspaceOf[current] = call[h].ref
          /\ Answer(h)
       \/ /\ current # NoSession /\ WorkspaceOf[current] # call[h].ref
          /\ Step(h, "release")
    /\ UNCHANGED <<store, agent, service, gate>>

Release(h) ==
    /\ pc[h] = "release"
    /\ Look(h, IF current = NoSession THEN "create" ELSE "check")
    /\ UNCHANGED <<store, agent, service, gate>>

\* An active run makes release raise WorkspaceSessionBusyError.
Check(h) ==
    /\ pc[h] = "check"
    /\ IF ActiveRuns(WorkspaceOf[cur[h]]) # {} THEN Answer(h) ELSE Step(h, "remove")
    /\ UNCHANGED <<store, agent, service, gate>>

\* _delete_current: the SDK's directory, then the rows, then _current.
Remove(h) ==
    /\ pc[h] = "remove"
    /\ dirs' = dirs \ {cur[h]}
    /\ Step(h, "delete")
    /\ UNCHANGED <<rows, opened, messages, agent, service, gate>>

\* delete_conversation_tree raises when the row is gone already.
Delete(h) ==
    /\ pc[h] = "delete"
    /\ \/ /\ cur[h] \in rows
          /\ rows' = rows \ {cur[h]}
          /\ messages' = messages \ {cur[h]}
          /\ runState' = [r \in Runs |->
                IF sessionOf[r] = cur[h] THEN "gone" ELSE runState[r]]
          /\ Step(h, "forget")
       \/ /\ cur[h] \notin rows
          /\ Answer(h)
          /\ UNCHANGED <<rows, messages, runState>>
    /\ UNCHANGED <<opened, dirs, sessionOf, alive, service, gate>>

Forget(h) ==
    /\ pc[h] = "forget"
    /\ current' = NoSession
    /\ Step(h, IF call[h].op = "open" THEN "create" ELSE "commit")
    /\ UNCHANGED <<store, agent, stopping, gate>>

\* ConversationService.create: a new row and its first event.
Create(h) ==
    /\ pc[h] = "create"
    /\ \E s \in Sessions \ opened :
        /\ WorkspaceOf[s] = call[h].ref
        /\ rows' = rows \cup {s}
        /\ opened' = opened \cup {s}
        /\ cur' = [cur EXCEPT ![h] = s]
    /\ Goto(h, "set")
    /\ UNCHANGED <<dirs, messages, agent, service, gate, call, target>>

\* Mutant: the service records the workspace where the session belongs.
SetWorkspace(h) ==
    /\ pc[h] = "set"
    /\ current' = call[h].ref
    /\ Answer(h)
    /\ UNCHANGED <<store, agent, stopping, gate>>

Set(h) ==
    /\ pc[h] = "set"
    /\ current' = cur[h]
    /\ Answer(h)
    /\ UNCHANGED <<store, agent, stopping, gate>>

----------------------------------------------------------------------------
(* Messages and runs of the current session *)

\* current_session: the session must be the one of the workspace in the path.
\* start_agent_run also wants a user message of that very session.
Session(h) ==
    /\ pc[h] \in {"message", "start"}
    /\ LET c == call[h]
           ok == /\ current # NoSession
                 /\ WorkspaceOf[current] = WorkspaceOf[c.ref]
                 /\ c.op = "start" => c.ref \in messages /\ c.ref = current
       IN IF ok THEN Look(h, IF c.op = "start" THEN "insert" ELSE "append") ELSE Answer(h)
    /\ UNCHANGED <<store, agent, service, gate>>

Append(h) ==
    /\ pc[h] = "append"
    /\ messages' = messages \cup ({cur[h]} \cap rows)
    /\ Answer(h)
    /\ UNCHANGED <<rows, opened, dirs, agent, service, gate>>

\* AgentSupervisor.start: refuse a second active run of the workspace, create the row.
Insert(h) ==
    /\ pc[h] = "insert"
    /\ \/ /\ ActiveRuns(WorkspaceOf[cur[h]]) = {} /\ cur[h] \in rows
          /\ \E r \in Runs :
              /\ runState[r] = "none"
              /\ runState' = [runState EXCEPT ![r] = "queued"]
              /\ sessionOf' = [sessionOf EXCEPT ![r] = cur[h]]
              /\ target' = [target EXCEPT ![h] = r]
          /\ Goto(h, "boot")
          /\ UNCHANGED <<call, cur>>
       \/ /\ ActiveRuns(WorkspaceOf[cur[h]]) # {} \/ cur[h] \notin rows
          /\ Answer(h)
          /\ UNCHANGED <<runState, sessionOf>>
    /\ UNCHANGED <<store, alive, service, gate>>

\* save_run_baseline needs the row; creating the SDK conversation makes its directory.
\* An error of the factory fails the run, an error of send_message leaves it queued.
Boot(h) ==
    LET r == target[h] IN
    /\ pc[h] = "boot"
    /\ \/ /\ runState[r] = "gone"
          /\ Answer(h)
          /\ UNCHANGED <<dirs, runState>>
       \/ /\ runState[r] # "gone"
          /\ dirs' = dirs \cup {cur[h]}
          /\ \/ Step(h, "launch") /\ UNCHANGED runState
             \/ Answer(h) /\ UNCHANGED runState
             \/ Answer(h) /\ runState' = [runState EXCEPT ![r] = "ended"]
    /\ UNCHANGED <<rows, opened, messages, sessionOf, alive, service, gate>>

\* _transition to running, then _launch if the workspace lock is free.  start and
\* a decision or a resume end this way; without the row _transition raises.
Run(h, r) ==
    /\ \/ /\ runState[r] = "gone"
          /\ UNCHANGED <<runState, alive>>
       \/ /\ runState[r] # "gone"
          /\ runState' = [runState EXCEPT ![r] = "running"]
          /\ alive' = IF LockTaken(WorkspaceOf[sessionOf[r]]) THEN alive ELSE alive \cup {r}
    /\ Answer(h)
    /\ UNCHANGED <<store, sessionOf, service, gate>>

Launch(h) == pc[h] = "launch" /\ Run(h, target[h])

Decide(h) == pc[h] = "decide" /\ Run(h, call[h].ref)

\* AgentSupervisor.stop: the row is cancelled, unless it is gone or has changed
\* under it; the writer is told to stop and goes on until the SDK returns.
Cancel(r) ==
    runState' = [runState EXCEPT ![r] = IF @ = "gone" THEN @ ELSE "cancelled"]

Stop(h) ==
    /\ pc[h] = "stop"
    /\ Cancel(call[h].ref)
    /\ Answer(h)
    /\ UNCHANGED <<store, sessionOf, alive, service, gate>>

----------------------------------------------------------------------------
(* Research requests *)

Advance(h, s) == research' = [research EXCEPT ![call[h].ref] = s]

\* approve compiles the plan, or answers with an error or with what it finds.
ApprovePlan(h) ==
    /\ pc[h] = "approve"
    /\ \/ research[call[h].ref] = "planned" /\ Advance(h, "compiled")
       \/ UNCHANGED research
    /\ Answer(h)
    /\ UNCHANGED <<store, agent, service, committed, patient>>

\* execute: the winner of the transition to RUNNING simulates.
Execute(h) ==
    /\ pc[h] = "execute"
    /\ IF research[call[h].ref] = "compiled"
         THEN Advance(h, "running") /\ Step(h, "simulate")
         ELSE Answer(h) /\ UNCHANGED research
    /\ UNCHANGED <<store, agent, service, committed, patient>>

\* The request completes or fails; an exception that execute does not expect leaves
\* it as it is, and no other operation ever moves it.
Simulate(h) ==
    /\ pc[h] = "simulate"
    /\ Advance(h, "ended") \/ UNCHANGED research
    /\ Answer(h)
    /\ UNCHANGED <<store, agent, service, committed, patient>>

----------------------------------------------------------------------------
(* prepare-shutdown *)

Shutdown(h) ==
    /\ pc[h] = "shutdown"
    /\ Look(h, IF current = NoSession THEN "commit" ELSE "active")
    /\ UNCHANGED <<store, agent, service, gate>>

FindActive(h) ==
    /\ pc[h] = "active"
    /\ LET found == ActiveRuns(WorkspaceOf[cur[h]]) IN
        \/ found = {} /\ Step(h, "join")
        \/ \E r \in found :
            /\ target' = [target EXCEPT ![h] = r]
            /\ Goto(h, "interrupt")
            /\ UNCHANGED <<call, cur>>
    /\ UNCHANGED <<store, agent, service, gate>>

\* Mutant: shutdown does not remember whose writer it must wait for.
InterruptOnly(h) ==
    /\ pc[h] = "interrupt"
    /\ Cancel(target[h])
    /\ Step(h, "join")
    /\ UNCHANGED <<store, sessionOf, alive, service, gate>>

\* stop the active run, or fail with its error.
Interrupt(h) ==
    /\ pc[h] = "interrupt"
    /\ \/ /\ runState[target[h]] # "gone"
          /\ Cancel(target[h])
          /\ stopping' = stopping \cup {target[h]}
          /\ Step(h, "join")
       \/ /\ runState[target[h]] = "gone" \/ target[h] \in alive
          /\ Answer(h)
          /\ UNCHANGED <<runState, stopping>>
    /\ UNCHANGED <<store, sessionOf, alive, current, gate>>

\* Mutant: a writer that has ended is not taken off the list.
JoinForever(h) ==
    /\ pc[h] = "join"
    /\ IF stopping = {} THEN Step(h, "remove") ELSE Answer(h)
    /\ UNCHANGED <<store, agent, service, gate>>

\* Each join waits up to five seconds; a writer that outlives it refuses the shutdown.
Join(h) ==
    /\ pc[h] = "join"
    /\ stopping' = stopping \cap alive
    /\ IF stopping \cap alive = {} THEN Step(h, "remove") ELSE Answer(h)
    /\ UNCHANGED <<store, agent, current, gate>>

\* Mutant: the gate commits while requests are still served.
CommitAnyway(h) ==
    /\ pc[h] = "commit"
    /\ committed' = (committed \/ ~HasActiveWork)
    /\ Answer(h)
    /\ UNCHANGED <<store, agent, service, research, patient>>

\* commit_if_idle: no write in flight and no active work.
Commit(h) ==
    /\ pc[h] = "commit"
    /\ committed' = (committed \/ (InFlight = {} /\ ~HasActiveWork))
    /\ Answer(h)
    /\ UNCHANGED <<store, agent, service, research, patient>>

----------------------------------------------------------------------------
(* Writers, reduced from AgentRuns *)

\* The SDK writes below its directory; asking for approval moves the run whatever
\* its state, and needs the row.
WriterWorks(r) ==
    /\ r \in alive
    /\ dirs' = dirs \cup {sessionOf[r]}
    /\ \/ /\ runState[r] # "gone"
          /\ runState' = [runState EXCEPT ![r] = "waiting"]
       \/ UNCHANGED runState
    /\ UNCHANGED <<rows, opened, messages, sessionOf, alive, service, gate, procs>>

\* The end of _execute: a run that is cancelled, gone or waiting stays as it is.
WriterEnds(r) ==
    /\ r \in alive
    /\ alive' = alive \ {r}
    /\ runState' = [runState EXCEPT ![r] = IF @ = "running" THEN "ended" ELSE @]
    /\ UNCHANGED <<store, sessionOf, service, gate, procs>>

----------------------------------------------------------------------------

\* Conversations and runs end with a session; research requests outlive the process,
\* which may have ended in the middle of one.
Init ==
    /\ rows = {} /\ opened = {} /\ dirs = {} /\ messages = {}
    /\ current = NoSession /\ stopping = {}
    /\ runState = [r \in Runs |-> "none"]
    /\ sessionOf = [r \in Runs |-> NoSession]
    /\ alive = {}
    /\ research \in [Requests -> {"planned", "compiled", "running"}]
    /\ committed = FALSE
    /\ patient \in Manners
    /\ pc = [h \in Handlers |-> "idle"]
    /\ call = [h \in Handlers |-> NoCall]
    /\ cur = [h \in Handlers |-> NoSession]
    /\ target = [h \in Handlers |-> NoRun]

Serve(h) ==
    \/ Open(h) \/ Release(h) \/ Check(h) \/ Remove(h) \/ Delete(h) \/ Forget(h)
    \/ Create(h) \/ Set(h) \/ Session(h) \/ Append(h) \/ Insert(h) \/ Boot(h)
    \/ Launch(h) \/ Decide(h) \/ Stop(h) \/ ApprovePlan(h) \/ Execute(h) \/ Simulate(h)
    \/ Shutdown(h) \/ FindActive(h) \/ Interrupt(h) \/ Join(h) \/ Commit(h)

Next ==
    \/ \E h \in Handlers : Send(h) \/ Serve(h)
    \/ \E r \in Runs : WriterWorks(r) \/ WriterEnds(r)

Spec == Init /\ [][Next]_vars

\* Server threads are scheduled, run() of the SDK returns, and a simulation has a budget
\* of time.
Fairness ==
    /\ \A h \in Handlers : WF_vars(Serve(h))
    /\ \A r \in Runs : WF_vars(WriterEnds(r))

FairSpec == Spec /\ Fairness

----------------------------------------------------------------------------
(* Properties *)

\* Every variable keeps its type.
TypeOK ==
    /\ rows \subseteq Sessions /\ opened \subseteq Sessions
    /\ dirs \subseteq Sessions /\ messages \subseteq Sessions
    /\ current \in Sessions \cup {NoSession}
    /\ stopping \subseteq Runs
    /\ runState \in [Runs -> RunStates]
    /\ sessionOf \in [Runs -> Sessions \cup {NoSession}]
    /\ alive \subseteq Runs
    /\ research \in [Requests -> ResearchStates]
    /\ committed \in BOOLEAN /\ patient \in BOOLEAN
    /\ pc \in [Handlers -> PCs]
    /\ call \in [Handlers -> Call]
    /\ cur \in [Handlers -> Sessions \cup {NoSession}]
    /\ target \in [Handlers -> Runs \cup {NoRun}]

\* Once prepare-shutdown has answered "ready" nothing begins: no run is queued or
\* running, no approved plan is executed or waits for it, no request that could create
\* a session or a run is under way, and none is let in, whatever was in flight when
\* the gate was asked.
NothingStartsAfterReady == committed => ~HasActiveWork /\ InFlight = {}

\* A session ends only when nothing uses it: the writer of a run never outlives the
\* session it writes for, and no directory of a deleted session is left behind.
SessionsEndQuietly ==
    patient =>
        /\ \A r \in alive : sessionOf[r] \in rows
        /\ \A s \in dirs : s \in rows

\* The process has one agent session: no row is left that _current does not know.
OneSession ==
    patient => \A s \in rows : s = current \/ \E h \in Handlers : cur[h] = s

\* A user who wants to close gets to close: prepare-shutdown, asked again and again with
\* no other request in between but to execute the plans already approved, is granted in
\* the end, unless an error or the end of an earlier process has left a request RUNNING.
Abandoned(q) ==
    /\ research[q] = "running"
    /\ \A h \in Handlers : call[h] # [op |-> "execute", ref |-> q]
OnlyClosing == \A h \in Handlers : call[h].op \in {"none", "execute", "shutdown"}
Closing == \E h \in Handlers : call[h].op = "shutdown"
Finishing(q) ==
    research[q] = "compiled" => \E h \in Handlers : call[h] = [op |-> "execute", ref |-> q]
CanAlwaysClose ==
    /\ patient /\ <>[]OnlyClosing
    /\ []<>Closing
    /\ \A q \in Requests : []<>Finishing(q)
    => <>(committed \/ \E q \in Requests : Abandoned(q))
=============================================================================
