----------------------------- MODULE AgentRuns -----------------------------
(***************************************************************************)
(* The agent runs of one workspace: AgentSupervisor (agent/supervisor.py), *)
(* the run and approval rows of SqliteIDEStore (ide/store.py) and the      *)
(* callback of AgentEventBridge (agent/events.py).                         *)
(*                                                                         *)
(* Two kinds of process interleave.  A HANDLER is a server thread that     *)
(* serves one request of the user interface; the WRITER of a run is the    *)
(* background thread that executes it.  Every call into the store is one   *)
(* transaction of its own, so it is one step here, and between two calls   *)
(* any other process may step.  The SDK conversation a writer drives is    *)
(* external: it is modelled from how the supervisor uses it.               *)
(***************************************************************************)
EXTENDS Naturals, FiniteSets

CONSTANTS
    Runs,        \* identifiers of agent runs
    Handlers,    \* server threads that serve requests
    Actions,     \* tool actions the agent may propose, each at most once
    Categories,  \* permission categories
    Category,    \* the permission category of each action
    Routine,     \* the actions that classify_action finds below HIGH risk
    Grantable,   \* the categories that is_run_grantable accepts
    Offers,      \* the requests the user interface sends
    Early,       \* the requests it may send while another process is busy
    Leftovers,   \* whether the SDK conversation that the runs of a session share
                 \* still holds the actions an earlier run left unconfirmed
    MaxCrashes,  \* bound on the process restarts of one behaviour
    NoRun, NoAction, NoOne

Ops == {"start", "approve", "approve_category", "deny", "pause", "resume", "stop"}

ASSUME ConstantsAssumption ==
    /\ Runs \cap Handlers = {}
    /\ Category \in [Actions -> Categories]
    /\ Routine \subseteq Actions
    /\ Grantable \subseteq Categories
    /\ Offers \subseteq Ops /\ Early \subseteq Offers
    /\ Leftovers \in BOOLEAN
    /\ MaxCrashes \in Nat
    /\ NoRun \notin Runs \cup Handlers
    /\ NoAction \notin Actions
    /\ NoOne \notin Handlers

VARIABLES
    runState,   \* agent_runs.state of each run, "none" before create_run
    decision,   \* approval_requests.decision of each action's request
    owner,      \* the run that proposed each action
    progress,   \* how far the SDK conversation took each action
    status,     \* execution_status of each run's SDK conversation
    grants,     \* run_permission_grants of each run
    cached,     \* _permission_grants, the set the bridge and the analyzer share
    manifest,   \* run_change_manifests: the changes frozen for each run
    warned,     \* runs with a change_manifest_warning event
    pc,         \* where each handler and each writer is
    call,       \* the request each handler serves
    goal,       \* the state a writer read, then the one its _transition will write
    work,       \* a handler's or writer's local list: approvals or changes
    fresh,      \* a process holds the current revision of its run
    handling,   \* writers inside the except clause of _execute
    locked,     \* the workspace's entry of _workspace_locks is taken
    guard,      \* the handler that holds _guard
    phase,      \* "serving", or "recovering" inside the constructor
    crashes     \* process restarts so far

store == <<runState, decision, owner, grants, manifest, warned>>
sdk == <<progress, status>>
procs == <<pc, call, goal, work, fresh, handling>>
process == <<cached, locked, guard, phase, crashes>>
vars == <<runState, decision, owner, progress, status, grants, cached, manifest,
          warned, pc, call, goal, work, fresh, handling, locked, guard, phase, crashes>>

\* waiting_for_user is active too, but nothing in the source ever writes it.
Active == {"queued", "running", "waiting_for_approval", "paused"}
Terminal == {"completed", "failed", "blocked", "cancelled"}
Decisions == {"none", "undecided", "approve", "deny"}
Progress == {"unseen", "proposed", "released", "done", "rejected"}
Statuses == {"idle", "running", "paused", "waiting_for_confirmation",
             "stuck", "error", "finished"}
HandlerPCs == {"idle", "check", "create", "boot", "resolve", "grant", "pending",
               "reject", "runtime", "signal", "list", "deny", "evidence", "freeze",
               "get", "cas", "launch"}
WriterPCs == {"idle", "enter", "run", "returned", "conclude", "except", "evidence", "freeze",
              "get", "cas", "release"}

Procs == Handlers \cup Runs
\* No row of run_change_manifests; a row is a set of actions.
NoManifest == {NoAction}

NoCall == [op |-> "none", run |-> NoRun, act |-> NoAction]
Call == [op : Ops \cup {"none"}, run : Runs \cup {NoRun}, act : Actions \cup {NoAction}]

\* The run a process works on: a writer is named after its run.
RunOf(p) == IF p \in Runs THEN p ELSE call[p].run

\* Mutant: the writer stores the status of the conversation as the state of the run.
TargetIsStatus(p) ==
    IF p \in Runs THEN status[p]
    ELSE CASE call[p].op = "pause" -> "paused"
           [] call[p].op = "stop" -> "cancelled"
           [] OTHER -> "running"

\* The state that the _transition of process p writes.
Target(p) ==
    IF p \in Runs THEN goal[p]
    ELSE CASE call[p].op = "pause" -> "paused"
           [] call[p].op = "stop" -> "cancelled"
           [] OTHER -> "running"

\* What a comparison of the workspace with the baseline of run r finds.
Written(r) == {a \in Actions : owner[a] = r /\ progress[a] = "done"}

\* The actions the conversation of run r holds, proposed or on their way to a tool.
Proposed(r) == {a \in Actions : progress[a] = "proposed" /\ (owner[a] = r \/ Leftovers)}
Released(r) == {a \in Actions : progress[a] = "released" /\ (owner[a] = r \/ Leftovers)}
Undecided(r) == {a \in Actions : owner[a] = r /\ decision[a] = "undecided"}

\* list_pending_approvals shows the requests of a run that waits, and no other.
Pending(r) == IF runState[r] = "waiting_for_approval" THEN Undecided(r) ELSE {}

\* Mutant: the approval of one action serves its whole category.
ApprovalIsGrant(r, a) ==
    /\ Category[a] \in Grantable
    /\ \E b \in Actions :
        owner[b] = r /\ Category[b] = Category[a] /\ decision[b] = "approve"

\* Whether the callback and the analyzer let action a of run r pass unasked.
GrantApplies(r, a) == Category[a] \in Grantable /\ Category[a] \in cached[r]
NeedsApproval(r, a) == a \notin Routine /\ ~GrantApplies(r, a)

----------------------------------------------------------------------------
(* Rows and locals *)

\* A write to the row of run r increments its revision: every revision of it
\* that another process has read is stale from then on.
WriteRun(r, s) ==
    /\ runState' = [runState EXCEPT ![r] = s]
    /\ fresh' = [p \in Procs |-> fresh[p] /\ RunOf(p) # r]

Goto(p, l) == pc' = [pc EXCEPT ![p] = l]

\* A handler answers its request, normally or with an error.
Answer(h) ==
    /\ Goto(h, "idle")
    /\ call' = [call EXCEPT ![h] = NoCall]

DropLocals(p) ==
    /\ work' = [work EXCEPT ![p] = {}]
    /\ fresh' = [fresh EXCEPT ![p] = FALSE]

Idle(p) == pc[p] = "idle"
Serving == phase = "serving"

----------------------------------------------------------------------------
(* Requests *)

\* The controls the browser derives from the persisted state (controlsForState)
\* and the approvals it lists.  Another window may ask for a run at any time.
Offered(c) ==
    CASE c.op = "start" ->
            /\ c.run = NoRun /\ c.act = NoAction
            /\ Cardinality({h \in Handlers : call[h].op = "start"})
                 < Cardinality({r \in Runs : runState[r] = "none"})
      [] c.op \in {"approve", "approve_category", "deny"} ->
            c.run \in Runs /\ c.act \in Pending(c.run)
      [] c.op = "pause" ->
            c.run \in Runs /\ c.act = NoAction /\ runState[c.run] \in {"queued", "running"}
      [] c.op = "resume" ->
            c.run \in Runs /\ c.act = NoAction /\ runState[c.run] = "paused"
      [] OTHER -> c.run \in Runs /\ c.act = NoAction /\ runState[c.run] \in Active

FirstStep(op) ==
    CASE op = "start" -> "check"
      [] op \in {"approve", "approve_category", "deny"} -> "resolve"
      [] op = "resume" -> "runtime"
      [] OTHER -> "signal"

\* A request that is not in Early waits until nothing else runs.
Send(h) ==
    /\ Serving /\ Idle(h)
    /\ \E c \in Call :
        /\ c.op \in Offers
        /\ c.op \in Early \/ \A p \in Procs : Idle(p)
        /\ Offered(c)
        /\ call' = [call EXCEPT ![h] = c]
        /\ Goto(h, FirstStep(c.op))
        /\ UNCHANGED <<store, sdk, goal, work, fresh, handling, process>>

----------------------------------------------------------------------------
(* AgentSupervisor.start *)

\* Mutant: start looks for an active run without holding _guard from then on.
StartUnguarded(h) ==
    /\ pc[h] = "check"
    /\ IF \E r \in Runs : runState[r] \in Active
         THEN Answer(h)
         ELSE Goto(h, "create") /\ UNCHANGED call
    /\ UNCHANGED <<store, sdk, goal, work, fresh, handling, process>>

\* Take _guard and refuse a second active run of the workspace.
StartCheck(h) ==
    /\ pc[h] = "check" /\ guard = NoOne
    /\ \/ /\ \E r \in Runs : runState[r] \in Active
          /\ Answer(h)
          /\ UNCHANGED guard
       \/ /\ \A r \in Runs : runState[r] \notin Active
          /\ guard' = h
          /\ Goto(h, "create")
          /\ UNCHANGED call
    /\ UNCHANGED <<store, sdk, goal, work, fresh, handling, cached, locked, phase, crashes>>

\* create_run, save_run_baseline and the bridge with the run's own grants.
StartCreate(h) ==
    /\ pc[h] = "create"
    /\ \E r \in Runs :
        /\ runState[r] = "none"
        /\ WriteRun(r, "queued")
        /\ call' = [call EXCEPT ![h].run = r]
    /\ Goto(h, "boot")
    /\ UNCHANGED <<decision, owner, grants, manifest, warned, sdk, goal, work,
                   handling, process>>

\* Mutant: an error of start leaves _guard taken.
StartKeepsGuard(h) ==
    LET r == call[h].run IN
    /\ pc[h] = "boot"
    /\ \/ /\ WriteRun(r, "running")
          /\ Goto(h, "launch")
          /\ UNCHANGED call
       \/ /\ WriteRun(r, "failed")
          /\ Answer(h)
       \/ /\ Answer(h)
          /\ UNCHANGED <<runState, fresh>>
    /\ UNCHANGED <<decision, owner, grants, manifest, warned, sdk, goal, work,
                   handling, process>>

\* Create the SDK conversation and hand it the prompt.  A factory error fails
\* the run; an error of send_message leaves it queued.  Every other request on
\* this run waits for _guard in _runtime_for, so the read and the write of
\* _transition are one step here.
StartBoot(h) ==
    LET r == call[h].run IN
    /\ pc[h] = "boot"
    /\ \/ /\ WriteRun(r, "running")
          /\ Goto(h, "launch")
          /\ UNCHANGED <<call, guard>>
       \/ /\ WriteRun(r, "failed")
          /\ Answer(h)
          /\ guard' = NoOne
       \/ /\ Answer(h)
          /\ guard' = NoOne
          /\ UNCHANGED <<runState, fresh>>
    /\ UNCHANGED <<decision, owner, grants, manifest, warned, sdk, goal, work,
                   handling, cached, locked, phase, crashes>>

\* Mutant: the writer starts whether or not the lock is free.
LaunchUnlocked(h) ==
    /\ pc[h] = "launch"
    /\ locked' = TRUE
    /\ pc' = [pc EXCEPT ![h] = "idle", ![call[h].run] = "enter"]
    /\ call' = [call EXCEPT ![h] = NoCall]
    /\ guard' = IF guard = h THEN NoOne ELSE guard
    /\ UNCHANGED <<store, sdk, goal, work, fresh, handling, cached, phase, crashes>>

\* _launch: take the workspace lock without waiting and start the writer, or
\* raise AgentRunConflictError.  It is the last step of start and of _continue;
\* start releases _guard either way.
Launch(h) ==
    LET r == call[h].run IN
    /\ pc[h] = "launch"
    /\ \/ /\ ~locked
          /\ locked' = TRUE
          /\ pc' = [pc EXCEPT ![h] = "idle", ![r] = "enter"]
          /\ call' = [call EXCEPT ![h] = NoCall]
       \/ /\ locked
          /\ Answer(h)
          /\ UNCHANGED locked
    /\ guard' = IF guard = h THEN NoOne ELSE guard
    /\ UNCHANGED <<store, sdk, goal, work, fresh, handling, cached, phase, crashes>>

----------------------------------------------------------------------------
(* Approvals *)

Resolve(h, acts, d) == decision' = [a \in Actions |-> IF a \in acts THEN d ELSE decision[a]]

\* Mutant: resolve_approval lacks "AND decision IS NULL".
ApproveAnyway(h) ==
    /\ pc[h] = "resolve" /\ call[h].op = "approve"
    /\ Resolve(h, {call[h].act}, "approve")
    /\ Goto(h, "pending")
    /\ UNCHANGED <<runState, owner, grants, manifest, warned, sdk, call, goal, work,
                   fresh, handling, process>>

\* Mutant: approving one action also adds its category to the set in memory.
ApproveGrants(h) ==
    LET a == call[h].act IN
    /\ pc[h] = "resolve" /\ call[h].op = "approve"
    /\ decision[a] = "undecided"
    /\ Resolve(h, {a}, "approve")
    /\ Goto(h, "grant")
    /\ UNCHANGED <<runState, owner, grants, manifest, warned, sdk, call, goal, work,
                   fresh, handling, process>>

\* resolve_approval: the update applies to an undecided request only.
Approve(h) ==
    LET a == call[h].act IN
    /\ pc[h] = "resolve" /\ call[h].op = "approve"
    /\ \/ /\ decision[a] = "undecided"
          /\ Resolve(h, {a}, "approve")
          /\ Goto(h, "pending")
          /\ UNCHANGED call
       \/ /\ decision[a] # "undecided"
          /\ Answer(h)
          /\ UNCHANGED decision
    /\ UNCHANGED <<runState, owner, grants, manifest, warned, sdk, goal, work, fresh,
                   handling, process>>

\* resolve_approval_with_grant: one transaction approves every undecided request
\* of the run in the category and stores the grant.
ApproveCategory(h) ==
    LET a == call[h].act
        r == owner[a]
        ok == decision[a] = "undecided" /\ Category[a] \in Grantable
    IN
    /\ pc[h] = "resolve" /\ call[h].op = "approve_category"
    /\ \/ /\ ok
          /\ Resolve(h, {b \in Undecided(r) : Category[b] = Category[a]}, "approve")
          /\ grants' = [grants EXCEPT ![r] = @ \cup {Category[a]}]
          /\ Goto(h, "grant")
          /\ UNCHANGED call
       \/ /\ ~ok
          /\ Answer(h)
          /\ UNCHANGED <<decision, grants>>
    /\ UNCHANGED <<runState, owner, manifest, warned, sdk, goal, work, fresh,
                   handling, process>>

\* _grants_for(run).add(category), under _guard.
Grant(h) ==
    LET c == call[h] IN
    /\ pc[h] = "grant" /\ guard = NoOne
    /\ cached' = [cached EXCEPT ![c.run] = @ \cup {Category[c.act]}]
    /\ Goto(h, "pending")
    /\ UNCHANGED <<store, sdk, call, goal, work, fresh, handling, locked, guard,
                   phase, crashes>>

\* Mutant: one approval continues the run although others are pending.
ContinueAtOnce(h) ==
    /\ pc[h] = "pending"
    /\ Goto(h, "runtime")
    /\ UNCHANGED <<store, sdk, call, goal, work, fresh, handling, process>>

\* _continue_if_ready: the last decision of a batch continues the run.
ContinueIfReady(h) ==
    /\ pc[h] = "pending"
    /\ IF Pending(call[h].run) # {}
         THEN Answer(h)
         ELSE Goto(h, "runtime") /\ UNCHANGED call
    /\ UNCHANGED <<store, sdk, goal, work, fresh, handling, process>>

\* Mutant: a denial is recorded and the run is not continued.
DenyOnly(h) ==
    /\ pc[h] = "resolve" /\ call[h].op = "deny"
    /\ Resolve(h, Undecided(owner[call[h].act]), "deny")
    /\ Answer(h)
    /\ UNCHANGED <<runState, owner, grants, manifest, warned, sdk, goal, work, fresh,
                   handling, process>>

\* resolve_approval_batch: denying one request denies the whole batch.
Deny(h) ==
    LET a == call[h].act IN
    /\ pc[h] = "resolve" /\ call[h].op = "deny"
    /\ \/ /\ decision[a] = "undecided"
          /\ Resolve(h, Undecided(owner[a]), "deny")
          /\ Goto(h, "reject")
          /\ UNCHANGED call
       \/ /\ decision[a] # "undecided"
          /\ Answer(h)
          /\ UNCHANGED decision
    /\ UNCHANGED <<runState, owner, grants, manifest, warned, sdk, goal, work, fresh,
                   handling, process>>

\* Mutant: a denial continues the run without rejecting its batch.
RejectNothing(h) ==
    /\ pc[h] = "reject" /\ guard = NoOne
    /\ Goto(h, "get")
    /\ UNCHANGED <<store, sdk, call, goal, work, fresh, handling, process>>

\* reject_pending_actions: the SDK drops the batch.  Its conversation lock makes
\* the call wait while a writer is still proposing one.
Reject(h) ==
    LET r == call[h].run IN
    /\ pc[h] = "reject" /\ guard = NoOne
    /\ ~(pc[r] = "run" /\ Proposed(r) # {})
    /\ progress' = [a \in Actions |-> IF a \in Proposed(r) THEN "rejected" ELSE progress[a]]
    /\ status' = [status EXCEPT ![r] = IF @ = "waiting_for_confirmation" THEN "idle" ELSE @]
    /\ Goto(h, "get")
    /\ UNCHANGED <<store, call, goal, work, fresh, handling, process>>

----------------------------------------------------------------------------
(* Pause, resume and stop *)

\* _runtime_for waits for _guard.
Runtime(h) ==
    /\ pc[h] = "runtime" /\ guard = NoOne
    /\ Goto(h, "get")
    /\ UNCHANGED <<store, sdk, call, goal, work, fresh, handling, process>>

\* Mutant: pause freezes the changes, as stop does.
PauseFreezes(h) ==
    LET r == call[h].run IN
    /\ pc[h] = "signal" /\ guard = NoOne
    /\ status' = [status EXCEPT ![r] = "paused"]
    /\ Goto(h, IF call[h].op = "pause" THEN "evidence" ELSE "list")
    /\ UNCHANGED <<store, progress, call, goal, work, fresh, handling, process>>

\* runtime.pause() or runtime.interrupt().  A conversation that neither runs nor
\* is idle may ignore it.
Signal(h) ==
    LET r == call[h].run IN
    /\ pc[h] = "signal" /\ guard = NoOne
    /\ \E s \in {"paused", status[r]} :
        /\ status[r] \in {"idle", "running"} => s = "paused"
        /\ status' = [status EXCEPT ![r] = s]
    /\ Goto(h, IF call[h].op = "pause" THEN "get" ELSE "list")
    /\ UNCHANGED <<store, progress, call, goal, work, fresh, handling, process>>

\* Mutant: stop cancels without freezing the changes.
StopWithoutEvidence(h) ==
    LET pending == Pending(call[h].run) IN
    /\ pc[h] = "list"
    /\ work' = [work EXCEPT ![h] = pending]
    /\ Goto(h, IF pending = {} THEN "get" ELSE "deny")
    /\ UNCHANGED <<store, sdk, call, goal, fresh, handling, process>>

\* stop reads the approvals it is going to deny.
StopList(h) ==
    LET pending == Pending(call[h].run) IN
    /\ pc[h] = "list"
    /\ work' = [work EXCEPT ![h] = pending]
    /\ Goto(h, IF pending = {} THEN "evidence" ELSE "deny")
    /\ UNCHANGED <<store, sdk, call, goal, fresh, handling, process>>

\* stop denies them one at a time; a request decided meanwhile is an error that
\* ends the handler before the run is cancelled.
StopDeny(h) ==
    \E a \in work[h] :
        /\ pc[h] = "deny"
        /\ \/ /\ decision[a] = "undecided"
              /\ Resolve(h, {a}, "deny")
              /\ work' = [work EXCEPT ![h] = @ \ {a}]
              /\ Goto(h, IF work[h] = {a} THEN "evidence" ELSE "deny")
              /\ UNCHANGED <<call, fresh>>
           \/ /\ decision[a] # "undecided"
              /\ Answer(h)
              /\ DropLocals(h)
              /\ UNCHANGED decision
        /\ UNCHANGED <<runState, owner, grants, manifest, warned, sdk, goal, handling,
                       process>>

----------------------------------------------------------------------------
(* _persist_change_manifest and _transition, in handlers and writers alike *)

\* Skip when a manifest exists; otherwise compare the workspace, which may fail
\* with a warning event and no manifest.
Evidence(p) ==
    LET r == RunOf(p) IN
    /\ pc[p] = "evidence"
    /\ \/ /\ manifest[r] # NoManifest
          /\ Goto(p, "get")
          /\ UNCHANGED <<work, warned>>
       \/ /\ manifest[r] = NoManifest
          /\ work' = [work EXCEPT ![p] = Written(r)]
          /\ Goto(p, "freeze")
          /\ UNCHANGED warned
       \/ /\ manifest[r] = NoManifest
          /\ warned' = warned \cup {r}
          /\ Goto(p, "get")
          /\ UNCHANGED work
    /\ UNCHANGED <<runState, decision, owner, grants, manifest, sdk, call, goal, fresh,
                   handling, process>>

\* Mutant: INSERT OR REPLACE.
InsertOrReplace(r, changes) == manifest' = [manifest EXCEPT ![r] = changes]

\* INSERT OR IGNORE: the first manifest of a run stays.
Insert(r, changes) ==
    manifest' = [manifest EXCEPT ![r] = IF @ = NoManifest THEN changes ELSE @]

Freeze(p) ==
    /\ pc[p] = "freeze"
    /\ Insert(RunOf(p), work[p])
    /\ work' = [work EXCEPT ![p] = {}]
    /\ Goto(p, "get")
    /\ UNCHANGED <<runState, decision, owner, grants, warned, sdk, call, goal, fresh,
                   handling, process>>

\* _transition reads the row ...
GetRun(p) ==
    /\ pc[p] = "get"
    /\ fresh' = [fresh EXCEPT ![p] = TRUE]
    /\ Goto(p, "cas")
    /\ UNCHANGED <<store, sdk, call, goal, work, handling, process>>

\* ... and writes it if the revision is still the one it read.
TransitionHandler(h) ==
    /\ pc[h] = "cas" /\ fresh[h]
    /\ WriteRun(call[h].run, Target(h))
    /\ IF Target(h) = "running"
         THEN Goto(h, "launch") /\ UNCHANGED call
         ELSE Answer(h)
    /\ UNCHANGED <<decision, owner, grants, manifest, warned, sdk, goal, work,
                   handling, process>>

TransitionWriter(r) ==
    /\ pc[r] = "cas" /\ fresh[r]
    /\ WriteRun(r, Target(r))
    /\ Goto(r, "release")
    /\ UNCHANGED <<decision, owner, grants, manifest, warned, sdk, call, goal, work,
                   handling, process>>

\* A stale revision raises IDEStoreError: a handler answers with it, a writer
\* catches it once, in the except clause of _execute.
StaleHandler(h) ==
    /\ pc[h] = "cas" /\ ~fresh[h]
    /\ Answer(h)
    /\ UNCHANGED <<store, sdk, goal, work, fresh, handling, process>>

StaleWriter(r) ==
    /\ pc[r] = "cas" /\ ~fresh[r]
    /\ Goto(r, IF r \in handling THEN "release" ELSE "except")
    /\ UNCHANGED <<store, sdk, call, goal, work, fresh, handling, process>>

----------------------------------------------------------------------------
(* The writer: runtime.run(), with the bridge as its callback *)

\* run() takes up the actions that wait for confirmation: continuing a run is
\* the only way the supervisor tells the SDK that they may execute.
Enter(r) ==
    /\ pc[r] = "enter"
    /\ status' = [status EXCEPT ![r] = "running"]
    /\ progress' = [a \in Actions |-> IF a \in Proposed(r) THEN "released" ELSE progress[a]]
    /\ Goto(r, "run")
    /\ UNCHANGED <<store, call, goal, work, fresh, handling, process>>

\* An action's tool runs and may change the workspace.
Execute(r) ==
    \E a \in Released(r) :
        /\ pc[r] = "run"
        /\ progress' = [progress EXCEPT ![a] = "done"]
        /\ UNCHANGED <<store, status, procs, process>>

\* The model proposes one more action of the current batch; the callback asks
\* for approval with create_approval, which moves the run to
\* waiting_for_approval in the same transaction, whatever its state.
Propose(r) ==
    \E a \in Actions :
        /\ pc[r] = "run" /\ Released(r) = {} /\ progress[a] = "unseen"
        /\ progress' = [progress EXCEPT ![a] = "proposed"]
        /\ owner' = [owner EXCEPT ![a] = r]
        /\ \/ /\ NeedsApproval(r, a)
              /\ decision' = [decision EXCEPT ![a] = "undecided"]
              /\ WriteRun(r, "waiting_for_approval")
           \/ /\ ~NeedsApproval(r, a)
              /\ UNCHANGED <<decision, runState, fresh>>
        /\ UNCHANGED <<grants, manifest, warned, status, pc, call, goal, work, handling,
                       process>>

\* The batch is complete: ConfirmRisky stops run() when the analyzer still finds
\* an action of HIGH risk, and the batch executes otherwise.
Confirm(r) ==
    /\ pc[r] = "run"
    /\ \E a \in Proposed(r) : NeedsApproval(r, a)
    /\ status' = [status EXCEPT ![r] = "waiting_for_confirmation"]
    /\ Goto(r, "returned")
    /\ UNCHANGED <<store, progress, call, goal, work, fresh, handling, process>>

Proceed(r) ==
    /\ pc[r] = "run" /\ Proposed(r) # {}
    /\ \A a \in Proposed(r) : ~NeedsApproval(r, a)
    /\ progress' = [a \in Actions |-> IF a \in Proposed(r) THEN "released" ELSE progress[a]]
    /\ UNCHANGED <<store, status, procs, process>>

\* run() returns between batches, or raises.
Return(r) ==
    /\ pc[r] = "run" /\ Proposed(r) = {}
    /\ \/ /\ status[r] = "paused"
          /\ Goto(r, "returned")
          /\ UNCHANGED status
       \/ /\ status[r] = "running"
          /\ \E s \in {"stuck", "error", "finished"} :
              /\ s = "finished" => Released(r) = {}
              /\ status' = [status EXCEPT ![r] = s]
          /\ Goto(r, "returned")
       \/ /\ Goto(r, "except")
          /\ UNCHANGED status
    /\ UNCHANGED <<store, progress, call, goal, work, fresh, handling, process>>

\* The terminal state a conversation's final status stands for.
Outcome(s) ==
    CASE s = "stuck" -> "blocked" [] s = "error" -> "failed" [] OTHER -> "completed"

\* _execute after run() reads the row; a cancelled run stays as it is.
Inspect(r) ==
    /\ pc[r] = "returned"
    /\ \/ /\ runState[r] = "cancelled"
          /\ Goto(r, "release")
          /\ UNCHANGED goal
       \/ /\ runState[r] # "cancelled"
          /\ goal' = [goal EXCEPT ![r] = runState[r]]
          /\ Goto(r, "conclude")
    /\ UNCHANGED <<store, sdk, call, work, fresh, handling, process>>

\* The state of a run whose conversation rests, and may go on later.
Resting == {"waiting_for_confirmation", "paused"}
RestState(s) == IF s = "paused" THEN "paused" ELSE "waiting_for_approval"

\* Then it reads the status: a conversation that rests needs a transition only if
\* the row said otherwise, any other status ends the run.
Conclude(r) ==
    LET s == status[r] IN
    /\ pc[r] = "conclude"
    /\ \/ /\ s \in Resting /\ goal[r] = RestState(s)
          /\ Goto(r, "release")
          /\ UNCHANGED goal
       \/ /\ s \in Resting /\ goal[r] # RestState(s)
          /\ goal' = [goal EXCEPT ![r] = RestState(s)]
          /\ Goto(r, "get")
       \/ /\ s \notin Resting
          /\ goal' = [goal EXCEPT ![r] = Outcome(s)]
          /\ Goto(r, "evidence")
    /\ UNCHANGED <<store, sdk, call, work, fresh, handling, process>>

\* The except clause of _execute.
Except(r) ==
    /\ pc[r] = "except"
    /\ \/ /\ runState[r] = "cancelled"
          /\ Goto(r, "release")
          /\ UNCHANGED <<goal, handling>>
       \/ /\ runState[r] # "cancelled"
          /\ goal' = [goal EXCEPT ![r] = "failed"]
          /\ handling' = handling \cup {r}
          /\ Goto(r, "evidence")
    /\ UNCHANGED <<store, sdk, call, work, fresh, process>>

\* Mutant: the lock is not released when the except clause itself fails.
ReleaseNormally(r) ==
    /\ pc[r] = "release"
    /\ locked' = (r \in handling)
    /\ Goto(r, "idle")
    /\ goal' = [goal EXCEPT ![r] = "none"]
    /\ handling' = handling \ {r}
    /\ DropLocals(r)
    /\ UNCHANGED <<store, sdk, call, cached, guard, phase, crashes>>

\* The finally clause of _execute.
Release(r) ==
    /\ pc[r] = "release"
    /\ locked' = FALSE
    /\ Goto(r, "idle")
    /\ goal' = [goal EXCEPT ![r] = "none"]
    /\ handling' = handling \ {r}
    /\ DropLocals(r)
    /\ UNCHANGED <<store, sdk, call, cached, guard, phase, crashes>>

----------------------------------------------------------------------------
(* Restart and _recover_interrupted_runs *)

\* The server process ends.  The database and the SDK's directory survive it;
\* grants are read back by _grants_for when they are first needed.
Crash ==
    /\ crashes < MaxCrashes
    /\ crashes' = crashes + 1
    /\ phase' = "recovering"
    /\ pc' = [p \in Procs |-> "idle"]
    /\ call' = [h \in Handlers |-> NoCall]
    /\ goal' = [r \in Runs |-> "none"]
    /\ work' = [p \in Procs |-> {}]
    /\ fresh' = [p \in Procs |-> FALSE]
    /\ handling' = {}
    /\ locked' = FALSE
    /\ guard' = NoOne
    /\ cached' = grants
    /\ status' = [r \in Runs |-> "idle"]
    /\ UNCHANGED <<store, progress>>

\* One run of list_runs_in_states: deny what it waits for, ...
RecoverDeny(r) ==
    /\ phase = "recovering" /\ Pending(r) # {}
    /\ decision' = [a \in Actions |-> IF a \in Undecided(r) THEN "deny" ELSE decision[a]]
    /\ UNCHANGED <<runState, owner, grants, manifest, warned, sdk, procs, process>>

\* Mutant: recovery passes over the runs that had not left the queue.
RecoverStarted(r) ==
    /\ phase = "recovering" /\ runState[r] \in Active \ {"queued"} /\ Pending(r) = {}
    /\ Insert(r, Written(r))
    /\ WriteRun(r, "cancelled")
    /\ UNCHANGED <<decision, owner, grants, warned, sdk, pc, call, goal, work, handling,
                   process>>

\* ... freeze its changes unless it never left the queue, and cancel it.
RecoverCancel(r) ==
    /\ phase = "recovering" /\ runState[r] \in Active /\ Pending(r) = {}
    /\ \/ runState[r] = "queued" /\ UNCHANGED <<manifest, warned>>
       \/ runState[r] # "queued" /\ Insert(r, Written(r)) /\ UNCHANGED warned
       \/ /\ runState[r] # "queued" /\ manifest[r] = NoManifest
          /\ warned' = warned \cup {r}
          /\ UNCHANGED manifest
    /\ WriteRun(r, "cancelled")
    /\ UNCHANGED <<decision, owner, grants, sdk, pc, call, goal, work, handling, process>>

RecoverEnd ==
    /\ phase = "recovering"
    /\ \A r \in Runs : runState[r] \notin Active
    /\ phase' = "serving"
    /\ UNCHANGED <<store, sdk, procs, cached, locked, guard, crashes>>

----------------------------------------------------------------------------

Init ==
    /\ runState = [r \in Runs |-> "none"]
    /\ decision = [a \in Actions |-> "none"]
    /\ owner = [a \in Actions |-> NoRun]
    /\ progress = [a \in Actions |-> "unseen"]
    /\ status = [r \in Runs |-> "idle"]
    /\ grants = [r \in Runs |-> {}]
    /\ cached = [r \in Runs |-> {}]
    /\ manifest = [r \in Runs |-> NoManifest]
    /\ warned = {}
    /\ pc = [p \in Procs |-> "idle"]
    /\ call = [h \in Handlers |-> NoCall]
    /\ goal = [r \in Runs |-> "none"]
    /\ work = [p \in Procs |-> {}]
    /\ fresh = [p \in Procs |-> FALSE]
    /\ handling = {}
    /\ locked = FALSE
    /\ guard = NoOne
    /\ phase = "serving"
    /\ crashes = 0

HandlerStep(h) ==
    \/ StartCheck(h) \/ StartCreate(h) \/ StartBoot(h) \/ Launch(h)
    \/ Approve(h) \/ ApproveCategory(h) \/ Grant(h) \/ ContinueIfReady(h)
    \/ Deny(h) \/ Reject(h)
    \/ Runtime(h) \/ Signal(h) \/ StopList(h) \/ StopDeny(h)
    \/ Evidence(h) \/ Freeze(h) \/ GetRun(h) \/ TransitionHandler(h) \/ StaleHandler(h)

WriterStep(r) ==
    \/ Enter(r) \/ Execute(r) \/ Propose(r) \/ Confirm(r) \/ Proceed(r) \/ Return(r)
    \/ Inspect(r) \/ Conclude(r) \/ Except(r) \/ Evidence(r) \/ Freeze(r) \/ GetRun(r)
    \/ TransitionWriter(r) \/ StaleWriter(r) \/ Release(r)

RecoverStep ==
    \/ \E r \in Runs : RecoverDeny(r) \/ RecoverCancel(r)
    \/ RecoverEnd

Next ==
    \/ \E h \in Handlers : Send(h) \/ HandlerStep(h)
    \/ \E r \in Runs : WriterStep(r)
    \/ Crash
    \/ RecoverStep

Spec == Init /\ [][Next]_vars

\* Threads of the server are scheduled and SDK calls return (run() ends after at
\* most 80 iterations); the user interface and crashes owe nothing.
Fairness ==
    /\ \A h \in Handlers : WF_vars(HandlerStep(h))
    /\ \A r \in Runs : WF_vars(WriterStep(r))
    /\ WF_vars(RecoverStep)

FairSpec == Spec /\ Fairness

----------------------------------------------------------------------------
(* Properties *)

RunStates == Active \cup Terminal \cup {"none"}

\* Every variable keeps its type.
TypeOK ==
    /\ runState \in [Runs -> RunStates]
    /\ decision \in [Actions -> Decisions]
    /\ owner \in [Actions -> Runs \cup {NoRun}]
    /\ progress \in [Actions -> Progress]
    /\ status \in [Runs -> Statuses]
    /\ grants \in [Runs -> SUBSET Categories]
    /\ cached \in [Runs -> SUBSET Categories]
    /\ manifest \in [Runs -> (SUBSET Actions) \cup {NoManifest}]
    /\ warned \subseteq Runs
    /\ pc \in [Procs -> HandlerPCs \cup WriterPCs]
    /\ call \in [Handlers -> Call]
    /\ goal \in [Runs -> RunStates]
    /\ work \in [Procs -> SUBSET Actions]
    /\ fresh \in [Procs -> BOOLEAN]
    /\ handling \subseteq Runs
    /\ locked \in BOOLEAN
    /\ guard \in Handlers \cup {NoOne}
    /\ phase \in {"serving", "recovering"}
    /\ crashes \in 0 .. MaxCrashes

\* The workspace lock is what keeps one workspace to one writer: no two writers
\* are ever between _launch and the end of _execute, and the lock is taken exactly
\* while one is, whatever requests race with it.
SingleWriter ==
    /\ \A r, s \in Runs : pc[r] # "idle" /\ pc[s] # "idle" => r = s
    /\ locked <=> \E r \in Runs : pc[r] # "idle"

\* A decision on an approval is never revised, by a second click, by a batch
\* denial that races with an approval, by stop or by a restart.
DecisionsAreFinal ==
    [][\A a \in Actions :
        decision[a] \in {"approve", "deny"} => decision'[a] = decision[a]]_vars

\* A run-wide grant exists only for a grantable category, and only when the user
\* approved an action of that very run in that category; the set in memory never
\* runs ahead of the stored one.
GrantsComeFromApprovals ==
    \A r \in Runs :
        /\ cached[r] \subseteq grants[r]
        /\ \A c \in grants[r] :
            /\ c \in Grantable
            /\ \E a \in Actions :
                owner[a] = r /\ Category[a] = c /\ decision[a] = "approve"

\* The first manifest of a run is the one it keeps, although stop, the writer and
\* recovery may all compare the workspace at different times and then save.
ManifestFirstWins ==
    [][\A r \in Runs : manifest[r] # NoManifest => manifest'[r] = manifest[r]]_vars

\* A run that ended after its tools wrote has frozen evidence or an event that
\* says why it has none.
TerminalRunsHaveEvidence ==
    \A r \in Runs :
        runState[r] \in Terminal /\ Written(r) # {} => manifest[r] # NoManifest \/ r \in warned

\* A HIGH-risk action that no one was ever asked about ran only under a grant
\* the user gave to the same run.
UnaskedExecutionHasGrant ==
    \A a \in Actions \ Routine :
        progress[a] \in {"released", "done"} /\ decision[a] = "none"
            => Category[a] \in grants[owner[a]]

\* A writer gives the workspace lock back on every path through _execute.
WriterReleases == locked ~> ~locked

\* Every request is answered: none waits forever for _guard or for another.
RequestsFinish == \A h \in Handlers : pc[h] # "idle" ~> pc[h] = "idle"

\* A restart gets through the runs and approvals that the last process left.
RecoveryEnds == phase = "recovering" ~> phase = "serving"

\* No HIGH-risk action runs unless the user approved it or had granted its
\* category to the run.
NoUnapprovedExecution ==
    \A a \in Actions \ Routine :
        progress[a] \in {"released", "done"} =>
            decision[a] = "approve" \/ Category[a] \in grants[owner[a]]

\* At most one run of the workspace is active.
AtMostOneActiveRun ==
    \A r, s \in Runs : runState[r] \in Active /\ runState[s] \in Active => r = s

\* The manifest of an ended run shows everything its tools wrote.
EvidenceIsComplete ==
    \A r \in Runs :
        runState[r] \in Terminal /\ manifest[r] # NoManifest => Written(r) \subseteq manifest[r]

\* A run waits for approval only while there is an approval to decide, or a
\* request under way that will move it on.
WaitingRunsCanBeDecided ==
    \A r \in Runs :
        runState[r] = "waiting_for_approval" =>
            \/ Pending(r) # {}
            \/ pc[r] # "idle"
            \/ \E h \in Handlers : call[h].run = r

\* The promise of RunAuthority: an action outside the routine ones reaches its tool
\* only after an approval of it, or a grant of its category to the run that
\* proposed it, and decisions and grants come from the user alone.
Authority == INSTANCE RunAuthority WITH
    allowed <- {a \in Actions : progress[a] \in {"released", "done"}}
ImplementsAuthority == Authority!Spec
=============================================================================
