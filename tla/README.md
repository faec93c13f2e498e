# A verification project for Agent Kronig (Quiloo)

TLA+ specifications, TLC runs and TLAPS proofs for the repository's local agent
workbench. Paths below are relative to the root of the repository;
`agent/...`, `ide/...`, `web/...` and the like are under `src/tcad_agent/`.

## Files

| file | content |
|---|---|
| `AgentRuns.tla` | the agent runs of one workspace: supervisor, writer threads, store rows, event callback |
| `RunAuthority.tla` | abstract specification: what the product promises about authority |
| `AgentRunsMC.tla`, `AgentRuns*.cfg` | constants and bounds of the TLC runs |
| `AgentRunsProofs.tla` | what holds of agent runs whatever races: the inductive invariant and its theorems |
| `AgentRunsSerialProofs.tla` | what holds of them for a user who waits for quiet and an SDK that drops leftovers, and that `AgentRuns` then implements `RunAuthority` |
| `WorkspaceSessions.tla`, `...MC.tla`, `.cfg` | the one agent session of the process, and the gate that admits writes until the desktop may close |
| `RequestLifecycle.tla`, `.cfg` | a simulation request from the prompt to the evidence bundle: request store, ledger, compiler, runner, bundle |
| `ResultVerdict.tla`, `...MC.tla`, `.cfg` | one execution in detail: sweep, runner status, normalization, validation, classification, verdict |
| `RemoteJobs.tla`, `...MC.tla`, `.cfg` | remote simulations: client, network, the runner service and its job directories |
| `WorkspaceChanges.tla`, `...MC.tla`, `.cfg` | what a run says it changed: bounded scans, comparison, attribution, validations |
| `Desktop.tla`, `.cfg` | the desktop shell, its supervisors and the backend processes they launch |
| `<Module>Proofs.tla` | for each of the last six modules, its inductive invariant and the theorems that rest on it |
| `PROJECT.json` | components, runs, mutants, map from definitions to source lines, hazards, findings, theorems |

Check a configuration with `tlc -config AgentRunsRace.cfg AgentRunsMC`, the
proofs of a module with `tlapm AgentRunsProofs.tla`.

## The system

Agent Kronig is a desktop workbench for TCAD research. An Electron shell starts a
Python server; a browser page in the shell talks to it; the server runs an
OpenHands agent against a repository the user selected, asks the user before
risky tool actions, and drives device simulations through a separate control
workflow, locally (DEVSIM) or on a licensed remote machine (Sentaurus).

### Inventory

| component | state it keeps | operations | hard behaviour | what makes it correct |
|---|---|---|---|---|
| Agent supervisor (`agent/supervisor.py`) | threads, runtimes, grants in memory, one lock per workspace, `_guard` | start, approve, approve_category, deny, pause, resume, stop, join, recovery in the constructor | request threads and the writer thread race on one row with optimistic revisions; approvals taken while the writer still runs; restart | one writer; one active run; nothing risky runs unapproved; decisions final; evidence frozen before a run ends; every request answered |
| IDE store (`ide/store.py`) | sqlite rows: workspaces, conversations, messages, runs, approvals, grants, baselines, manifests, events | one transaction per call; events are appended in a transaction of their own | no table of legal run transitions; `create_approval` moves the run whatever its state | compare-and-set on revisions; first manifest wins |
| Event bridge (`agent/events.py`) | baselines of the actions under way, actions already asked about | callback on every SDK event | two tools at a time; asks and executes in different threads | one request per action; changes attributed only when unambiguous |
| Permission policy (`agent/policy.py`, `ide/models.py`) | none | classify_action, permission_category | splitting of shell lines | anything not understood is HIGH risk and never grantable |
| OpenHands conversation (external; `agent/runtime.py`) | batches, confirmation, execution status | run, pause, interrupt, reject_pending_actions | run() confirms whatever it finds unconfirmed | used correctly by the supervisor |
| Workspace sessions (`ide/sessions.py`) | the current session, runs being stopped | open, release, shutdown | unsynchronised check and delete against a starting run | at most one session; nothing deleted under a live writer |
| Shutdown gate (`desktop/auth.py`, `web/app.py`) | writes in flight, committed | begin/end write, commit_if_idle | session is deleted before the gate commits | nothing starts after the answer "ready" |
| Control workflow (`control/service.py`, `control/store.py`) | request rows with state and revision | submit, answer, approve, execute | two approvals at once (only the exclusive mkdir of compile separates them before the transition), crash or error in the middle of approve or execute | legal transitions only; one execution per approval |
| Event ledger (`events/ledger.py`) | a hash-chained file | append, verify | no lock: that there is one appender at a time rests on the callers | the chain always verifies |
| Bundles (`bundles/writer.py`) | staging and final directory | write | crash before the rename | a bundle is complete or absent |
| Result validation (`validation/engine.py`, `adapters/`, `recovery/policy.py`) | none | compile, normalize, validate, classify_failures, decide | NaN, rounding, one result judged three times | completed only if the native numbers say so; row, bundle and classification agree |
| Remote runner (`runners/remote.py`, `sentaurus_runner/`) | jobs in memory, job directories on disk | submit, status, result | timeout against a job that goes on; restart; replay | a job runs once and its result reaches its owner |
| Desktop shell (`desktop/src/*.js`) | the supervisor variable, child process, readiness, update state | launch, retry, stop, unexpected exit, quit, restart, check, download, apply | overlapping launches and stops; events of the child against user clicks; time limits | no signal under active work; the shell comes to rest, unless it waits for the page of a hung backend |
| Process lock and storage (`desktop/lock.py`, `session_storage.py`, `server.py`) | `backend.lock`, directories under `sessions/` | acquire, prepare (sweep), close | a backend that starts while another lives or hangs | the sweep never removes the root of a living backend |
| Event stream and presentation (`ide/events.py`, `web/ide_routes.py`, `web/static/ide-*.js`) | cursor, seen identifiers, view of a run | list_after, stream, accept | repeats and replays | the view equals the persisted state |
| Workspace changes and files (`ide/changes.py`, `ide/repository.py`) | none (baselines are rows) | capture, compare, attribute, save | bounded scans; check then replace | no false claim of a change |

How they interact: the browser calls the routes of `web/ide_routes.py`, each served
by a thread that calls the supervisor; the supervisor writes rows and appends
events through the store; the writer thread drives the SDK conversation, whose
callback is the event bridge, which writes approvals into the same store; the
browser follows the event stream and derives its buttons from the run state. The
desktop shell asks `prepare-shutdown`, which stops runs through the sessions.
The control workflow shares only the server process with the agent: it owns its
database, ledgers, bundles and runner.

## AgentRuns

One workspace session. A *handler* is a server thread that serves one request at
a time; the *writer* of a run is its background thread, named after the run.
Every store call is one step, because it is one transaction; between two steps
any process may move.

State and code:

| variable | code |
|---|---|
| `runState` | `agent_runs.state` (`"none"` before `create_run`) |
| `decision`, `owner` | `approval_requests.decision` and `run_id`; each action is proposed at most once |
| `progress`, `status` | the SDK conversation: an action is unseen, proposed, released to its tool, done or rejected; `execution_status` |
| `grants`, `cached` | `run_permission_grants`, and the set in `_permission_grants` shared by bridge and analyzer |
| `manifest`, `warned` | `run_change_manifests`, and runs with a `change_manifest_warning` event |
| `pc`, `call`, `goal`, `work`, `fresh`, `handling` | where each thread is and its locals; `fresh[p]` says that the revision p read is current (revisions are only ever compared for equality) |
| `locked`, `guard` | the workspace's `_workspace_locks` entry, and `_guard` |
| `phase`, `crashes` | whether the constructor is still recovering; restarts so far |

Actions follow the methods: `StartCheck, StartCreate, StartBoot, Launch` (start),
`Approve / ApproveCategory, Grant, ContinueIfReady, Runtime, GetRun,
TransitionHandler, Launch` (approvals and resume), `Deny, Reject`, `Signal`
(pause and stop), `StopList, StopDeny, Evidence, Freeze` (stop), `Enter, Execute,
Propose, Confirm, Proceed, Return, Inspect, Conclude, Except, Release` (the writer,
`_execute` with the SDK and the callback inside it), `Crash, RecoverDeny,
RecoverCancel, RecoverEnd` (a restart and the constructor). `StaleHandler` and
`StaleWriter` are the errors of a lost compare-and-set.

Requests: `Offered` is what the page shows for the stored state
(`controlsForState`, the list of pending approvals). `Early` says which requests
may be *sent* while other threads are busy; every other request waits for
quiet. With `Early = Offers` all requests race; with a smaller set one can see
which race a property depends on.

Abstractions:

- Wording, events, messages and payloads are left out, except the warning event.
  A comparison of the workspace returns the set of the run's actions whose tools
  ran.
- Classification is a constant: each action has a category, is routine or not,
  and each category can be granted or not.
- The SDK is external. `run()` confirms what it finds unconfirmed, proposes
  actions in batches, stops for confirmation when the analyzer finds a HIGH-risk
  one, and returns or raises between batches. Pause and interrupt act
  on a running or idle conversation and may be ignored otherwise. One tool
  action at a time takes effect in the model; the two tools the factory
  allows show as an arbitrary order.
- `Leftovers`: all runs of a session use one SDK conversation. Whether it keeps
  an action that an earlier run left unconfirmed is not decided by the repository,
  so it is a constant, and both values are used.
- An error of sqlite itself or of the SDK factory for a run that has no runtime
  ends a request early and changes nothing; that is the same as a request
  that was not sent, except in `start`, where both errors are modelled.
- `waiting_for_user` is declared and never written in the source.

## WorkspaceSessions

The session service, the session routes and the shutdown gate. Nothing locks the
session service, so every store call and every access to `_current` is a step.

| variable | code |
|---|---|
| `rows`, `opened`, `messages` | conversation rows, identifiers used so far, sessions with a user message |
| `dirs` | the SDK's directories under `openhands/` |
| `current`, `stopping` | `_current`, `_stopping_run_ids` |
| `runState`, `sessionOf`, `alive` | agent runs as the session service sees them: state of the row, its conversation, whether the writer thread lives |
| `research` | requests of the control service as `has_active_work` tells them apart: before approval, `COMPILED`, `RUNNING` or `VALIDATING`, over |
| `committed` | the gate refuses writes; requests in flight are those of `call` |
| `patient` | which user is considered |
| `pc`, `call`, `cur`, `target` | where each handler is and its locals |

Actions: `Open, Release, Check, Remove, Delete, Forget, Create, Set` (open, release
and `_delete_current`), `Session, Append, Insert, Boot, Launch, Decide, Stop` (the
routes of messages and runs over an `AgentSupervisor` reduced to its effects on rows
and threads), `ApprovePlan, Execute, Simulate` (the routes of the control service, whose
simulation may end its request, or leave it running when an error gets past `execute`),
`Shutdown, FindActive, Interrupt, Join, Commit` (prepare-shutdown),
`Send` (the middleware), `WriterWorks, WriterEnds` (an SDK thread, which may write
below its directory and ask for approval at any time before it ends).

Two users are considered. The *hasty* one sends anything at any time; what holds for
it is `NothingStartsAfterReady`. The *patient* one waits for each answer and for a
run it has stopped to let go before it opens, starts or closes; `SessionsEndQuietly`
and `OneSession` hold for it and not for the hasty one (see the findings).

The gate asks both `active_run` and the control service before it commits
(`HasActiveWork`). Research requests outlive the process, so that each may start in any
state. No operation cancels one: a request left `RUNNING` by an error or by an earlier
process (`Abandoned`) keeps the application open for ever, and `CanAlwaysClose` says
that nothing else does. What a submit or an answer writes never makes work active;
they are left out, and so is every other write that only passes the gate.

`Room` names the bounds of an instance: a run or a session needs an unused identifier,
the first message of a session stands for all, and a user outside `Returning` opens
each repository once (two requests may still do so at once).

`dirs` follows the SDK's writes: a directory of a deleted session reappears when a
writer outlives it. A baseline and the messages of a run are left out: AgentRuns has them.

## RequestLifecycle

The control service over its store, ledger, compiler, runner and bundle writer.

An operation is a *script*: the appends, transitions and calls still to be made,
in the order of the code; a branch replaces the script, an exception drops it. A
transition is one step, being one transaction; an append is two (`LogRead` verifies
the file, `LogWrite` writes the row), because the ledger has no lock.

| variable | code |
|---|---|
| `rows` | the requests table: state, revision, and of `data` the answers, spec, digest, job and whether `bundle_path` is set |
| `ledger`, `compiled`, `bundles` | `events.jsonl`, `compiled/`, and the staging or final bundle directory of a request |
| `needs`, `known` | the fields the prompt leaves open; the requests whose identifier a client has |
| `ran` | ghost: what the runner was given |
| `req`, `rec`, `script`, `lines` | a handler's request, its copy of the row, what it has still to do, the rows it has verified |
| `lost` | ghost: requests that an exception or a crash has left |

Faults: any call may raise (`Break`), also in the middle of a ledger row, which leaves
it torn; the process may die and start again (`Crash`). A hash is represented
by the sequence number computed from the same reading: without tampering both
fail together. A plan stands for a specification together with its digest.

## ResultVerdict

One approved experiment, sequentially: the sweep is compiled, a simulator leaves any
small table (or none, or garbage), the runner classifies the exit, the adapter
normalizes, the validator checks and classifies, bundle and row record the
verdict. Variables hold what is handed from one stage to the next. Numbers are
scaled integers and `NaN`, with the comparisons of floating point (`AtMost`,
`Greater`, `Largest`: none with NaN is true, `max` keeps its first argument).
Scaling makes the tolerances exact: 1e-6 A/m^2 is 1, 1e-4 is a division by 10000.
`CompletedIsSound` is the reference definition: what a completed run means, in
terms of the native table, without the normalized one and without the checks;
`CompletedIsWhole` is the part of it that takes no arithmetic.

## RemoteJobs

The client, a network that repeats, delays and loses, and the runner service
with several worker threads. The directory of a job is the only record that
survives a restart of the service; simulators have a process group of their own and
outlive it (`orphans`). `Check, Make, Extract, Prepare, Execute, Ended, Store, Clean`
are the steps of the submission handler between which another thread may move;
which archive, manifest or output is refused is left open. Every submission
considered was signed by the client: signature checks decide nothing here.

## WorkspaceChanges

The bounded scan (`Capture`), the comparison with renames (`Compare`), the bridge's
bookkeeping of outstanding actions (`baselines`, `ambiguous`, `outcome`) and the
attribution (`Claimants`, `Validations`), over a workspace that tool actions, commands of
any phase and the user's editor write. The change set is computed on every request and
when the run ends, so its properties are stated of every state. Texts within the hash
limit are told apart by their digest; larger ones only by size and time, so that a large
file that takes the place of another with the size and the time of the first goes unseen:
`Tellable` says so in `ChangesAreReal`. `wrote` and `foreign` are ghosts: what an action
wrote, and what somebody the bridge does not follow wrote while it was outstanding.

A scan is one step, so that what a scan of a changing tree may mix is not seen. The
limit on bytes read (`content_budget`) cuts a scan short like `FileLimit` and is left
out; a vanished workspace root, which makes a scan raise, is too.

## Desktop

The shell (`main.js`), one supervisor per launch (`backend-supervisor.js`) and the
backend process each has spawned (`desktop/server.py`, the lock and the sessions
storage). A launch, its supervisor and its process share a number.

| variable | code |
|---|---|
| `supervisor`, `launch`, `page` | the one variable of the shell, how far each `launchWorkspace` is, what the window shows |
| `sup`, `stop` | a supervisor's child, readiness and exit; how far its `stop` is |
| `task` | the quit and the restart for settings: armed, asking, answered, stopping |
| `proc`, `gate`, `work` | a backend from boot to death, whether it admits writes, whether work is active in it |
| `lock`, `roots` | `backend.lock`, and the directories under `sessions/` |

A backend may hang (nothing is fair about it), fail or be killed at any point. One that
hangs after it has answered `/health` leaves its launch `loading`, because
`window.loadURL` has no time limit (`LoadHangs`). `page` is the window of the last
launch: windows of older launches that stay open (`main.js:220` and `252` close the
previous one only) are not followed; no path to a signal looks at them. What
`prepare-shutdown` does inside is `WorkspaceSessions`; here it ends the work and shuts
the gate, or refuses. A backend that outlives the shell is not followed.

How the modules fit: `Desktop.Answer` abstracts `WorkspaceSessions.Shutdown ..
Commit`; the runs of `WorkspaceSessions` abstract `AgentRuns` (`create_approval` moves
a run whatever its state, a stopped writer lives on); `AgentRuns.Freeze` stores what
`WorkspaceChanges` computes; `RequestLifecycle.Run` stands for one execution of
`ResultVerdict`, whose remote status comes from `RemoteJobs`. Each module includes every
behaviour of its neighbours that its properties can tell apart, so that they are
checked one at a time. The pair `AgentRuns` and `RunAuthority` is related formally: the
refinement mapping stands at the end of `AgentRuns`, `one_at_a_time` checks it and
`AuthorityIsKept` proves it, both for a user who waits and an SDK that drops leftovers:
without either of these the code does not keep that promise (see the findings).

## The runs

`CHECK_DEADLOCK FALSE` everywhere: once the identifiers of an instance are used up,
the system may rest. Two runs expect a violation, the others pass.

| run | instance | shows |
|---|---|---|
| `race` | 1 run, 2 handlers, 2 commands of one grantable category, all requests at any time but pause and resume, which wait for quiet, `Leftovers` | typing, `GrantsComeFromApprovals`, `UnaskedExecutionHasGrant`, `DecisionsAreFinal`, `ManifestFirstWins` |
| `restart` | 2 runs, 1 handler, 1 action, start and stop at any time, 1 restart | `SingleWriter`, `TerminalRunsHaveEvidence` |
| `answers` | 1 run, 2 handlers, 1 action that cannot be granted, start, deny and stop at any time, 1 restart, fair threads | `WriterReleases`, `RequestsFinish`, `RecoveryEnds` |
| `one_at_a_time` | 2 runs, 2 handlers, an edit and two network commands, requests wait for quiet (except start, which both handlers may serve at once), `Leftovers = FALSE` | `NoUnapprovedExecution`, `AtMostOneActiveRun`, `EvidenceIsComplete`, `WaitingRunsCanBeDecided`, and that `AgentRuns` implements `RunAuthority` |
| `pause_click` | as above, 1 run, pause at any time | a violation of `NoUnapprovedExecution` |
| `stop_click` | as above, start and stop at any time | a violation of `AtMostOneActiveRun` |
| `sessions` | 2 workspaces, 3 sessions, 1 run, 1 research request, 2 handlers, patient and hasty user, fair threads | `NothingStartsAfterReady`, `SessionsEndQuietly`, `OneSession`, `CanAlwaysClose` |
| `requests` | 1 request, 2 questions, 2 plans, 2 handlers, any error anywhere, 1 crash, fair threads | `NoIllegalTransition`, `LedgerIsChained`, `RunsWhatWasApproved`, `EvidenceIsWhole`, `AnswersAreKept`, `RunsAreSettled` |
| `remote_jobs` | 2 jobs, 2 workers, 2 repeated submissions, 1 restart | `DirectoriesAreOwned`, `NeverRunAgain`, `CallsReturnTheLastRun` |
| `verdicts` | 8 experiments of both backends, tables of at most 2 points (3 in a sweep), boundary currents, NaN, wrong units | `CompletedIsSound`, `VerdictsAgree`, `FailuresAreFounded` |
| `changes` | 3 paths, scans of 2 files, 2 small texts and two large ones, 2 tool actions, the user's editor, 2 writes | `ChangesAreReal`, `AttributionIsFounded`, `ValidationIsCurrent` |
| `desktop` | 3 launches, a quit and a restart for settings, fair timers | `LivingBackendsKeepTheirRoot`, `NoWorkIsKilled`, `ShellSettles` |

Why these bounds are enough to be interesting.

- *AgentRuns.* Two handlers give the races of two requests with each other and with
  the writer; in `one_at_a_time` they give two starts at once. In `race`, pause and
  resume wait for quiet to keep the run small (resume re-enters by the `_continue` of
  an approval, pause is the `Signal` of a stop without its end); the proofs of the same
  properties let all seven race. One action suffices where the property speaks of one
  approval; `race` has two, the second of which may run unasked under the grant;
  `one_at_a_time` has a batch of two commands in one category beside a routine edit,
  so that a category approval decides two requests, a single approval leaves one
  open, and a later command runs unasked under the grant. Two runs let a second run
  follow, overlap or inherit from a first one. One restart can fall between any
  two steps. The proofs lift the bounds for the invariants they cover.
- *WorkspaceSessions.* Two repositories and a third identifier for the first of them
  give a change of session, a return to the first repository, and two requests that
  open at once. One run is queued, stopped, left alive by its writer and overtaken by
  the deletion of its session. The patient user opens a repository twice, the hasty one
  each once (both at the same time if it likes). One research request in any initial
  state is approved, executed, left running or found running.
- *RequestLifecycle.* Handlers of different requests share nothing but the
  database, so one request with two handlers has every race; `MaxRevision` bounds
  how often the user answers: both questions one by one, or one more round of
  questions after a proposal; a request whose model asks again after that rests. Two
  plans tell what was approved from what is run.
- *RemoteJobs.* A directory is shared by the workers that serve one job: two workers
  and a copy race for it, a second job checks that they do not touch each other's.
- *ResultVerdict.* The checks look at single points and at neighbours, so two
  points show every combination; a sweep of 0..5 by 2 and one of 0..3 by 2 are the
  cases where rounding and counting may differ. Currents lie on both sides of each
  tolerance: 10000 and -9999 cancel within it, 10000 and -9998 do not. A point may have
  no currents at all: an equilibrium of such points is a `physical_sanity` failure
  without any current, which the proof of `FailuresAreFounded` brought up.
- *WorkspaceChanges.* Three paths and a limit of two files put the cutoff between
  files; two writes are an edit and a revert, a move, or an edit of each of two actions.
- *Desktop.* The quit, the settings and a retry each change the supervisor while an
  older launch is under way: three launches hold all three.

Every property of a passing run has a mutant of the code (an operator defined just
before the one it changes): a lost `AND decision IS NULL`, `INSERT OR REPLACE`, a lock
not released on the error path, a revision that is not compared, a compiler that
writes over a directory, a bundle assembled in place, a job root emptied at start, a
current taken for A/m^2 whatever its unit, an overlap that marks only the later
action, a lock that is taken unnoticed, and so on.

### Fairness

- *AgentRuns.* `FairSpec` assumes weak fairness of each handler's current request, of
  each writer and of recovery. Handlers are threads of the server's pool and the
  writer is a thread of its own, so the operating system schedules them; SDK calls
  return (`max_iteration_per_run=80`, model calls have time limits). Nothing is assumed
  of the user: `Send` is not fair, nor is `Crash`. `_guard` is not a fair lock; a
  thread could in principle be overtaken for ever by others that take it, but each
  overtaking is a start that uses up a run, so weak fairness suffices here.
- *WorkspaceSessions.* Handlers are scheduled, and writers end, for the same reason.
  A simulation has a budget of time. Its premise says what `CanAlwaysClose` assumes of the
  user: that it goes on asking, sends nothing else in the end, and executes the plans it
  has approved.
- *RequestLifecycle.* Handlers are scheduled; model, simulator and disk answer or
  raise (all have time limits). Crashes and errors are not fair.
- *Desktop.* The timers of the shell fire and its promises settle, except the one that
  has neither: the `window.loadURL` of a living backend, which is fair only once that
  backend is gone. Of a backend nothing is assumed: it may hang at any point.
- *RemoteJobs, WorkspaceChanges* and *ResultVerdict* state safety only.

## The findings

`PROJECT.json` lists each with the line of the code and the sentence it disagrees with.

Requests that race with the writer can break promises the documents make. Two are
runs of the project:

1. `pause_click`: pause overwrites `waiting_for_approval` with `paused`. The
   approval is no longer listed, and resume continues the conversation, which
   executes the action nobody approved.
2. `stop_click`: stop cancels a run whose writer has not returned; a new run
   is accepted (its writer cannot start until the lock is free), and the
   old writer's next `create_approval` makes the cancelled run active again.

Others were seen by changing one constant of `AgentRunsOneAtATime.cfg`, the requests
that may be sent early beside start, or `Leftovers`:

| change | what TLC then finds violated |
|---|---|
| `approve` early | `NoUnapprovedExecution`, `EvidenceIsComplete`, `WaitingRunsCanBeDecided` |
| `approve_category` early | `EvidenceIsComplete`, `WaitingRunsCanBeDecided` |
| `deny` early | `AtMostOneActiveRun`, `EvidenceIsComplete` |
| `pause` early | `NoUnapprovedExecution`, `EvidenceIsComplete` |
| `stop` early | `NoUnapprovedExecution`, `AtMostOneActiveRun`, `EvidenceIsComplete` |
| `resume` early | nothing |
| `Leftovers = TRUE` | `NoUnapprovedExecution` |

The causes are few. Stop freezes the changes while a tool still writes. A decision or a
pause that overtakes the writer writes `running` or `paused` over a run the writer has
just ended, which then goes on beside its frozen evidence. An early approval is consumed,
its launch refused, and the writer then waits for it. Stop denies in the database,
but never calls `reject_pending_actions`: if the SDK's conversation keeps the action,
the next run of the session takes it up.

So the properties of `one_at_a_time` are no promises the code keeps to everybody. They
hold for a user who waits until nothing else runs and an SDK that drops leftovers;
the page makes users wait somewhat (its buttons follow the stored state), the server
does not. What holds whatever races is in `race`, `restart` and `answers`.

The other modules state what holds; where the code falls short of a stronger
property, the stated one names the exception, and deleting it shows the
counterexample:

- *Sessions.* Without `patient`, `SessionsEndQuietly` and `OneSession` fail: release
  does not wait for the writer of a stopped run, two requests to open create two
  sessions, and prepare-shutdown deletes a session while a start is in flight. Without
  `Abandoned`, `CanAlwaysClose` fails: see the next item.
- *Requests.* Without `q \in lost`, `RunsAreSettled` fails: errors of httpx and
  of the normalizer are not expected by `execute`, and nothing recovers a request that
  a crash left running, so that `has_active_work` refuses to close from then on. An
  error between the `mkdir` of compile and the row makes every later approval fail.
- *Remote jobs.* `NeverRunAgain` speaks of jobs that had a result: one whose output
  was refused after the simulation loses its directory, and the same submission, while
  it is valid, is simulated again.
- *Verdicts.* Conservation is checked at the point of the largest imbalance only;
  the expected number of points is rounded half to even while the sweep counts
  the steps that fit; a result without points is classified as not conserving; an
  equilibrium that does not ask for the potential fails for want of it.
- *Changes.* A baseline of an action without an observation stays for the rest of
  the run; what the user, an inspecting command or a validation writes while one tracked
  action is outstanding is credited to that action (`foreign`); a validation records the
  texts at its end; the editor's save checks and then replaces; `Tellable` is needed.
  What a command leaves running in the background and writes after its observation is
  not modelled: the next action would be credited with it, and `AttributionIsFounded`
  does not speak of that.
- *Desktop.* Without `LoadHangs`, `ShellSettles` fails: a backend that hangs while its
  page loads leaves an empty window and no recovery window. Two clicks on retry leave a
  backend the shell no longer knows; SIGKILL follows SIGTERM after 750 ms whether or not
  the backend has cleaned up; `stop` forgets the child before it signals it, so that a
  quit after one that threw leaves the process behind.

## What is proved

Every safety property of a passing run but those of `one_at_a_time`, for every value of
the constants that satisfies the named assumptions of the module; those of `one_at_a_time`
under the hypothesis of that run, which is stated in each theorem. Each `...Proofs` module
states one inductive invariant (`IInv`, a conjunction of named parts), proves that the
initial states satisfy it (`InitInv` or the like) and that every step keeps it (one step
per action, a lemma per part), and reads the properties off it.

### AgentRuns, whatever races

`AgentRunsProofs`, for any finite or infinite sets of runs, handlers and actions, any
`Offers`, `Early` and `Leftovers`, and any number of restarts. The only assumption is
`ConstantsAssumption`: the sets are disjoint and typed.

| theorem | property |
|---|---|
| `Typing` | `TypeOK` |
| `OneWriter` | `SingleWriter` |
| `FinalDecisions` | `DecisionsAreFinal` |
| `FirstManifest` | `ManifestFirstWins` |
| `ApprovedGrants` | `GrantsComeFromApprovals` |
| `GrantedExecution` | `UnaskedExecutionHasGrant` |
| `FrozenEvidence` | `TerminalRunsHaveEvidence` |
| `WritersEvidence` | `WritersFreezeAll`: a manifest saved by a writer or by recovery shows what the run had written, all of it and nothing else |

None of these is inductive alone; `IInv` adds what each thread may rely on.
`TerminalRunsHaveEvidence` is the instructive one. It holds because a
run is cancelled, failed or completed only after `_persist_change_manifest`
(`EvidenceComesFirst`), except from the queue: a run that never left the queue
has changed nothing (`UntouchedRunsAreQuiet`). That in turn needs that nobody else
moves a queued run to a state from which it is launched while `start` is still
creating its conversation, which is what `_guard` is for (`StartIsGuarded`). And
it needs that no writer writes `queued` or a terminal state without evidence
(`WritersConclude`). `SingleWriter` rests on the lock alone, not on run states,
which is why it survives the races that break `AtMostOneActiveRun`. Grants rest on
`GrantsInHand`: a handler adds a category to memory only after the transaction
that stored it. Frame lemmas (`ApprovalFrame`, `GrantFrame`, `CachedFrame`,
`ManifestFrame`, `LockFrame`, `WrittenFrame`) name the few actions that touch each piece
of state, `HandlersKeepPlace` where a handler may be. `WritersFreezeAll` is the
part of `EvidenceIsComplete` that needs no quiet: between its comparison and its save a
writer runs no tool and nobody else runs one for it (`WritersCompared`), so that only the
stop of a user saves a comparison that is out of date. It is silent about what a
run writes after it has ended.

### AgentRuns, for a user who waits

`AgentRunsSerialProofs`, under the hypothesis `SerialRequests`, which is what
`one_at_a_time` sets: every request but start waits until nothing else runs, and a run
does not find what an earlier one left unconfirmed (`~Leftovers`). Neither is something
the code enforces. The first excludes each of the races of the table above; the second is
a property of the SDK that the repository does not decide. The theorems are
therefore facts about one kind of user, proved because they show that these races and
leftovers are the *only* way to break the properties: within the hypothesis the sets,
the number of handlers and the restarts are arbitrary.

| theorem | property |
|---|---|
| `OneActiveRun` | `AtMostOneActiveRun`, with any number of starts at once |
| `ApprovedExecution` | `NoUnapprovedExecution` |
| `CompleteEvidence` | `EvidenceIsComplete` |
| `DecidableWaits` | `WaitingRunsCanBeDecided`, whenever requests are served |
| `WaitingRunsAreDecidable` | `WaitingRunsCanBeDecided` at all times, without restarts (as in the run) |
| `AuthorityIsKept` | `ImplementsAuthority`: `AgentRuns` implements `RunAuthority` |

`PROJECT.json` lists only the first of them, whose own race, start against start, the
hypothesis admits.

The invariant `SInv` stands on `OneBusy`: at most one process is where it may change
anything. Starts may still come at any time, but they wait at `_guard` and find the run
of the other active (`BusyRunsAreActive`). So what a process has read of its run is
true until it acts on it: a compare-and-set never fails (`CasIsFresh`), nobody decides
while a writer is there (`DecidersAreAlone`), and what each place in the code may assume
is `WritersKnow`, `DecidersKnow`, `FreezersKnow` and `RestingRuns`. On these stand the
parts that carry the properties: a conversation goes on only when everything it has
proposed may run (`ContinuedIsAuthorized`, with `DeniedIsDropped`), a run that waits has
something to decide or somebody on the way to it (`Unanswered`), and a manifest shows
what was written from the moment it is saved (`Frozen`, because of `Sealed`: no tool of
the run writes after).

The refinement is proved step by step: `Propose` asks or passes; `Approve`, `Deny`,
`StopDeny` and `RecoverDeny` are answers; `ApproveCategory` grants the category and
answers what waits in it; `Enter` and `Proceed`, which release actions to their tools,
are allowed because of `ContinuedIsAuthorized`; every other step stutters.

### WorkspaceSessions

For any repositories, sessions, runs and handlers.

| theorem | property |
|---|---|
| `Typing` | `TypeOK` |
| `ReadyIsFinal` | `NothingStartsAfterReady` |
| `QuietEnds` | `SessionsEndQuietly` |
| `OneSessionOnly` | `OneSession` |

`HandlersServe` and `HandlersKnow` say where a handler may be and what it holds there;
`NothingStartsAfterReady` is then inductive, because the gate commits only when no write
is in flight; it says of runs and of research plans that none begins afterwards. For the
patient user `PatientInv` adds `OneRequest` (one request is served), `OneRow` (the one row
is that of `_current`, but while a session is made or deleted), `OneWriter`,
`StoppedRunsEnd` (a session is deleted with no writer alive) and `DirectoriesBelong`.

### RequestLifecycle

For any requests, questions, plans, handlers, revisions and crashes, with an error at any
call.

| theorem | property |
|---|---|
| `Typing` | `TypeOK` |
| `LegalTransitionsOnly` | `NoIllegalTransition` |
| `ChainedLedger` | `LedgerIsChained` |
| `ApprovedRuns` | `RunsWhatWasApproved` |
| `WholeEvidence` | `EvidenceIsWhole` |
| `KeptAnswers` | `AnswersAreKept` |

The argument is who may act on a request. `HandlersStand`: a handler either *owns* its
request (`Owner`: its copy of the row is the row, and its script is one of those that fit
the state, `Owns`) or *races* for it (`Racer`: its first step is a compare-and-set or the
exclusive `mkdir` of compile). `OneOwner`: a request has one owner, for owning begins with
winning such a step, and only owners append. So a ledger is read and written by one
handler at a time (`ReadersAreCurrent`), though it has no lock, and the rest (`Sound`)
follows each request through its states.

### ResultVerdict

For any experiments, currents, biases, potentials and densities that satisfy
`ConstantsAssumption`, `NumbersAssumption` and `SpecsAssumption` (what the domain's
`DCStudy` requires of a sweep).

| theorem | property |
|---|---|
| `AgreedVerdicts` | `VerdictsAgree` |
| `WholeCompletion` | `CompletedIsWhole`, the larger part of `CompletedIsSound` |
| `SoundCompletion` | `CompletedIsSound` |
| `FoundedFailures` | `FailuresAreFounded` |

The invariant hands the stages over: what a runner reports (`RunnersReport`), that a
completed result is the native table normalized (`AdaptersNormalize`), and that the
records are of its checks (`RecordsFollow`). The lemmas are about the code between:
normalization neither hides nor makes a number that is not one
(`CanonicalHidesNothing`), the classification makes a subset of the checks
(`FewerChecks`), has nothing to say of a result that passed (`PassedIsUnclassified`)
and says nothing else of one that failed (`ClassificationSays`).

The validator compares sums and maxima of the normalized table; the two theorems speak of
the currents the simulator wrote. Between them lie the loops, which are folds in the
model, over sequences of any length. `LargestIs`, `ImbalanceIs`, `TotalScales` and
`FlattenHas` say what they return: a largest member, the imbalance and tolerance of a
worst point, a sum that changes with the unit, the members of the members. Each fold is
first shown to be the last entry of a list of running values (`LargestUnfolds` and the
like), then induction runs up that list. The library's induction theorems cannot be used,
for they take an operator; the module has its own for sets (`EveryNumber`, `UpTo`), which
needs only that every set of numbers has a least one. On these stand `WorstPoint` (none
leaves more current, and its tolerance is that of a current of its own),
`EquilibriumCurrents` and `JunctionShows` (the difference of the two maxima is that of two
values of the field, within 10 % of 0.7 V).

### RemoteJobs

For any jobs, workers, repeated submissions and restarts (`ConstantsAssumption`,
`NoResultAssumption`).

| theorem | property |
|---|---|
| `Typing` | `TypeOK` |
| `OwnedDirectories` | `DirectoriesAreOwned` |
| `OneSimulation` | `NeverRunAgain` |
| `OwnResults` | `CallsReturnTheLastRun` |

From the exclusive `mkdir` to its answer a worker is *inside* the directory of its job,
and no other is (`OneUser`); there it knows that no result is recorded and no simulator
is left over (`UsedDirectories`). A job that has had a result has a directory for ever
(`DirectoriesRecord`), so that the `mkdir` refuses it from then on.

### WorkspaceChanges

For any workspace, texts, actions and limits (`PathsAssumption`, `LimitsAssumption`,
`TextsAssumption`, `ActionsAssumption`).

| theorem | property |
|---|---|
| `RealChanges` | `ChangesAreReal` |
| `FoundedAttribution` | `AttributionIsFounded` |
| `CurrentValidation` | `ValidationIsCurrent` |

Two lemmas carry the first: `CompareIsReal`, that every change the comparison of two
scans finds is one of the two workspaces, and its converse for scans that were not cut
short. Attribution rests on `Founded`: an outcome that claims a file is of an action that
wrote it, unless somebody the bridge does not follow wrote while the action was
outstanding; `OverlapsAreAmbiguous` and `BaselinesAreWatched` are what makes that
inductive.

### Desktop

For any number of launches (`DesktopAssumption`).

| theorem | property |
|---|---|
| `KeptRoots` | `LivingBackendsKeepTheirRoot` |
| `NoKilledWork` | `NoWorkIsKilled` |

The first follows from `LockIsHeld`: past the lock a backend holds it to its end, so that
whoever sweeps is alone. The second is a protocol of four parties: between the answer of
a backend and the signal nothing works and no window can begin to (`AnswersLast`),
because a window is that of a settled launch on a backend that has served
(`WindowsAreServed`), the one that answered held the lock, and so every other window is
on a dead backend.

### Checked by TLC only

- Liveness, which takes fairness and `ENABLED`, out of the prover's reach:
  `WriterReleases`, `RequestsFinish`, `RecoveryEnds`, `CanAlwaysClose`, `RunsAreSettled`
  and `ShellSettles`.

## Not modelled

- *Update controller.* What it does follows the events of an external updater; its
  install goes through the quit of `Desktop`. `downloadReady`, which is never reset,
  is listed as a hazard without a property.
- *Event stream and presentation.* The stream reads the log from a cursor and changes
  nothing. What the page makes of the events is presentation.
- *Text.* How a shell line is split into tokens and classified, the redaction and
  wording of events, meshes, doping and command files: functions of a text or of
  numbers, which tests reach.
- *Launch tokens and session cookies*, which only decide who may send a request.
- *Workspace rows, previews, listings, git state*: read only, or written once.
- *Knowledge, evaluations, command line, page layout*: batch tools and presentation
  without state that other parts depend on.
- *Python, sqlite, the file system.* A transaction, a rename and an exclusive `mkdir`
  are atomic; a write that is not synced is not lost.

## Plan

The modules are complete as far as their components go, and the proofs cover every
safety property and the refinement, those of `one_at_a_time` under its hypothesis. What
is left to TLC is liveness. What a proof could still add is the other side of
`ResultVerdict`, that a run whose table is sound and of the expected length is completed,
and for `AgentRuns` a hypothesis weaker than `SerialRequests` for each property of
`one_at_a_time` that `WritersEvidence` does not reach: the table of the findings says
which requests it could let race.
