----------------------- MODULE AgentRunsSerialProofs -----------------------
(***************************************************************************)
(* Proofs about AgentRuns for a user who waits: every request but start is *)
(* sent when nothing else runs, and the SDK conversation drops what a run  *)
(* left unconfirmed (SerialRequests).  Neither is enforced by the code.    *)
(* The routes take a pause, a stop or a decision while the writer runs,    *)
(* and such requests break every property proved here; what the SDK keeps  *)
(* is its own affair.  So these theorems say nothing of races, which       *)
(* AgentRunsProofs is about: they say that what the design documents       *)
(* promise fails for these two reasons and no third, for any number of     *)
(* runs, handlers, batches and restarts.                                   *)
(*                                                                         *)
(* The idea: then at most one process at a time may change anything, and   *)
(* what it has read of its run stays true until it acts on it.             *)
(***************************************************************************)
EXTENDS AgentRunsProofs

\* The user sends a request other than start only when nothing else runs, and a run never
\* finds in the SDK conversation what an earlier run of the session left unconfirmed.
SerialRequests == Early \subseteq {"start"} /\ ~ Leftovers

----------------------------------------------------------------------------
(* The inductive invariant *)

\* A process that may change something: not one that waits at _guard for its check, nor
\* a writer that has only the lock left to give back.
Busy(p) == pc[p] \notin {"idle", "check", "release"}
\* No two processes are busy at once.
OneBusy == \A p, q \in Procs : Busy(p) /\ Busy(q) => p = q

\* The run a busy process works on is active, the only one that is, and in which state.
BusyRunsAreActive ==
    \A p \in Procs : Busy(p) =>
        \/ pc[p] = "create" /\ \A r \in Runs : runState[r] \notin Active
        \/ pc[p] = "boot" /\ runState[RunOf(p)] = "queued"
        \/ pc[p] \in {"launch", "enter"} /\ runState[RunOf(p)] = "running"
        \/ pc[p] = "run" /\ runState[RunOf(p)] \in {"running", "waiting_for_approval"}
        \/ /\ pc[p] \notin {"create", "boot", "launch", "enter", "run"}
           /\ runState[RunOf(p)] \in Active

\* Nobody else writes a row between the read and the write of _transition.
CasIsFresh == \A p \in Procs : pc[p] = "cas" => fresh[p]

\* Every request but start is served while no writer is there.
DecidersAreAlone ==
    \A h \in Handlers : call[h].op \notin {"none", "start"} =>
        \A r \in Runs : pc[r] = "idle"

\* Whoever is busy has its run to itself.
Quiet ==
    /\ OneBusy
    /\ BusyRunsAreActive
    /\ CasIsFresh
    /\ DecidersAreAlone
    /\ AtMostOneActiveRun

\* What a writer knows: its conversation runs, was not paused behind its back, and its
\* row is as it read it; it leaves its run ended or waiting.
WritersKnow ==
    \A r \in Runs :
        /\ pc[r] = "run" => status[r] = "running"
        /\ pc[r] \in {"returned", "conclude"} => status[r] # "paused"
        /\ pc[r] = "conclude" => goal[r] = runState[r]
        /\ pc[r] \in {"get", "cas"} => goal[r] \in Terminal \cup {"waiting_for_approval"}
        /\ pc[r] \in {"evidence", "freeze"} => goal[r] \in Terminal
        /\ pc[r] = "release" => runState[r] \in Terminal \cup {"waiting_for_approval"}

\* Run r has proposed no action.
New(r) == \A a \in Actions : owner[a] # r

\* What a handler knows of its run from the moment the request was sent.
DecidersKnow ==
    \A h \in Handlers :
        /\ pc[h] \in {"resolve", "grant", "pending", "reject"} =>
             runState[call[h].run] = "waiting_for_approval"
        /\ pc[h] = "resolve" => decision[call[h].act] = "undecided"
        /\ pc[h] = "deny" => work[h] \subseteq Undecided(call[h].run)
        /\ call[h].op \in {"start", "pause", "resume"} /\ call[h].run \in Runs =>
             New(call[h].run)

\* A run that is queued, paused or running without a writer has proposed nothing yet.
RestingRuns ==
    \A r \in Runs :
        /\ runState[r] \in {"queued", "paused"} => New(r)
        /\ runState[r] = "running" /\ Serving =>
              \/ New(r)
              \/ pc[r] # "idle"
              \/ \E h \in Handlers : pc[h] = "launch" /\ call[h].run = r

\* Action a may run: it is routine, approved, or of a category granted to its run.
Authorized(a) ==
    a \in Routine \/ decision[a] = "approve" \/ Category[a] \in grants[owner[a]]

\* Process p is on its way to let the conversation of its run go on.
Continues(p) ==
    \/ pc[p] = "enter"
    \/ p \in Handlers /\ Target(p) = "running" /\ pc[p] \in {"runtime", "get", "cas", "launch"}

\* A run goes on only when everything it has proposed may run.
ContinuedIsAuthorized ==
    \A p \in Procs : Continues(p) => \A a \in Proposed(RunOf(p)) : Authorized(a)

\* An action that was denied is dropped before its run goes on, or its run ends.
DeniedIsDropped ==
    \A a \in Actions : progress[a] = "proposed" /\ decision[a] = "deny" =>
        \/ runState[owner[a]] \in Terminal
        \/ phase = "recovering"
        \/ \E h \in Handlers : call[h].run = owner[a] /\ (pc[h] = "reject" \/ call[h].op = "stop")

\* A run waits with something to decide, or somebody is on the way to it.
Unanswered ==
    \A r \in Runs :
        /\ runState[r] = "waiting_for_approval" /\ Serving =>
             \/ Undecided(r) # {}
             \/ pc[r] \notin {"idle", "release"}
             \/ \E h \in Handlers : call[h].run = r
        /\ pc[r] = "run" => \A a \in Proposed(r) \ Routine :
                decision[a] = "undecided" \/ GrantApplies(r, a)
        /\ pc[r] \in {"returned", "conclude"} /\ status[r] = "waiting_for_confirmation" =>
             Undecided(r) # {}
        /\ pc[r] \in {"get", "cas"} /\ goal[r] = "waiting_for_approval" => Undecided(r) # {}

\* The changes of a run are frozen once nothing can add to them, on the way to its end.
Frozen ==
    \A r \in Runs : manifest[r] # NoManifest =>
        /\ runState[r] # "none"
        /\ Written(r) \subseteq manifest[r]
        /\ \/ runState[r] \in Terminal
           \/ phase = "recovering"
           \/ pc[r] \in {"get", "cas"} /\ goal[r] \in Terminal
           \/ \E h \in Handlers : /\ call[h].op = "stop" /\ call[h].run = r
                                  /\ pc[h] \in {"get", "cas"}

\* A comparison of the workspace is still right when it is saved.
FreezersKnow ==
    \A p \in Procs : pc[p] = "freeze" => work[p] = Written(RunOf(p))

----------------------------------------------------------------------------
(* One process at a time *)

\* Process p moves, on the run it has, and writes no row.
Walks(p) ==
    /\ pc[p] # "idle"
    /\ \A q \in Procs : q # p => pc'[q] = pc[q] /\ fresh'[q] = fresh[q]
    /\ \A h \in Handlers : h # p => call'[h] = call[h]
    /\ p \in Handlers => call'[p] \in {call[p], NoCall}
    /\ UNCHANGED <<runState, phase>>
    /\ Busy(p)' =>
          /\ Busy(p) /\ RunOf(p)' = RunOf(p)
          /\ pc[p] # "create" /\ pc'[p] \notin {"create", "boot", "launch", "enter"}
          /\ pc'[p] = "run" => pc[p] \in {"enter", "run"}
          /\ pc'[p] = "cas" => fresh'[p]

\* These steps of a handler write no row.
LEMMA HandlerWalks ==
    ASSUME TypeOK, HandlersKeepPlace, NEW h \in Handlers, HandlerStep(h)
    PROVE  \/ Walks(h)
           \/ StartCheck(h) \/ StartCreate(h) \/ StartBoot(h) \/ Launch(h)
           \/ TransitionHandler(h)
<1> USE ConstantsAssumption DEF TypeOK, Procs, HandlersKeepPlace, Walks, Busy, RunOf
<1>1. ASSUME Approve(h)  PROVE Walks(h)
  BY <1>1 DEF Approve, sdk, process, Goto, Answer
<1>2. ASSUME ApproveCategory(h)  PROVE Walks(h)
  BY <1>2 DEF ApproveCategory, sdk, process, Goto, Answer
<1>3. ASSUME Grant(h)  PROVE Walks(h)
  BY <1>3 DEF Grant, store, sdk, Goto
<1>4. ASSUME ContinueIfReady(h)  PROVE Walks(h)
  BY <1>4 DEF ContinueIfReady, store, sdk, process, Goto, Answer
<1>5. ASSUME Deny(h)  PROVE Walks(h)
  BY <1>5 DEF Deny, sdk, process, Goto, Answer
<1>6. ASSUME Reject(h)  PROVE Walks(h)
  BY <1>6 DEF Reject, store, process, Goto
<1>7. ASSUME Runtime(h)  PROVE Walks(h)
  BY <1>7 DEF Runtime, store, sdk, process, Goto
<1>8. ASSUME Signal(h)  PROVE Walks(h)
  BY <1>8 DEF Signal, store, process, Goto
<1>9. ASSUME StopList(h)  PROVE Walks(h)
  BY <1>9 DEF StopList, store, sdk, process, Goto
<1>10. ASSUME StopDeny(h)  PROVE Walks(h)
  BY <1>10 DEF StopDeny, sdk, process, Goto, Answer, DropLocals
<1>11. ASSUME StaleHandler(h)  PROVE Walks(h)
  BY <1>11 DEF StaleHandler, store, sdk, process, Answer, Goto
<1>12. ASSUME Evidence(h)  PROVE Walks(h)
  BY <1>12 DEF Evidence, sdk, process, Goto
<1>13. ASSUME Freeze(h)  PROVE Walks(h)
  BY <1>13 DEF Freeze, sdk, process, Goto
<1>14. ASSUME GetRun(h)  PROVE Walks(h)
  BY <1>14 DEF GetRun, store, sdk, process, Goto
<1>15. QED
  BY <1>1, <1>2, <1>3, <1>4, <1>5, <1>6, <1>7, <1>8, <1>9, <1>10, <1>11, <1>12, <1>13, <1>14 DEF
     HandlerStep

\* These steps of a writer write no row.
LEMMA WriterWalks ==
    ASSUME TypeOK, NEW r \in Runs, WriterStep(r)
    PROVE  Walks(r) \/ Propose(r) \/ TransitionWriter(r)
<1> USE ConstantsAssumption DEF TypeOK, Procs, Walks, Busy, RunOf
<1>1. ASSUME Enter(r)  PROVE Walks(r)
  BY <1>1 DEF Enter, store, process, Goto
<1>2. ASSUME Execute(r)  PROVE Walks(r)
  BY <1>2 DEF Execute, store, procs, process
<1>3. ASSUME Confirm(r)  PROVE Walks(r)
  BY <1>3 DEF Confirm, store, process, Goto
<1>4. ASSUME Proceed(r)  PROVE Walks(r)
  BY <1>4 DEF Proceed, store, procs, process
<1>5. ASSUME Return(r)  PROVE Walks(r)
  BY <1>5 DEF Return, store, process, Goto
<1>6. ASSUME Inspect(r)  PROVE Walks(r)
  BY <1>6 DEF Inspect, store, sdk, process, Goto
<1>7. ASSUME Conclude(r)  PROVE Walks(r)
  BY <1>7 DEF Conclude, store, sdk, process, Goto
<1>8. ASSUME Except(r)  PROVE Walks(r)
  BY <1>8 DEF Except, store, sdk, process, Goto
<1>9. ASSUME Evidence(r)  PROVE Walks(r)
  BY <1>9 DEF Evidence, sdk, process, Goto
<1>10. ASSUME Freeze(r)  PROVE Walks(r)
  BY <1>10 DEF Freeze, sdk, process, Goto
<1>11. ASSUME GetRun(r)  PROVE Walks(r)
  BY <1>11 DEF GetRun, store, sdk, process, Goto
<1>12. ASSUME StaleWriter(r)  PROVE Walks(r)
  BY <1>12 DEF StaleWriter, store, sdk, process, Goto
<1>13. ASSUME Release(r)  PROVE Walks(r)
  BY <1>13 DEF Release, store, sdk, Goto, DropLocals
<1>14. QED
  BY <1>1, <1>2, <1>3, <1>4, <1>5, <1>6, <1>7, <1>8, <1>9, <1>10, <1>11, <1>12, <1>13 DEF
     WriterStep

\* The actions that create runs, launch them or end them, and all others.
LEMMA Moves ==
    ASSUME TypeOK, HandlersKeepPlace, [Next]_vars
    PROVE  \/ \E p \in Procs : Walks(p)
           \/ \E h \in Handlers : \/ Send(h) \/ StartCheck(h) \/ StartCreate(h) \/ StartBoot(h)
                                  \/ Launch(h) \/ TransitionHandler(h)
           \/ \E r \in Runs : Propose(r) \/ TransitionWriter(r) \/ RecoverCancel(r)
           \/ \E r \in Runs : RecoverDeny(r)
           \/ Crash \/ RecoverEnd \/ UNCHANGED vars
  BY HandlerWalks, WriterWalks DEF Next, RecoverStep, Procs

\* A busy process has a run once it is past create.
LEMMA BusyHasRun ==
    ASSUME IInv, ProcsKeepPlace, NEW p \in Procs, Busy(p), pc[p] # "create"
    PROVE  RunOf(p) \in Runs
  BY ConstantsAssumption DEF IInv, Control, WellCalled, RunOf, Busy, Procs, ProcsKeepPlace

\* Every step keeps the busy process alone.
LEMMA QuietStep ==
    ASSUME SerialRequests, IInv, HandlersKeepPlace, ProcsKeepPlace, Quiet, [Next]_vars
    PROVE  Quiet'
<1> USE ConstantsAssumption DEF TypeOK, Procs, Quiet, OneBusy, BusyRunsAreActive,
        CasIsFresh, DecidersAreAlone, AtMostOneActiveRun, Active, NoCall
<1>0. TypeOK /\ WellCalled /\ StartIsGuarded /\ RecoveryIsAlone
  BY DEF IInv, Control
<1>1. ASSUME NEW p \in Procs, Walks(p)  PROVE Quiet'
  <2>1. \A q \in Procs : Busy(q)' => Busy(q) /\ RunOf(q)' = RunOf(q)
    BY <1>1 DEF Walks, Busy, RunOf
  <2>2. OneBusy' /\ AtMostOneActiveRun'
    BY <1>1, <2>1 DEF Walks
  <2>3. BusyRunsAreActive' /\ CasIsFresh'
    BY <1>1, <2>1, <1>0 DEF Walks, Busy
  <2>4. DecidersAreAlone'
    BY <1>1, <2>1, <1>0 DEF Walks, Busy
  <2>5. QED
    BY <2>2, <2>3, <2>4
<1>2. ASSUME NEW h \in Handlers, Send(h)  PROVE Quiet'
  <2> USE DEF Busy, RunOf
  <2>1. PICK c \in Call : /\ c.op \in Early \/ \A p \in Procs : Idle(p)
                          /\ c.op \in Offers /\ Offered(c)
                          /\ call' = [call EXCEPT ![h] = c] /\ Goto(h, FirstStep(c.op))
    BY <1>2 DEF Send
  <2>2. Idle(h) /\ UNCHANGED <<runState, fresh>>
    BY <1>2 DEF Send, store
  <2>3. CASE c.op = "start"
    BY SMTT(30), <1>0, <2>1, <2>2, <2>3 DEF Goto, FirstStep, Idle
  <2>4. CASE c.op # "start"
    <3>1. \A p \in Procs : pc[p] = "idle"
      BY <2>1, <2>4 DEF SerialRequests, Idle
    <3>2. c.run \in Runs /\ runState[c.run] \in Active /\ c.op \in Ops
      BY <2>1, <2>4 DEF Offered, Pending, Ops
    <3>3. FirstStep(c.op) \in {"resolve", "runtime", "signal"}
      BY <2>4, <3>2 DEF FirstStep, Ops
    <3>4. QED
      BY <1>0, <2>1, <2>2, <3>1, <3>2, <3>3 DEF Goto
  <2>5. QED
    BY <2>3, <2>4
<1>3. ASSUME NEW h \in Handlers, StartCheck(h)  PROVE Quiet'
  <2> USE DEF Busy, RunOf
  <2>1. CASE pc' = [pc EXCEPT ![h] = "create"]
    <3>1. /\ pc[h] = "check" /\ \A r \in Runs : runState[r] \notin Active
          /\ UNCHANGED <<runState, call, fresh>>
      BY <1>3, <1>0, <2>1 DEF StartCheck, store, Answer, Goto
    <3>2. \A p \in Procs : ~ Busy(p)
      <4>1. SUFFICES ASSUME NEW p \in Procs, Busy(p)  PROVE FALSE
        OBVIOUS
      <4>2. CASE pc[p] = "create"
        BY <1>3, <1>0, <4>2 DEF StartCheck, StartIsGuarded, ProcsKeepPlace, WriterPCs
      <4>3. CASE pc[p] # "create"
        BY <3>1, <4>1, <4>3, BusyHasRun
      <4>4. QED
        BY <4>2, <4>3
    <3>3. QED
      BY <1>0, <2>1, <3>1, <3>2
  <2>2. CASE Answer(h)
    BY <1>0, <1>3, <2>2 DEF StartCheck, store, Answer, Goto
  <2>3. QED
    BY <1>3, <2>1, <2>2 DEF StartCheck, Goto
<1>4. ASSUME NEW h \in Handlers, StartCreate(h)  PROVE Quiet'
  <2>1. PICK s \in Runs : /\ runState[s] = "none" /\ WriteRun(s, "queued")
                          /\ call' = [call EXCEPT ![h].run = s]
    BY <1>4 DEF StartCreate
  <2>2. pc[h] = "create" /\ pc' = [pc EXCEPT ![h] = "boot"] /\ h \notin Runs
    BY <1>4 DEF StartCreate, Goto
  <2>3. call'[h].run = s /\ \A g \in Handlers : call'[g].op = call[g].op
    BY <1>0, <2>1 DEF Call
  <2>4. \A q \in Procs : Busy(q) <=> q = h
    BY <2>2 DEF Busy
  <2>5. \A q \in Procs : Busy(q)' <=> q = h
    BY <1>0, <2>2, <2>4 DEF Busy
  <2>6. \A r \in Runs : runState[r] \notin Active /\ (runState'[r] \in Active => r = s)
    BY <1>0, <2>1, <2>2, <2>4 DEF WriteRun
  <2>7. OneBusy' /\ AtMostOneActiveRun'
    BY <2>5, <2>6
  <2>8. BusyRunsAreActive' /\ CasIsFresh'
    <3>1. pc'[h] = "boot" /\ runState'[s] = "queued" /\ RunOf(h)' = s
      BY <1>0, <2>1, <2>2, <2>3 DEF WriteRun, RunOf
    <3>2. BusyRunsAreActive'
      BY <2>5, <3>1
    <3>3. CasIsFresh'
      BY <2>5, <3>1 DEF Busy
    <3>4. QED
      BY <3>2, <3>3
  <2>9. DecidersAreAlone'
    BY <1>0, <2>2, <2>3
  <2>10. QED
    BY <2>7, <2>8, <2>9
<1>5. ASSUME NEW h \in Handlers, StartBoot(h)  PROVE Quiet'
  <2> DEFINE s == call[h].run
  <2>1. /\ s \in Runs /\ runState[s] \in Active /\ h \notin Runs /\ Busy(h) /\ pc[h] = "boot"
    BY <1>0, <1>5 DEF StartBoot, WellCalled, Busy, RunOf
  <2>2. \A q \in Procs : q # h => ~ Busy(q) /\ ~ Busy(q)'
    BY <1>0, <1>5, <2>1 DEF StartBoot, Goto, Answer, Busy
  <2>3. CASE WriteRun(s, "running") /\ Goto(h, "launch") /\ UNCHANGED call
    BY SMTT(30), <1>0, <2>1, <2>2, <2>3 DEF WriteRun, Goto, RunOf, Busy
  <2>4. CASE Answer(h) /\ (WriteRun(s, "failed") \/ UNCHANGED <<runState, fresh>>)
    <3>1. \A q \in Procs : ~ Busy(q)'
      BY <1>0, <2>1, <2>2, <2>4 DEF Answer, Goto, Busy
    <3>2. AtMostOneActiveRun' /\ DecidersAreAlone'
      BY <1>0, <2>1, <2>4 DEF WriteRun, Answer, Goto
    <3>3. QED
      BY <3>1, <3>2 DEF Busy
  <2>5. QED
    BY <1>5, <2>3, <2>4 DEF StartBoot
<1>6. ASSUME NEW h \in Handlers, Launch(h)  PROVE Quiet'
  <2> DEFINE s == call[h].run
  <2>1. /\ s \in Runs /\ runState[s] = "running" /\ h \notin Runs /\ Busy(h)
        /\ UNCHANGED <<runState, fresh>>
    BY <1>0, <1>6 DEF Launch, store, WellCalled, Busy, RunOf
  <2>2. \A q \in Procs : q # h => ~ Busy(q)
    BY <2>1
  <2>3. CASE /\ pc' = [pc EXCEPT ![h] = "idle", ![s] = "enter"]
             /\ call' = [call EXCEPT ![h] = NoCall]
    <3>1. \A q \in Procs : Busy(q)' <=> q = s
      BY <1>0, <2>1, <2>2, <2>3 DEF Busy
    <3>2. DecidersAreAlone'
      <4>1. \A g \in Handlers : call'[g].op \in {"none", "start"}
        BY SMTT(30), <1>0, <2>2, <2>3 DEF Busy, HandlersKeepPlace, ProcsKeepPlace, HandlerPCs
      <4>2. QED
        BY <4>1
    <3>3. QED
      BY SMTT(30), <1>0, <2>1, <2>3, <3>1, <3>2 DEF RunOf, Busy
  <2>4. CASE Answer(h)
    BY <1>0, <2>1, <2>2, <2>4 DEF Answer, Goto, Busy
  <2>5. QED
    BY <1>6, <2>3, <2>4 DEF Launch
<1>7. ASSUME NEW h \in Handlers, TransitionHandler(h)  PROVE Quiet'
  <2> DEFINE s == call[h].run
  <2>1. /\ s \in Runs /\ runState[s] \in Active /\ h \notin Runs /\ Busy(h)
        /\ WriteRun(s, Target(h)) /\ Target(h) \in {"running", "paused", "cancelled"}
    BY <1>0, <1>7 DEF TransitionHandler, WellCalled, Busy, RunOf, Target
  <2>2. \A q \in Procs : q # h => ~ Busy(q) /\ pc'[q] = pc[q]
    BY <1>0, <1>7, <2>1 DEF TransitionHandler, Goto, Answer
  <2>3. CASE Target(h) = "running" /\ Goto(h, "launch") /\ UNCHANGED call
    BY SMTT(30), <1>0, <2>1, <2>2, <2>3 DEF WriteRun, Goto, RunOf, Busy
  <2>4. CASE Answer(h)
    <3>1. \A q \in Procs : ~ Busy(q)'
      BY <1>0, <2>1, <2>2, <2>4 DEF Answer, Goto, Busy
    <3>2. AtMostOneActiveRun' /\ DecidersAreAlone'
      BY <1>0, <2>1, <2>4 DEF WriteRun, Answer, Goto
    <3>3. QED
      BY <3>1, <3>2 DEF Busy
  <2>5. QED
    BY <1>7, <2>3, <2>4 DEF TransitionHandler
<1> USE DEF Busy, RunOf
<1>8. ASSUME NEW r \in Runs, Propose(r)  PROVE Quiet'
  BY SMTT(30), <1>0, <1>8 DEF Propose, WriteRun
<1>9. ASSUME NEW r \in Runs, TransitionWriter(r)  PROVE Quiet'
  BY SMTT(30), <1>0, <1>9 DEF TransitionWriter, WriteRun, Goto
<1>10. ASSUME NEW r \in Runs, RecoverCancel(r)  PROVE Quiet'
  BY <1>0, <1>10 DEF RecoverCancel, WriteRun, RecoveryIsAlone
<1>11. ASSUME NEW r \in Runs, RecoverDeny(r)  PROVE Quiet'
  BY <1>0, <1>11 DEF RecoverDeny, procs
<1>12. CASE Crash
  BY <1>12 DEF Crash, store
<1>13. CASE RecoverEnd \/ UNCHANGED vars
  BY <1>13 DEF RecoverEnd, vars, store, procs
<1>14. QED
  BY <1>0, <1>1, <1>2, <1>3, <1>4, <1>5, <1>6, <1>7, <1>8, <1>9, <1>10, <1>11, <1>12, <1>13, Moves

----------------------------------------------------------------------------
(* Who changes what *)

\* A handler moves alone, unless it launches a writer.
LEMMA HandlerAlone ==
    ASSUME TypeOK, NEW h \in Handlers, Send(h) \/ HandlerStep(h), ~ Launch(h)
    PROVE  /\ \A q \in Procs : q # h => pc'[q] = pc[q]
           /\ \A g \in Handlers : g # h => call'[g] = call[g]
           /\ UNCHANGED <<goal, phase, crashes>>
<1> USE ConstantsAssumption DEF TypeOK, Procs
<1>1. CASE Send(h)
  BY <1>1 DEF Send, Goto, process
<1>2. CASE HandlerStep(h)
  BY ZenonT(60), <1>2 DEF HandlerStep, StartCheck, StartCreate, StartBoot, Approve,
     ApproveCategory, Grant, ContinueIfReady, Deny, Reject, Runtime, Signal, StopList, StopDeny,
     TransitionHandler, StaleHandler, Evidence, Freeze, GetRun, Goto, Answer, process
<1>3. QED
  BY <1>1, <1>2

\* A writer moves alone, and is the only one.
LEMMA WriterAlone ==
    ASSUME IInv, NEW s \in Runs, WriterStep(s)
    PROVE  /\ pc[s] # "idle"
           /\ \A q \in Procs : q # s => pc'[q] = pc[q]
           /\ \A r \in Runs : r # s => pc[r] = "idle"
           /\ UNCHANGED <<call, phase, crashes>>
<1> USE DEF IInv, SingleWriter, TypeOK
<1>1. pc[s] # "idle"
  BY DEF WriterStep, Enter, Execute, Propose, Confirm, Proceed, Return, Inspect,
     Conclude, Except, TransitionWriter, StaleWriter, Evidence, Freeze, GetRun, Release
<1>2. \A q \in Procs : q # s => pc'[q] = pc[q]
  BY DEF WriterStep, Enter, Execute, Propose, Confirm, Proceed, Return, Inspect, procs, Goto,
     Conclude, Except, TransitionWriter, StaleWriter, Evidence, Freeze, GetRun, Release
<1>3. UNCHANGED <<call, phase, crashes>>
  BY DEF WriterStep, Enter, Execute, Propose, Confirm, Proceed, Return, Inspect, procs, Goto,
     Conclude, Except, TransitionWriter, StaleWriter, Evidence, Freeze, GetRun, Release, process
<1>4. QED
  BY <1>1, <1>2, <1>3

\* A handler writes a row in these places only.
LEMMA HandlerRows ==
    ASSUME TypeOK, HandlersKeepPlace, NEW h \in Handlers, HandlerStep(h), NEW r \in Runs,
           runState'[r] # runState[r]
    PROVE  \/ pc[h] = "create" /\ runState[r] = "none" /\ runState'[r] = "queued"
           \/ pc[h] = "boot" /\ call[h].run = r /\ runState'[r] \in {"running", "failed"}
           \/ pc[h] = "cas" /\ call[h].run = r /\ runState'[r] = Target(h)
<1> USE DEF TypeOK
<1>1. CASE Walks(h)
  BY <1>1 DEF Walks
<1>2. CASE StartCheck(h) \/ Launch(h)
  BY <1>2 DEF StartCheck, Launch, store
<1>3. CASE StartCreate(h) \/ StartBoot(h) \/ TransitionHandler(h)
  BY <1>3 DEF StartCreate, StartBoot, TransitionHandler, WriteRun
<1>4. QED
  BY <1>1, <1>2, <1>3, HandlerWalks

\* While a writer is busy handlers can but receive requests, and refuse to start.
LEMMA BusyWriter ==
    ASSUME TypeOK, OneBusy, NEW h \in Handlers, HandlerStep(h), NEW r \in Runs, Busy(r)
    PROVE  StartCheck(h)
<1>1. ~ Busy(h)
  BY ConstantsAssumption DEF OneBusy, Procs
<1>2. pc[h] \in {"idle", "check", "release"}
  BY <1>1 DEF Busy
<1>3. QED
  BY <1>2 DEF HandlerStep, StartCheck, StartCreate, StartBoot, Launch, Approve, ApproveCategory,
     Grant, ContinueIfReady, Deny, Reject, Runtime, Signal, StopList, StopDeny,
     TransitionHandler, StaleHandler, Evidence, Freeze, GetRun

\* A writer that is not busy has only the lock to give back.
LEMMA IdleWriter ==
    ASSUME NEW s \in Runs, WriterStep(s), ~ Busy(s)
    PROVE  Release(s)
<1>1. pc[s] \in {"idle", "check", "release"}
  BY DEF Busy
<1>2. QED
  BY <1>1 DEF WriterStep, Enter, Execute, Propose, Confirm, Proceed, Return, Inspect,
     Conclude, Except, TransitionWriter, StaleWriter, Evidence, Freeze, GetRun

\* A handler that is not busy waits for _guard in start.
LEMMA IdleHandler ==
    ASSUME NEW h \in Handlers, HandlerStep(h), ~ Busy(h)
    PROVE  StartCheck(h)
<1>1. pc[h] \in {"idle", "check", "release"}
  BY DEF Busy
<1>2. QED
  BY <1>1 DEF HandlerStep, StartCheck, StartCreate, StartBoot, Launch, Approve, ApproveCategory,
     Grant, ContinueIfReady, Deny, Reject, Runtime, Signal, StopList, StopDeny,
     TransitionHandler, StaleHandler, Evidence, Freeze, GetRun

\* A busy handler is not disturbed by anybody else, nor is one that is not busy moved.
LEMMA Bystander ==
    ASSUME IInv, OneBusy, NEW g \in Handlers, NEW p \in Procs, p # g,
           \/ p \in Handlers /\ (Send(p) \/ HandlerStep(p))
           \/ p \in Runs /\ WriterStep(p)
    PROVE  /\ pc'[g] = pc[g] /\ call'[g] = call[g]
           /\ Busy(g) => UNCHANGED <<store, sdk, cached>> /\ work'[g] = work[g]
<1> USE ConstantsAssumption DEF Procs
<1>1. TypeOK /\ WellCalled
  BY DEF IInv, Control
<1>2. pc'[g] = pc[g] /\ call'[g] = call[g]
  <2>1. CASE p \in Handlers /\ ~ Launch(p)
    BY <1>1, <2>1, HandlerAlone
  <2>2. CASE p \in Handlers /\ Launch(p)
    BY <1>1, <2>2 DEF Launch, Answer, Goto, TypeOK, WellCalled
  <2>3. CASE p \in Runs
    BY <2>3, WriterAlone
  <2>4. QED
    BY <2>1, <2>2, <2>3
<1>3. ASSUME Busy(g)  PROVE UNCHANGED <<store, sdk, cached>> /\ work'[g] = work[g]
  <2>1. ~ Busy(p)
    BY <1>3 DEF OneBusy
  <2>2. CASE p \in Handlers
    <3>1. Send(p) \/ StartCheck(p)
      BY <2>1, <2>2, IdleHandler
    <3>2. QED
      BY <3>1 DEF Send, StartCheck, process
  <2>3. CASE p \in Runs
    <3>1. Release(p)
      BY <2>1, <2>3, IdleWriter
    <3>2. QED
      BY <1>1, <3>1 DEF Release, DropLocals, TypeOK
  <2>4. QED
    BY <2>2, <2>3
<1>4. QED
  BY <1>2, <1>3

----------------------------------------------------------------------------
(* Writers *)

\* Every step keeps what a writer knows.
LEMMA WritersKnowStep ==
    ASSUME IInv, HandlersKeepPlace, ProcsKeepPlace, Quiet, WritersKnow, [Next]_vars
    PROVE  WritersKnow'
<1> USE ConstantsAssumption DEF Procs, Quiet
<1>0. TypeOK /\ SingleWriter
  BY DEF IInv
<1>1. ASSUME NEW h \in Handlers, Send(h) \/ HandlerStep(h), ~ Launch(h)  PROVE WritersKnow'
  <2>1. ASSUME NEW r \in Runs, Busy(r)  PROVE UNCHANGED <<status, runState>>
    BY <1>0, <1>1, <2>1, BusyWriter DEF Send, StartCheck, sdk, store
  <2>2. ASSUME NEW r \in Runs, pc[r] = "release"  PROVE runState'[r] = runState[r]
    <3>1. CASE Send(h)
      BY <3>1 DEF Send, store
    <3>2. CASE HandlerStep(h)
      <4>1. runState[r] \notin {"none", "queued"}
        BY <2>2 DEF WritersKnow, Terminal
      <4>2. pc[h] = "boot" => runState[call[h].run] = "queued"
        BY DEF BusyRunsAreActive, Busy, RunOf
      <4>3. pc[h] # "cas"
        BY <2>2 DEF DecidersAreAlone, HandlersKeepPlace
      <4>4. QED
        BY <1>0, <3>2, <4>1, <4>2, <4>3, HandlerRows
    <3>3. QED
      BY <1>1, <3>1, <3>2
  <2>3. \A r \in Runs : pc'[r] = pc[r] /\ goal'[r] = goal[r]
    BY <1>0, <1>1, HandlerAlone
  <2>4. QED
    BY <2>1, <2>2, <2>3 DEF WritersKnow, Busy
<1>2. ASSUME NEW h \in Handlers, Launch(h)  PROVE WritersKnow'
  <2>1. UNCHANGED <<status, goal, runState>>
    BY <1>2 DEF Launch, sdk, store
  <2>2. \A r \in Runs : pc'[r] \in {pc[r], "enter"}
    BY <1>0, <1>2 DEF Launch, Answer, Goto, TypeOK
  <2>3. QED
    BY <2>1, <2>2 DEF WritersKnow
<1>3. ASSUME NEW s \in Runs, WriterStep(s)  PROVE WritersKnow'
  <2> DEFINE Knows(r) ==
        /\ pc[r] = "run" => status[r] = "running"
        /\ pc[r] \in {"returned", "conclude"} => status[r] # "paused"
        /\ pc[r] = "conclude" => goal[r] = runState[r]
        /\ pc[r] \in {"get", "cas"} => goal[r] \in Terminal \cup {"waiting_for_approval"}
        /\ pc[r] \in {"evidence", "freeze"} => goal[r] \in Terminal
        /\ pc[r] = "release" => runState[r] \in Terminal \cup {"waiting_for_approval"}
  <2>1. \A r \in Runs : r # s => pc'[r] = "idle"
    BY <1>3, WriterAlone
  <2>2. Knows(s)
    BY DEF WritersKnow
  <2> USE <1>0, <2>2 DEF TypeOK, Goto
  <2>3. Knows(s)'
    <3>1. CASE Enter(s) \/ Execute(s)
      BY <3>1 DEF Enter, Execute, store, procs
    <3>2. CASE Propose(s)
      BY <3>2 DEF Propose
    <3>3. CASE Confirm(s) \/ Proceed(s)
      BY <3>3 DEF Confirm, Proceed, store, procs
    <3>4. CASE Return(s)
      BY <3>4 DEF Return, store
    <3>5. CASE Inspect(s)
      BY <3>5 DEF Inspect, store, sdk, Terminal
    <3>6. CASE Conclude(s)
      BY <3>6 DEF Conclude, store, sdk, Resting, RestState, Outcome, Terminal
    <3>7. CASE Except(s)
      BY <3>7 DEF Except, store, sdk, Terminal
    <3>8. CASE Evidence(s) \/ Freeze(s) \/ GetRun(s)
      BY <3>8 DEF Evidence, Freeze, GetRun, store, sdk
    <3>9. CASE TransitionWriter(s)
      BY <3>9 DEF TransitionWriter, WriteRun, Target, sdk
    <3>10. CASE StaleWriter(s)
      BY <3>10 DEF StaleWriter, CasIsFresh
    <3>11. CASE Release(s)
      BY <3>11 DEF Release
    <3>12. QED
      BY <1>3, <3>1, <3>2, <3>3, <3>4, <3>5, <3>6, <3>7, <3>8, <3>9, <3>10, <3>11 DEF WriterStep
  <2>4. QED
    BY <2>1, <2>3 DEF WritersKnow
<1>4. CASE RecoverStep
  <2>1. \A p \in Procs : pc[p] = "idle" /\ pc'[p] = "idle"
    BY <1>4 DEF RecoverStep, RecoverDeny, RecoverCancel, RecoverEnd, procs, IInv, Control,
       RecoveryIsAlone
  <2>2. QED
    BY <2>1 DEF WritersKnow
<1>5. CASE Crash
  BY <1>5 DEF Crash, WritersKnow
<1>6. CASE UNCHANGED vars
  BY <1>6 DEF vars, WritersKnow
<1>7. QED
  BY <1>1, <1>2, <1>3, <1>4, <1>5, <1>6 DEF Next

----------------------------------------------------------------------------
(* Handlers *)

\* Only a writer that is at work takes an action for its run.
LEMMA OwnerFrame ==
    ASSUME IInv, [Next]_vars, NEW a \in Actions, owner'[a] # owner[a]
    PROVE  \E s \in Runs : Propose(s) /\ pc[s] = "run" /\ owner'[a] = s
<1>1. ASSUME NEW h \in Handlers,
             Approve(h) \/ ApproveCategory(h) \/ Deny(h) \/ StopDeny(h) \/ Reject(h)
      PROVE  UNCHANGED owner
  BY <1>1 DEF Approve, ApproveCategory, Deny, StopDeny, Reject, store
<1>2. ASSUME NEW r \in Runs,
             Enter(r) \/ Execute(r) \/ Proceed(r) \/ RecoverDeny(r)
      PROVE  UNCHANGED owner
  BY <1>2 DEF Enter, Execute, Proceed, RecoverDeny, store
<1>3. \E s \in Runs : Propose(s)
  BY <1>1, <1>2, ApprovalFrame
<1>4. QED
  BY <1>3 DEF Propose, IInv, TypeOK

\* What a run has proposed is a matter of its writer.
LEMMA NewStays ==
    ASSUME IInv, [Next]_vars, NEW r \in Runs, New(r), pc[r] # "run"
    PROVE  New(r)'
  BY OwnerFrame DEF New

\* A handler that has a run is the busy one.
LEMMA Decider ==
    ASSUME IInv, HandlersKeepPlace, ProcsKeepPlace, OneBusy, NEW h \in Handlers,
           call[h].op \notin {"none", "start"} \/ call[h].run \in Runs
    PROVE  Busy(h) /\ \A q \in Procs : q # h => ~ Busy(q)
<1>1. Busy(h)
  BY DEF HandlersKeepPlace, ProcsKeepPlace, HandlerPCs, Busy
<1>2. QED
  BY <1>1 DEF OneBusy, Procs

\* What handler g knows.
Knows(g) ==
    /\ pc[g] \in {"resolve", "grant", "pending", "reject"} =>
         runState[call[g].run] = "waiting_for_approval"
    /\ pc[g] = "resolve" => decision[call[g].act] = "undecided"
    /\ pc[g] = "deny" => work[g] \subseteq Undecided(call[g].run)
    /\ call[g].op \in {"start", "pause", "resume"} /\ call[g].run \in Runs => New(call[g].run)

\* A handler keeps its knowledge when another process moves.
LEMMA BystanderKnows ==
    ASSUME IInv, HandlersKeepPlace, ProcsKeepPlace, OneBusy, NEW g \in Handlers, Knows(g),
           pc'[g] = pc[g], call'[g] = call[g],
           Busy(g) => UNCHANGED <<store, sdk, cached>> /\ work'[g] = work[g]
    PROVE  Knows(g)'
<1>1. CASE Busy(g)
  BY <1>1 DEF Knows, Undecided, New, store
<1>2. CASE ~ Busy(g)
  BY <1>2, Decider DEF Knows, Busy
<1>3. QED
  BY <1>1, <1>2

\* Every step keeps what a handler knows.
LEMMA DecidersKnowStep ==
    ASSUME SerialRequests, IInv, HandlersKeepPlace, ProcsKeepPlace, Quiet, RestingRuns,
           DecidersKnow, [Next]_vars
    PROVE  DecidersKnow'
<1> USE ConstantsAssumption DEF Procs
<1>0. TypeOK /\ WellCalled /\ OneBusy /\ \A g \in Handlers : Knows(g)
  BY DEF IInv, Control, Quiet, DecidersKnow, Knows
<1>1. ASSUME NEW h \in Handlers, Send(h)  PROVE Knows(h)'
  <2>1. PICK c \in Call : /\ c.op \in Early \/ \A p \in Procs : Idle(p)
                          /\ c.op \in Offers /\ Offered(c)
                          /\ call' = [call EXCEPT ![h] = c] /\ Goto(h, FirstStep(c.op))
    BY <1>1 DEF Send
  <2>2. Serving /\ UNCHANGED <<runState, owner, decision>>
    BY <1>1 DEF Send, store
  <2>3. call'[h] = c /\ pc'[h] = FirstStep(c.op) /\ c.op \in Ops
    BY <1>0, <2>1 DEF Goto, TypeOK
  <2>4. CASE c.op = "start"
    BY <2>1, <2>3, <2>4 DEF Offered, FirstStep, Knows
  <2>5. CASE c.op \in {"approve", "approve_category", "deny"}
    <3>1. runState[c.run] = "waiting_for_approval" /\ decision[c.act] = "undecided"
      BY <2>1, <2>5 DEF Offered, Pending, Undecided
    <3>2. QED
      BY <2>2, <2>3, <2>5, <3>1 DEF FirstStep, Knows
  <2>6. CASE c.op \in {"pause", "resume", "stop"}
    <3>1. \A p \in Procs : pc[p] = "idle"
      BY <2>1, <2>6 DEF SerialRequests, Idle
    <3>2. c.op \in {"pause", "resume"} =>
            c.run \in Runs /\ runState[c.run] \in {"queued", "running", "paused"}
      BY <2>1, <2>6 DEF Offered
    <3>3. c.op \in {"pause", "resume"} => New(c.run)
      BY <2>2, <3>1, <3>2 DEF RestingRuns
    <3>4. QED
      BY <2>2, <2>3, <2>6, <3>3 DEF FirstStep, Knows, New
  <2>7. QED
    BY <2>3, <2>4, <2>5, <2>6 DEF Ops
<1>2. ASSUME NEW h \in Handlers, HandlerStep(h)  PROVE Knows(h)'
  <2> USE <1>0 DEF TypeOK, Goto, Answer, NoCall, Knows
  <2>1. CASE StartCheck(h)
    BY <2>1 DEF StartCheck, HandlersKeepPlace
  <2>2. CASE StartCreate(h)
    <3>1. PICK s \in Runs : runState[s] = "none" /\ call' = [call EXCEPT ![h].run = s]
      BY <2>2 DEF StartCreate
    <3>2. New(s)
      BY <3>1 DEF New, IInv, Control, UntouchedRunsAreQuiet, Untouched
    <3>3. pc'[h] = "boot" /\ UNCHANGED owner
      BY <2>2 DEF StartCreate
    <3>4. call'[h].run = s
      BY <3>1 DEF Call
    <3>5. QED
      BY <3>2, <3>3, <3>4 DEF New
  <2>3. CASE StartBoot(h)
    BY <2>3 DEF StartBoot, New
  <2>4. CASE Launch(h)
    BY <2>4 DEF Launch, store
  <2>5. CASE Approve(h) \/ ApproveCategory(h)
    BY <2>5 DEF Approve, ApproveCategory, HandlersKeepPlace
  <2>6. CASE Grant(h) \/ ContinueIfReady(h)
    BY <2>6 DEF Grant, ContinueIfReady, HandlersKeepPlace, store, New
  <2>7. CASE Deny(h) \/ Reject(h)
    BY <2>7 DEF Deny, Reject, HandlersKeepPlace, store
  <2>8. CASE Runtime(h) \/ Signal(h) \/ GetRun(h)
    BY <2>8 DEF Runtime, Signal, GetRun, store, New
  <2>9. CASE StopList(h)
    BY <2>9 DEF StopList, HandlersKeepPlace, store, Pending, Undecided
  <2>10. CASE StopDeny(h)
    BY <2>10 DEF StopDeny, HandlersKeepPlace, Undecided, Resolve, DropLocals
  <2>11. CASE TransitionHandler(h) \/ StaleHandler(h)
    BY <2>11 DEF TransitionHandler, StaleHandler, store, New
  <2>12. CASE Evidence(h) \/ Freeze(h)
    BY <2>12 DEF Evidence, Freeze, HandlersKeepPlace
  <2>13. QED
    BY <1>2, <2>1, <2>2, <2>3, <2>4, <2>5, <2>6, <2>7, <2>8, <2>9, <2>10, <2>11, <2>12 DEF
       HandlerStep
<1>3. ASSUME NEW h \in Handlers, Send(h) \/ HandlerStep(h)  PROVE \A g \in Handlers : Knows(g)'
  <2>1. ASSUME NEW g \in Handlers, g # h  PROVE Knows(g)'
    BY <1>0, <1>3, <2>1, Bystander, BystanderKnows
  <2>2. QED
    BY <1>1, <1>2, <1>3, <2>1
<1>4. ASSUME NEW s \in Runs, WriterStep(s)  PROVE \A g \in Handlers : Knows(g)'
  <2>1. ASSUME NEW g \in Handlers  PROVE Knows(g)'
    BY <1>0, <1>4, <2>1, Bystander, BystanderKnows
  <2>2. QED
    BY <2>1
<1>5. CASE RecoverStep
  <2>1. \A p \in Procs : pc[p] = "idle" /\ pc'[p] = "idle"
    BY <1>5 DEF RecoverStep, RecoverDeny, RecoverCancel, RecoverEnd, procs, IInv, Control,
       RecoveryIsAlone
  <2>2. UNCHANGED call
    BY <1>5 DEF RecoverStep, RecoverDeny, RecoverCancel, RecoverEnd, procs
  <2>3. QED
    BY <2>1, <2>2 DEF DecidersKnow, HandlersKeepPlace
<1>6. CASE Crash
  BY <1>6 DEF Crash, DecidersKnow, NoCall
<1>7. CASE UNCHANGED vars
  BY <1>7 DEF vars, DecidersKnow, New, Undecided
<1>8. QED
  BY <1>3, <1>4, <1>5, <1>6, <1>7 DEF Next, DecidersKnow, Knows

----------------------------------------------------------------------------
(* Rows *)

\* A writer writes its own row only, to wait or to end.
LEMMA WriterRows ==
    ASSUME IInv, WritersKnow, NEW s \in Runs, WriterStep(s), NEW r \in Runs,
           runState'[r] # runState[r]
    PROVE  /\ r = s /\ pc[s] \in {"run", "cas"}
           /\ runState'[s] \in Terminal \cup {"waiting_for_approval"}
<1> USE DEF IInv, TypeOK
<1>1. CASE Walks(s)
  BY <1>1 DEF Walks
<1>2. CASE Propose(s)
  BY <1>2 DEF Propose, WriteRun
<1>3. CASE TransitionWriter(s)
  BY <1>3 DEF TransitionWriter, WriteRun, Target, WritersKnow
<1>4. QED
  BY <1>1, <1>2, <1>3, WriterWalks

\* A run that has ended stays so.
LEMMA EndedStays ==
    ASSUME IInv, HandlersKeepPlace, Quiet, WritersKnow, [Next]_vars,
           NEW r \in Runs, runState[r] \in Terminal
    PROVE  runState'[r] = runState[r]
<1> USE ConstantsAssumption DEF Procs
<1>0. TypeOK /\ runState[r] \notin Active \cup {"none"}
  BY DEF IInv, Terminal, Active
<1>1. ASSUME NEW h \in Handlers, HandlerStep(h)  PROVE runState'[r] = runState[r]
  BY <1>0, <1>1, HandlerRows DEF Quiet, BusyRunsAreActive, Busy, RunOf, Active
<1>2. ASSUME NEW s \in Runs, WriterStep(s)  PROVE runState'[r] = runState[r]
  BY <1>0, <1>2, WriterRows DEF Quiet, BusyRunsAreActive, Busy, RunOf, Active
<1>3. CASE RecoverStep
  BY <1>0, <1>3 DEF RecoverStep, RecoverDeny, RecoverCancel, RecoverEnd, store, WriteRun, TypeOK
<1>4. CASE Crash \/ UNCHANGED vars \/ \E h \in Handlers : Send(h)
  BY <1>4 DEF Crash, vars, Send, store
<1>5. QED
  BY <1>1, <1>2, <1>3, <1>4 DEF Next

\* What holds of a run between its steps.
Rests(r) ==
    /\ runState[r] \in {"queued", "paused"} => New(r)
    /\ runState[r] = "running" /\ Serving =>
          \/ New(r)
          \/ pc[r] # "idle"
          \/ \E h \in Handlers : pc[h] = "launch" /\ call[h].run = r

\* Every step keeps runs without a writer new, unless they wait or have ended.
LEMMA RestingStep ==
    ASSUME IInv, HandlersKeepPlace, ProcsKeepPlace, Quiet, WritersKnow, DecidersKnow, RestingRuns,
           [Next]_vars, NEW r \in Runs
    PROVE  Rests(r)'
<1> USE ConstantsAssumption DEF Procs
<1>0. TypeOK /\ WellCalled /\ OneBusy /\ Rests(r) /\ SingleWriter
  BY DEF IInv, Control, Quiet, RestingRuns, Rests
<1>1. ASSUME NEW h \in Handlers, HandlerStep(h), ~ Launch(h)  PROVE Rests(r)'
  <2>1. UNCHANGED <<owner, phase>> /\ pc'[r] = pc[r]
    <3>1. UNCHANGED owner
      BY ZenonT(60), <1>1 DEF HandlerStep, StartCheck, StartCreate, StartBoot, Approve,
         ApproveCategory, Grant, ContinueIfReady, Deny, Reject, Runtime, Signal, StopList,
         StopDeny, TransitionHandler, StaleHandler, Evidence, Freeze, GetRun, store
    <3>2. QED
      BY <1>0, <1>1, <3>1, HandlerAlone
  <2>2. New(r) => New(r)'
    BY <2>1 DEF New
  <2>3. CASE runState'[r] = runState[r]
    <3>1. ASSUME NEW g \in Handlers, pc[g] = "launch", call[g].run = r
          PROVE  pc'[g] = "launch" /\ call'[g].run = r
      <4>1. CASE g # h
        BY <1>0, <1>1, <3>1, <4>1, HandlerAlone
      <4>2. CASE g = h
        BY <1>1, <3>1, <4>2 DEF HandlerStep, StartCheck, StartCreate, StartBoot, Approve,
           ApproveCategory, Grant, ContinueIfReady, Deny, Reject, Runtime, Signal, StopList,
           StopDeny, TransitionHandler, StaleHandler, Evidence, Freeze, GetRun
      <4>3. QED
        BY <4>1, <4>2
    <3>2. QED
      BY <1>0, <2>1, <2>2, <2>3, <3>1 DEF Rests, Serving
  <2>4. CASE pc[h] = "create" /\ runState[r] = "none"
    BY <2>2, <2>4 DEF IInv, Control, UntouchedRunsAreQuiet, Untouched, New, Rests
  <2>5. CASE pc[h] = "boot" /\ call[h].run = r
    <3>1. New(r)
      BY <2>5 DEF DecidersKnow, HandlersKeepPlace
    <3>2. QED
      BY <2>2, <3>1 DEF Rests
  <2>6. CASE pc[h] = "cas" /\ call[h].run = r /\ runState'[r] = Target(h)
    <3>1. TransitionHandler(h)
      BY <1>1, <2>6 DEF HandlerStep, StartCheck, StartCreate, StartBoot, Approve, ApproveCategory,
         Grant, ContinueIfReady, Deny, Reject, Runtime, Signal, StopList, StopDeny, Launch,
         StaleHandler, Evidence, Freeze, GetRun, Quiet, CasIsFresh
    <3>2. CASE Target(h) = "running"
      BY <1>0, <2>6, <3>1, <3>2 DEF TransitionHandler, Goto, Rests, TypeOK
    <3>3. CASE Target(h) = "paused"
      <4>1. call[h].op = "pause"
        BY <3>3 DEF Target
      <4>2. QED
        BY <2>2, <2>6, <3>3, <4>1 DEF DecidersKnow, Rests
    <3>4. CASE Target(h) = "cancelled"
      BY <2>6, <3>4 DEF Rests
    <3>5. QED
      BY <3>2, <3>3, <3>4 DEF Target
  <2>7. QED
    BY <1>0, <1>1, <2>3, <2>4, <2>5, <2>6, HandlerRows
<1>2. ASSUME NEW h \in Handlers, Launch(h)  PROVE Rests(r)'
  <2>1. /\ pc[h] = "launch" /\ Busy(h) /\ call[h].run \in Runs
        /\ UNCHANGED <<runState, owner, phase>>
    BY <1>0, <1>2 DEF Launch, store, Busy, WellCalled
  <2>2. \A g \in Handlers : pc[g] = "launch" => g = h
    BY <1>0, <2>1 DEF OneBusy, Busy
  <2>3. CASE locked
    <3>1. \E s \in Runs : pc[s] # "idle"
      BY <1>0, <2>3 DEF SingleWriter
    <3>2. call[h].op = "start"
      BY <2>1, <3>1 DEF Quiet, DecidersAreAlone, HandlersKeepPlace
    <3>3. New(call[h].run)
      BY <2>1, <3>2 DEF DecidersKnow
    <3>4. pc'[r] = pc[r]
      BY <1>0, <1>2, <2>3 DEF Launch, Answer, Goto, TypeOK
    <3>5. QED
      BY <1>0, <2>1, <2>2, <3>3, <3>4 DEF Rests, New, Serving
  <2>4. CASE ~ locked
    <3>1. pc' = [pc EXCEPT ![h] = "idle", ![call[h].run] = "enter"]
      BY <1>2, <2>4 DEF Launch
    <3>2. pc'[r] = IF r = call[h].run THEN "enter" ELSE pc[r]
      BY <1>0, <3>1 DEF TypeOK
    <3>3. QED
      BY <1>0, <2>1, <2>2, <3>2 DEF Rests, New, Serving
  <2>5. QED
    BY <2>3, <2>4
<1>3. ASSUME NEW s \in Runs, WriterStep(s)  PROVE Rests(r)'
  <2>1. /\ pc[s] # "idle" /\ UNCHANGED <<call, phase>>
        /\ \A q \in Procs : q # s => pc'[q] = pc[q]
    BY <1>3, WriterAlone
  <2>2. CASE r # s
    <3>1. pc[r] = "idle" /\ runState'[r] = runState[r]
      BY <1>3, <2>2, WriterAlone, WriterRows
    <3>2. New(r) => New(r)'
      BY <3>1, NewStays
    <3>3. \A h \in Handlers : pc'[h] = pc[h]
      BY <2>1
    <3>4. QED
      BY <1>0, <2>1, <2>2, <3>1, <3>2, <3>3 DEF Rests, Serving
  <2>3. CASE r = s
    <3>1. CASE runState'[s] # runState[s]
      BY <1>3, <2>3, <3>1, WriterRows DEF Rests, Terminal
    <3>2. CASE runState'[s] = runState[s] /\ runState[s] \in {"queued", "paused"}
      <4>1. pc[s] # "run"
        BY <3>2 DEF Quiet, BusyRunsAreActive, Busy, RunOf
      <4>2. QED
        BY <1>0, <2>3, <3>2, <4>1, NewStays DEF Rests
    <3>3. CASE runState'[s] = runState[s] /\ runState[s] = "running"
      <4>1. pc[s] # "release"
        BY <3>3 DEF WritersKnow, Terminal
      <4>2. pc'[s] # "idle"
        BY <1>0, <1>3, <4>1 DEF WriterStep, Enter, Execute, Propose, Confirm, Proceed, Return,
           Inspect, Conclude, Except, TransitionWriter, StaleWriter, Evidence, Freeze, GetRun,
           Release, Goto, procs, TypeOK
      <4>3. QED
        BY <2>3, <3>3, <4>2 DEF Rests
    <3>4. QED
      BY <2>3, <3>1, <3>2, <3>3 DEF Rests
  <2>4. QED
    BY <2>2, <2>3
<1>4. ASSUME NEW h \in Handlers, Send(h)  PROVE Rests(r)'
  <2>1. pc[h] = "idle" /\ UNCHANGED <<runState, owner, phase>> /\ pc'[r] = pc[r]
    BY <1>0, <1>4 DEF Send, store, process, Goto, Idle, TypeOK
  <2>2. \A g \in Handlers : g # h => pc'[g] = pc[g] /\ call'[g] = call[g]
    BY <1>0, <1>4 DEF Send, Goto, TypeOK
  <2>3. QED
    BY <1>0, <2>1, <2>2 DEF Rests, New, Serving
<1>5. CASE RecoverStep
  <2>1. \A q \in Runs : runState'[q] \in {runState[q], "cancelled"}
    BY <1>0, <1>5 DEF RecoverStep, RecoverDeny, RecoverCancel, RecoverEnd, store, WriteRun, TypeOK
  <2>2. UNCHANGED owner
    BY <1>5 DEF RecoverStep, RecoverDeny, RecoverCancel, RecoverEnd, store
  <2>3. UNCHANGED phase \/ \A q \in Runs : runState'[q] \notin Active
    BY <1>5 DEF RecoverStep, RecoverDeny, RecoverCancel, RecoverEnd, store, process
  <2>4. phase = "recovering"
    BY <1>5 DEF RecoverStep, RecoverDeny, RecoverCancel, RecoverEnd
  <2>5. QED
    BY <1>0, <2>1, <2>2, <2>3, <2>4 DEF Rests, New, Serving, Active
<1>6. CASE Crash
  BY <1>0, <1>6 DEF Crash, store, Rests, New, Serving
<1>7. CASE UNCHANGED vars
  BY <1>0, <1>7 DEF vars, Rests, New, Serving
<1>8. QED
  BY <1>1, <1>2, <1>3, <1>4, <1>5, <1>6, <1>7 DEF Next

----------------------------------------------------------------------------
(* Authority *)

\* What may run may run for good.
LEMMA AuthorizedStays ==
    ASSUME IInv, [Next]_vars, NEW a \in Actions, progress[a] # "unseen", Authorized(a)
    PROVE  Authorized(a)'
<1>1. owner[a] \in Runs /\ owner'[a] = owner[a]
  BY OwnerStep DEF IInv, ProposedOnce
<1>2. grants[owner[a]] \subseteq grants'[owner[a]]
  BY <1>1, GrantsGrow DEF IInv
<1>3. decision[a] = "approve" => decision'[a] = "approve"
  BY DecisionStep DEF IInv
<1>4. QED
  BY <1>1, <1>2, <1>3 DEF Authorized

\* An action takes no step back, and reaches its tool only from a proposal.
LEMMA ProgressFrame ==
    ASSUME IInv, [Next]_vars, NEW a \in Actions, progress'[a] # progress[a]
    PROVE  \/ \E h \in Handlers : /\ Reject(h)
                                  /\ progress[a] = "proposed" /\ progress'[a] = "rejected"
           \/ \E r \in Runs : /\ Enter(r) \/ Proceed(r)
                              /\ a \in Proposed(r) /\ progress'[a] = "released"
           \/ \E r \in Runs : /\ Execute(r)
                              /\ progress[a] = "released" /\ progress'[a] = "done"
           \/ \E r \in Runs : /\ Propose(r) /\ progress[a] = "unseen" /\ progress'[a] = "proposed"
                              /\ owner'[a] = r
                              /\ NeedsApproval(r, a) => decision'[a] = "undecided"
                              /\ ~ NeedsApproval(r, a) => decision'[a] = decision[a]
<1> USE DEF IInv, TypeOK
<1>1. ASSUME NEW h \in Handlers, Approve(h) \/ ApproveCategory(h) \/ Deny(h) \/ StopDeny(h)
      PROVE  UNCHANGED progress
  BY <1>1 DEF Approve, ApproveCategory, Deny, StopDeny, sdk
<1>2. ASSUME NEW h \in Handlers, Reject(h)
      PROVE  progress[a] = "proposed" /\ progress'[a] = "rejected"
  BY <1>2 DEF Reject, Proposed
<1>3. ASSUME NEW r \in Runs, Enter(r) \/ Proceed(r)
      PROVE  a \in Proposed(r) /\ progress'[a] = "released"
  BY <1>3 DEF Enter, Proceed
<1>4. ASSUME NEW r \in Runs, Execute(r)
      PROVE  progress[a] = "released" /\ progress'[a] = "done"
  BY <1>4 DEF Execute, Released
<1>5. ASSUME NEW r \in Runs, Propose(r)
      PROVE  /\ progress[a] = "unseen" /\ progress'[a] = "proposed" /\ owner'[a] = r
             /\ NeedsApproval(r, a) => decision'[a] = "undecided"
             /\ ~ NeedsApproval(r, a) => decision'[a] = decision[a]
  BY <1>5 DEF Propose
<1>6. ASSUME NEW r \in Runs, RecoverDeny(r)  PROVE UNCHANGED progress
  BY <1>6 DEF RecoverDeny, sdk
<1>7. QED
  BY <1>1, <1>2, <1>3, <1>4, <1>5, <1>6, ApprovalFrame

\* An action that its run proposed and nobody needs to decide may run.
LEMMA PassedIsAuthorized ==
    ASSUME IInv, NEW r \in Runs, NEW a \in Actions, owner[a] = r, ~ NeedsApproval(r, a)
    PROVE  Authorized(a)
  BY DEF IInv, GrantsComeFromApprovals, NeedsApproval, GrantApplies, Authorized

\* Every step keeps what ran to what might run.
LEMMA ExecutionStep ==
    ASSUME SerialRequests, IInv, ContinuedIsAuthorized, NoUnapprovedExecution, [Next]_vars
    PROVE  NoUnapprovedExecution'
<1>1. SUFFICES ASSUME NEW a \in Actions \ Routine, progress'[a] \in {"released", "done"}
               PROVE  decision'[a] = "approve" \/ Category[a] \in grants'[owner'[a]]
  BY DEF NoUnapprovedExecution
<1>2. Authorized(a) /\ progress[a] # "unseen"
  <2>1. CASE progress[a] \in {"released", "done"}
    BY <2>1 DEF NoUnapprovedExecution, Authorized
  <2>2. CASE progress[a] \notin {"released", "done"}
    <3>1. PICK r \in Runs : (Enter(r) \/ Proceed(r)) /\ a \in Proposed(r)
      BY <1>1, <2>2, ProgressFrame
    <3>2. owner[a] = r /\ progress[a] = "proposed"
      BY <3>1 DEF Proposed, SerialRequests
    <3>3. CASE Enter(r)
      BY <3>1, <3>2, <3>3 DEF Enter, ContinuedIsAuthorized, Continues, RunOf, Procs
    <3>4. CASE Proceed(r)
      BY <3>1, <3>2, <3>4, PassedIsAuthorized DEF Proceed
    <3>5. QED
      BY <3>1, <3>2, <3>3, <3>4
  <2>3. QED
    BY <2>1, <2>2
<1>3. QED
  BY <1>1, <1>2, AuthorizedStays DEF Authorized

\* A run has proposed nothing, so that nothing of it could be refused.
LEMMA NewHasNothing ==
    ASSUME SerialRequests, NEW r \in Runs, New(r)
    PROVE  Proposed(r) = {}
  BY DEF New, Proposed, SerialRequests

\* A waiting run whose requests are all decided goes on with what may run.
LEMMA DecidedIsAuthorized ==
    ASSUME SerialRequests, IInv, HandlersKeepPlace, ProcsKeepPlace, Quiet, DeniedIsDropped,
           NEW h \in Handlers, pc[h] = "pending", NEW r \in Runs, r = call[h].run,
           runState[r] = "waiting_for_approval", Undecided(r) = {},
           NEW a \in Proposed(r)
    PROVE  Authorized(a)
<1>1. a \in Actions /\ progress[a] = "proposed" /\ owner[a] = r
  BY DEF Proposed, SerialRequests
<1>2. decision[a] \in {"none", "approve", "deny"}
  BY <1>1 DEF Undecided, IInv, TypeOK, Decisions
<1>3. CASE decision[a] = "none"
  BY <1>1, <1>3 DEF IInv, UnaskedWasGranted, Authorized
<1>4. CASE decision[a] = "deny"
  <2>1. phase # "recovering" /\ runState[r] \notin Terminal
    BY DEF IInv, Control, RecoveryIsAlone, Terminal, Procs
  <2>2. PICK g \in Handlers : call[g].run = r /\ (pc[g] = "reject" \/ call[g].op = "stop")
    BY <1>1, <1>4, <2>1 DEF DeniedIsDropped
  <2>3. Busy(g) /\ Busy(h)
    BY <2>2, Decider DEF Quiet, Busy
  <2>4. g = h
    BY <2>3 DEF Quiet, OneBusy, Procs
  <2>5. QED
    BY <2>2, <2>4 DEF HandlersKeepPlace
<1>5. QED
  BY <1>2, <1>3, <1>4 DEF Authorized

\* Everything that the run of process p has proposed may run.
Cleared(p) == \A a \in Proposed(RunOf(p)) : Authorized(a)

\* It stays so while the run is handed from one process to another and its writer rests.
LEMMA ClearedStays ==
    ASSUME SerialRequests, IInv, [Next]_vars, NEW p \in Procs, NEW q \in Procs,
           RunOf(q)' = RunOf(p), pc[RunOf(p)] # "run", RunOf(p) \in Runs, Cleared(p)
    PROVE  Cleared(q)'
<1> DEFINE r == RunOf(p)
<1>1. SUFFICES ASSUME NEW a \in Actions, progress'[a] = "proposed", owner'[a] = r
               PROVE  Authorized(a)'
  BY DEF Cleared, Proposed, SerialRequests
<1>2. owner[a] = r
  BY <1>1, OwnerFrame
<1>3. progress[a] = "proposed"
  BY <1>1, <1>2, ProgressFrame, ConstantsAssumption DEF IInv, ProposedOnce
<1>4. Authorized(a)
  BY <1>2, <1>3 DEF Cleared, Proposed
<1>5. QED
  BY <1>3, <1>4, AuthorizedStays

\* Every step keeps a run from going on with what may not run.
LEMMA ContinuedStep ==
    ASSUME SerialRequests, IInv, HandlersKeepPlace, ProcsKeepPlace, Quiet, DecidersKnow,
           DeniedIsDropped, ContinuedIsAuthorized, [Next]_vars,
           IInv', HandlersKeepPlace', ProcsKeepPlace', DecidersKnow'
    PROVE  ContinuedIsAuthorized'
<1> USE ConstantsAssumption DEF Procs
<1>0. TypeOK /\ WellCalled /\ OneBusy
  BY DEF IInv, Control, Quiet
<1>1. SUFFICES ASSUME NEW p \in Procs, Continues(p)'  PROVE Cleared(p)'
  BY DEF ContinuedIsAuthorized, Cleared
<1>2. CASE Continues(p) /\ RunOf(p)' = RunOf(p)
  <2>1. Busy(p) /\ pc[p] \notin {"create", "run"} /\ Cleared(p)
    BY <1>2 DEF Continues, Busy, ContinuedIsAuthorized, Cleared
  <2>2. RunOf(p) \in Runs
    BY <2>1, BusyHasRun
  <2>3. pc[RunOf(p)] # "run"
    BY <1>0, <2>1, <2>2 DEF OneBusy, Busy
  <2>4. QED
    BY <1>2, <2>1, <2>2, <2>3, ClearedStays
<1>3. CASE p \in Handlers /\ call'[p].op \in {"start", "resume"}
  <2>1. call'[p].run \in Runs /\ RunOf(p)' = call'[p].run
    BY <1>1, <1>3 DEF Continues, IInv, Control, WellCalled, RunOf
  <2>2. New(RunOf(p))'
    BY <1>3, <2>1 DEF DecidersKnow
  <2>3. QED
    BY <2>2 DEF New, Proposed, SerialRequests, Cleared
<1>4. ASSUME NEW h \in Handlers, HandlerStep(h), ~ Launch(h)  PROVE Cleared(p)'
  <2>1. CASE p # h
    <3>1. pc'[p] = pc[p] /\ (p \in Handlers => call'[p] = call[p])
      BY <1>0, <1>4, <2>1, HandlerAlone
    <3>2. QED
      BY <1>1, <1>2, <3>1 DEF Continues, Target, RunOf
  <2>2. CASE p = h /\ ContinueIfReady(h)
    <3>1. /\ pc[h] = "pending" /\ Pending(call[h].run) = {} /\ call' = call /\ pc'[h] = "runtime"
          /\ UNCHANGED <<store, sdk>>
      BY <1>0, <1>1, <2>2 DEF ContinueIfReady, Answer, Goto, TypeOK, Continues
    <3>2. /\ call[h].run \in Runs /\ runState[call[h].run] = "waiting_for_approval"
          /\ Undecided(call[h].run) = {}
      BY <1>0, <3>1 DEF WellCalled, DecidersKnow, Pending
    <3>3. RunOf(h) = call[h].run /\ RunOf(h)' = call[h].run
      BY <3>1 DEF RunOf
    <3>4. Cleared(h)
      BY <3>1, <3>2, <3>3, DecidedIsAuthorized DEF Cleared
    <3>5. pc[call[h].run] # "run"
      BY <1>0, <3>1, <3>2 DEF OneBusy, Busy
    <3>6. QED
      BY <2>2, <3>2, <3>3, <3>4, <3>5, ClearedStays
  <2>3. CASE p = h /\ Reject(h)
    <3>1. /\ UNCHANGED <<owner, call>>
          /\ progress' = [a \in Actions |->
                            IF a \in Proposed(call[h].run) THEN "rejected" ELSE progress[a]]
      BY <2>3 DEF Reject, store
    <3>2. RunOf(h)' = call[h].run
      BY <3>1 DEF RunOf
    <3>3. Proposed(RunOf(h))' = {}
      BY <1>0, <3>1, <3>2 DEF Proposed, SerialRequests, TypeOK
    <3>4. QED
      BY <2>3, <3>3 DEF Cleared
  <2>4. CASE p = h /\ ~ ContinueIfReady(h) /\ ~ Reject(h)
    <3>1. pc'[h] \in {"runtime", "get", "cas", "launch"} /\ Target(h)' = "running"
      BY <1>1, <2>4 DEF Continues, ProcsKeepPlace, HandlerPCs
    <3>2. call'[h].op \notin {"pause", "stop"}
      BY <3>1, <2>4 DEF Target
    <3>3. CASE StartCheck(h) \/ StartCreate(h) \/ StartBoot(h) \/ Approve(h) \/ ApproveCategory(h)
               \/ Grant(h) \/ Deny(h) \/ StaleHandler(h)
      BY <1>0, <1>3, <2>4, <3>1, <3>3 DEF StartCheck, StartCreate, StartBoot, Approve,
         ApproveCategory, Grant, Deny, StaleHandler, Goto, Answer, TypeOK, HandlersKeepPlace
    <3>4. CASE Signal(h) \/ StopList(h) \/ StopDeny(h) \/ Evidence(h) \/ Freeze(h)
      BY <1>0, <2>4, <3>1, <3>2, <3>4 DEF Signal, StopList, StopDeny, Evidence, Freeze, Goto,
         Answer, TypeOK, HandlersKeepPlace
    <3>5. CASE Runtime(h) \/ GetRun(h) \/ TransitionHandler(h)
      <4>1. pc[h] \in {"runtime", "get", "cas"} /\ call'[h] = call[h]
        BY <1>0, <3>1, <3>5 DEF Runtime, GetRun, TransitionHandler, Answer, Goto, TypeOK
      <4>2. QED
        BY <1>2, <2>4, <3>1, <4>1 DEF Continues, Target, RunOf
    <3>6. QED
      BY <1>4, <2>4, <3>3, <3>4, <3>5 DEF HandlerStep
  <2>5. QED
    BY <2>1, <2>2, <2>3, <2>4
<1>5. ASSUME NEW h \in Handlers, Launch(h)  PROVE Cleared(p)'
  <2>1. pc[h] = "launch" /\ Busy(h) /\ call[h].run \in Runs /\ RunOf(h) = call[h].run
    BY <1>0, <1>5 DEF Launch, Busy, WellCalled, RunOf
  <2>2. pc'[h] = "idle" /\ \A g \in Handlers : g # h => pc'[g] = pc[g] /\ call'[g] = call[g]
    BY <1>0, <1>5, <2>1 DEF Launch, Answer, Goto, TypeOK
  <2>3. \A r \in Runs : pc'[r] = pc[r] \/ r = call[h].run
    BY <1>0, <1>5, <2>1 DEF Launch, Answer, Goto, TypeOK
  <2>4. CASE p = call[h].run
    <3>1. Continues(h) /\ Cleared(h)
      BY <2>1 DEF Continues, Target, HandlersKeepPlace, ContinuedIsAuthorized, Cleared
    <3>2. pc[call[h].run] # "run" /\ RunOf(p)' = RunOf(h)
      BY <1>0, <2>1, <2>4 DEF OneBusy, Busy, RunOf
    <3>3. QED
      BY <2>1, <3>1, <3>2, ClearedStays
  <2>5. CASE p # call[h].run
    BY <1>1, <1>2, <2>1, <2>2, <2>3, <2>5 DEF Continues, Target, RunOf
  <2>6. QED
    BY <2>4, <2>5
<1>6. ASSUME NEW s \in Runs, WriterStep(s)  PROVE Cleared(p)'
  <2>1. pc'[s] # "enter"
    BY <1>0, <1>6 DEF WriterStep, Enter, Execute, Propose, Confirm, Proceed, Return, Inspect,
       Conclude, Except, TransitionWriter, StaleWriter, Evidence, Freeze, GetRun, Release, Goto,
       procs, TypeOK
  <2>2. UNCHANGED call /\ \A q \in Procs : q # s => pc'[q] = pc[q]
    BY <1>6, WriterAlone
  <2>3. QED
    BY <1>1, <1>2, <2>1, <2>2 DEF Continues, Target, RunOf
<1>7. ASSUME NEW h \in Handlers, Send(h)  PROVE Cleared(p)'
  <2>1. CASE p # h
    <3>1. pc'[p] = pc[p] /\ (p \in Handlers => call'[p] = call[p])
      BY <1>0, <1>7, <2>1, HandlerAlone DEF Send, Launch, Idle
    <3>2. QED
      BY <1>1, <1>2, <3>1 DEF Continues, Target, RunOf
  <2>2. CASE p = h
    <3>1. PICK c \in Call : call'[h] = c /\ pc'[h] = FirstStep(c.op)
      BY <1>0, <1>7 DEF Send, Goto, TypeOK
    <3>2. pc'[h] = "runtime" => call'[h].op = "resume"
      BY <3>1 DEF FirstStep
    <3>3. pc'[h] \in {"check", "resolve", "runtime", "signal"}
      BY <3>1 DEF FirstStep
    <3>4. QED
      BY <1>1, <1>3, <2>2, <3>2, <3>3 DEF Continues
  <2>3. QED
    BY <2>1, <2>2
<1>8. CASE Crash
  BY <1>1, <1>8 DEF Crash, Continues
<1>9. CASE RecoverStep
  <2>1. pc'[p] = "idle"
    BY <1>9 DEF RecoverStep, RecoverDeny, RecoverCancel, RecoverEnd, procs, IInv, Control,
       RecoveryIsAlone
  <2>2. QED
    BY <1>1, <2>1 DEF Continues
<1>10. CASE UNCHANGED vars
  BY <1>1, <1>2, <1>10 DEF vars, Continues, Target, RunOf
<1>11. QED
  BY <1>4, <1>5, <1>6, <1>7, <1>8, <1>9, <1>10 DEF Next

\* Every step keeps what was denied from being taken up again.
LEMMA DeniedStep ==
    ASSUME SerialRequests, IInv, HandlersKeepPlace, ProcsKeepPlace, Quiet, WritersKnow,
           DecidersKnow,
           DeniedIsDropped, [Next]_vars
    PROVE  DeniedIsDropped'
<1> USE ConstantsAssumption DEF Procs
<1>0. TypeOK /\ OneBusy
  BY DEF IInv, Quiet
<1>1. SUFFICES ASSUME NEW a \in Actions, progress'[a] = "proposed", decision'[a] = "deny"
               PROVE  \/ runState'[owner'[a]] \in Terminal
                      \/ phase' = "recovering"
                      \/ \E h \in Handlers : /\ call'[h].run = owner'[a]
                                             /\ pc'[h] = "reject" \/ call'[h].op = "stop"
  BY DEF DeniedIsDropped
<1>2. progress[a] = "proposed"
  BY <1>1, ProgressFrame DEF IInv, ProposedOnce
<1>3. owner[a] \in Runs /\ owner'[a] = owner[a]
  BY <1>2, OwnerStep DEF IInv, ProposedOnce
<1>4. CASE decision[a] # "deny"
  <2>1. CASE \E h \in Handlers : Deny(h)
    <3>1. PICK h \in Handlers : Deny(h)
      BY <2>1
    <3>2. /\ a \in Undecided(owner[call[h].act])
          /\ pc[h] = "resolve" /\ pc'[h] = "reject" /\ call' = call
      BY <1>0, <1>1, <1>4, <3>1 DEF Deny, Resolve, Goto, Answer, TypeOK
    <3>3. owner[a] = call[h].run
      BY <3>2 DEF Undecided, IInv, Control, GrantsInHand
    <3>4. QED
      BY <1>3, <3>2, <3>3
  <2>2. CASE \E h \in Handlers : StopDeny(h)
    <3>1. PICK h \in Handlers : StopDeny(h)
      BY <2>2
    <3>2. a \in work[h] /\ pc[h] = "deny" /\ call' = call
      BY <1>0, <1>1, <1>4, <3>1 DEF StopDeny, Resolve
    <3>3. owner[a] = call[h].run /\ call[h].op = "stop"
      BY <3>2 DEF Undecided, DecidersKnow, HandlersKeepPlace
    <3>4. QED
      BY <1>3, <3>2, <3>3
  <2>3. CASE \E r \in Runs : RecoverDeny(r)
    BY <2>3 DEF RecoverDeny, process
  <2>4. ASSUME NEW h \in Handlers, Approve(h) \/ ApproveCategory(h) \/ Reject(h)  PROVE FALSE
    BY <1>1, <1>4, <2>4 DEF Approve, ApproveCategory, Reject, Resolve, store
  <2>5. ASSUME NEW r \in Runs, Enter(r) \/ Execute(r) \/ Propose(r) \/ Proceed(r)  PROVE FALSE
    BY <1>0, <1>1, <1>2, <1>4, <2>5 DEF Enter, Execute, Propose, Proceed, store, TypeOK
  <2>6. QED
    BY <1>1, <1>4, <2>1, <2>2, <2>3, <2>4, <2>5, ApprovalFrame
<1>5. CASE decision[a] = "deny" /\ runState[owner[a]] \in Terminal
  BY <1>3, <1>5, EndedStays
<1>6. CASE decision[a] = "deny" /\ phase = "recovering"
  <2>1. CASE RecoverEnd
    <3>1. runState[owner[a]] # "none"
      BY <1>3 DEF IInv, Control, UntouchedRunsAreQuiet, Untouched
    <3>2. runState[owner[a]] \in Terminal
      BY <1>0, <1>3, <2>1, <3>1 DEF RecoverEnd, TypeOK, RunStates, Terminal
    <3>3. QED
      BY <1>3, <2>1, <3>2 DEF RecoverEnd, store
  <2>2. CASE ~ RecoverEnd
    <3>1. \A p \in Procs : pc[p] = "idle"
      BY <1>6 DEF IInv, Control, RecoveryIsAlone
    <3>2. \A h \in Handlers : ~ HandlerStep(h)
      BY <3>1, IdleHandler DEF Busy, StartCheck
    <3>3. \A r \in Runs : ~ WriterStep(r)
      BY <3>1, IdleWriter DEF Busy, Release
    <3>4. QED
      BY <1>6, <2>2, <3>2, <3>3 DEF Next, Send, Serving, Crash, RecoverStep, RecoverDeny,
         RecoverCancel, process, vars
  <2>3. QED
    BY <2>1, <2>2
<1>7. ASSUME NEW g \in Handlers, call[g].run = owner[a], pc[g] = "reject" \/ call[g].op = "stop"
      PROVE  \/ runState'[owner'[a]] \in Terminal
             \/ phase' = "recovering"
             \/ call'[g].run = owner'[a] /\ (pc'[g] = "reject" \/ call'[g].op = "stop")
  <2>1. Busy(g)
    BY <1>3, <1>7, Decider, <1>0
  <2>2. CASE HandlerStep(g)
    <3>1. CASE pc[g] = "reject"
      <4>1. Reject(g)
        BY <2>2, <3>1 DEF HandlerStep, StartCheck, StartCreate, StartBoot, Approve,
           ApproveCategory, Grant, ContinueIfReady, Deny, Runtime, Signal, StopList, StopDeny,
           Launch, TransitionHandler, StaleHandler, Evidence, Freeze, GetRun
      <4>2. a \in Proposed(call[g].run)
        BY <1>2, <1>7 DEF Proposed
      <4>3. QED
        BY <1>1, <4>1, <4>2 DEF Reject
    <3>2. CASE call[g].op = "stop"
      <4>1. pc[g] \in {"signal", "list", "deny", "evidence", "freeze", "get", "cas"}
        BY <2>1, <3>2 DEF HandlersKeepPlace, ProcsKeepPlace, HandlerPCs, Busy
      <4>2. CASE TransitionHandler(g)
        BY <1>0, <1>3, <1>7, <3>2, <4>2 DEF TransitionHandler, WriteRun, Target, TypeOK, Terminal
      <4>3. CASE ~ TransitionHandler(g)
        <5>1. UNCHANGED call
          BY <2>2, <4>1, <4>3 DEF HandlerStep, StartCheck, StartCreate, StartBoot, Approve,
             ApproveCategory, Grant, ContinueIfReady, Deny, Reject, Runtime, Signal, StopList,
             StopDeny, Launch, StaleHandler, Evidence, Freeze, GetRun, Quiet, CasIsFresh,
             DecidersKnow, Undecided
        <5>2. QED
          BY <1>3, <1>7, <3>2, <5>1
      <4>4. QED
        BY <4>2, <4>3
    <3>3. QED
      BY <1>7, <3>1, <3>2
  <2>3. CASE \/ \E p \in Handlers \ {g} : Send(p) \/ HandlerStep(p)
             \/ \E s \in Runs : WriterStep(s)
    BY <1>0, <1>3, <1>7, <2>3, Bystander
  <2>4. CASE Crash
    BY <2>4 DEF Crash
  <2>5. CASE RecoverStep \/ UNCHANGED vars
    BY <1>3, <1>7, <2>5 DEF RecoverStep, RecoverDeny, RecoverCancel, RecoverEnd, procs, vars
  <2>6. ~ Send(g)
    BY <2>1 DEF Send, Idle, Busy
  <2>7. QED
    BY <2>2, <2>3, <2>4, <2>5, <2>6 DEF Next
<1>8. QED
  BY <1>2, <1>4, <1>5, <1>6, <1>7 DEF DeniedIsDropped

----------------------------------------------------------------------------
(* Waiting runs *)

\* Somebody can end the wait of run r.
Waits(r) ==
    runState[r] = "waiting_for_approval" /\ Serving =>
        \/ Undecided(r) # {}
        \/ pc[r] \notin {"idle", "release"}
        \/ \E h \in Handlers : call[h].run = r

\* Its writer does not leave run r waiting without a request to decide.
Asks(r) ==
    /\ pc[r] = "run" => \A a \in Proposed(r) \ Routine :
            decision[a] = "undecided" \/ GrantApplies(r, a)
    /\ pc[r] \in {"returned", "conclude"} /\ status[r] = "waiting_for_confirmation" =>
         Undecided(r) # {}
    /\ pc[r] \in {"get", "cas"} /\ goal[r] = "waiting_for_approval" => Undecided(r) # {}

\* A step of a handler that is not busy with it leaves a run's undecided requests.
LEMMA UndecidedStays ==
    ASSUME IInv, HandlersKeepPlace, DecidersKnow, NEW h \in Handlers, HandlerStep(h),
           NEW r \in Runs, Undecided(r) # {}
    PROVE  Undecided(r)' # {} \/ (call[h].run = r /\ call'[h] = call[h])
<1> USE ConstantsAssumption DEF IInv, TypeOK, Control
<1>1. CASE Approve(h) \/ ApproveCategory(h) \/ Deny(h)
  <2>1. /\ pc[h] = "resolve" /\ owner[call[h].act] = call[h].run /\ call[h].act \in Actions
        /\ decision[call[h].act] = "undecided"
    BY <1>1 DEF Approve, ApproveCategory, Deny, GrantsInHand, WellCalled, DecidersKnow
  <2>2. UNCHANGED owner
    BY <1>1 DEF Approve, ApproveCategory, Deny
  <2>3. \/ UNCHANGED decision
        \/ /\ call' = call
           /\ \A a \in Actions : owner[a] # call[h].run => decision'[a] = decision[a]
    BY <1>1, <2>1 DEF Approve, ApproveCategory, Deny, Resolve, Undecided
  <2>4. PICK b \in Actions : owner[b] = r /\ decision[b] = "undecided"
    BY DEF Undecided
  <2>5. CASE decision'[b] = decision[b]
    BY <2>2, <2>4, <2>5 DEF Undecided
  <2>6. CASE decision'[b] # decision[b]
    BY <2>3, <2>4, <2>6
  <2>7. QED
    BY <2>5, <2>6
<1>2. CASE StopDeny(h)
  <2>1. PICK a \in work[h] :
          /\ pc[h] = "deny" /\ UNCHANGED owner
          /\ \/ decision[a] = "undecided" /\ Resolve(h, {a}, "deny") /\ UNCHANGED call
             \/ decision[a] # "undecided"
    BY <1>2 DEF StopDeny
  <2>2. owner[a] = call[h].run /\ decision[a] = "undecided" /\ a \in Actions
    BY <2>1 DEF DecidersKnow, Undecided
  <2>3. call' = call /\ \A b \in Actions : b # a => decision'[b] = decision[b]
    BY <2>1, <2>2 DEF Resolve
  <2>4. QED
    BY <2>1, <2>2, <2>3 DEF Undecided
<1>3. CASE ~ (Approve(h) \/ ApproveCategory(h) \/ Deny(h) \/ StopDeny(h))
  <2>1. UNCHANGED <<owner, decision>>
    BY ZenonT(60), <1>3 DEF HandlerStep, StartCheck, StartCreate, StartBoot, Grant,
       ContinueIfReady, Reject, Runtime, Signal, StopList, Launch,
       TransitionHandler, StaleHandler, Evidence, Freeze, GetRun, store
  <2>2. Undecided(r)' = Undecided(r)
    BY <2>1 DEF Undecided
  <2>3. QED
    BY <2>2
<1>4. QED
  BY <1>1, <1>2, <1>3

\* A handler answers for a waiting run only when something is left to decide, or the run
\* waits no longer.
LEMMA AnswersLeave ==
    ASSUME IInv, HandlersKeepPlace, Quiet, DecidersKnow, NEW h \in Handlers,
           HandlerStep(h), ~ Launch(h),
           NEW r \in Runs, call[h].run = r, call'[h].run # r,
           runState'[r] = "waiting_for_approval", runState[r] = "waiting_for_approval"
    PROVE  Undecided(r) # {} /\ UNCHANGED <<owner, decision>>
<1> USE ConstantsAssumption DEF IInv, TypeOK, Control, Procs
<1>1. CASE StartCheck(h)
  BY <1>1 DEF StartCheck, HandlersKeepPlace
<1>2. CASE StartCreate(h)
  BY <1>2 DEF StartCreate, HandlersKeepPlace
<1>3. CASE StartBoot(h)
  BY <1>3 DEF StartBoot, StartIsGuarded
<1>4. CASE Approve(h) \/ ApproveCategory(h) \/ Deny(h)
  <2>1. /\ owner[call[h].act] = r /\ call[h].act \in Actions
        /\ decision[call[h].act] = "undecided"
    BY <1>4 DEF Approve, ApproveCategory, Deny, GrantsInHand, WellCalled, DecidersKnow
  <2>2. UNCHANGED <<owner, decision>>
    BY <1>4, <2>1 DEF Approve, ApproveCategory, Deny
  <2>3. QED
    BY <2>1, <2>2 DEF Undecided
<1>5. CASE ContinueIfReady(h)
  BY <1>5 DEF ContinueIfReady, Pending, store
<1>6. CASE StopDeny(h)
  BY <1>6 DEF StopDeny, DecidersKnow, Undecided
<1>7. CASE TransitionHandler(h)
  BY <1>7 DEF TransitionHandler, WriteRun, Target
<1>8. CASE StaleHandler(h)
  BY <1>8 DEF StaleHandler, Quiet, CasIsFresh
<1>9. CASE \/ Grant(h) \/ Reject(h) \/ Runtime(h) \/ Signal(h) \/ StopList(h)
           \/ Evidence(h) \/ Freeze(h) \/ GetRun(h)
  BY <1>9 DEF Grant, Reject, Runtime, Signal, StopList, Evidence, Freeze, GetRun
<1>10. QED
  BY <1>1, <1>2, <1>3, <1>4, <1>5, <1>6, <1>7, <1>8, <1>9 DEF HandlerStep

\* A handler's step leaves waiting runs decidable.
LEMMA HandlerWaits ==
    ASSUME IInv, HandlersKeepPlace, Quiet, DecidersKnow, NEW h \in Handlers,
           HandlerStep(h), ~ Launch(h), NEW r \in Runs, Waits(r)
    PROVE  Waits(r)'
<1> USE ConstantsAssumption DEF Procs
<1>0. TypeOK
  BY DEF IInv
<1>1. SUFFICES ASSUME runState'[r] = "waiting_for_approval", Serving'
               PROVE  \/ Undecided(r)' # {}
                      \/ pc'[r] \notin {"idle", "release"}
                      \/ \E g \in Handlers : call'[g].run = r
  BY DEF Waits
<1>2. pc'[r] = pc[r] /\ Serving /\ \A g \in Handlers : g # h => call'[g] = call[g]
  BY <1>0, <1>1, HandlerAlone DEF Serving
<1>3. runState[r] = "waiting_for_approval"
  <2>1. Target(h) # "waiting_for_approval"
    BY DEF Target
  <2>2. QED
    BY <1>0, <1>1, <2>1, HandlerRows
<1>4. CASE Undecided(r) # {}
  BY <1>4, UndecidedStays
<1>5. CASE pc[r] \notin {"idle", "release"}
  BY <1>2, <1>5
<1>6. ASSUME NEW g \in Handlers, call[g].run = r
      PROVE  Undecided(r)' # {} \/ call'[g].run = r
  <2>1. CASE g # h
    BY <1>2, <1>6, <2>1
  <2>2. CASE g = h /\ call'[h].run # r
    BY <1>1, <1>3, <1>6, <2>2, AnswersLeave DEF Undecided
  <2>3. QED
    BY <1>6, <2>1, <2>2
<1>7. QED
  BY <1>2, <1>3, <1>4, <1>5, <1>6 DEF Waits

\* A writer's step leaves the requests of its run that nobody decided.
LEMMA WriterLeavesRequests ==
    ASSUME IInv, NEW s \in Runs, WriterStep(s), NEW r \in Runs
    PROVE  Undecided(r) \subseteq Undecided(r)'
<1>1. CASE Propose(s)
  BY <1>1 DEF Propose, Undecided, IInv, TypeOK, ProposedOnce
<1>2. CASE ~ Propose(s)
  <2>1. UNCHANGED <<owner, decision>>
    BY <1>2 DEF WriterStep, Enter, Execute, Confirm, Proceed, Return, Inspect,
       Conclude, Except, TransitionWriter, StaleWriter, Evidence, Freeze, GetRun, Release, store
  <2>2. QED
    BY <2>1 DEF Undecided
<1>3. QED
  BY <1>1, <1>2

\* A writer ends its run or leaves it waiting for somebody.
LEMMA WriterWaits ==
    ASSUME SerialRequests, IInv, Quiet, WritersKnow, NEW s \in Runs, WriterStep(s),
           Waits(s), Asks(s)
    PROVE  Waits(s)' /\ Asks(s)'
<1> USE DEF IInv, TypeOK, Goto, Procs
<1>0. /\ UNCHANGED <<call, phase>>
      /\ Undecided(s) # {} => Undecided(s)' # {}
  BY WriterAlone, WriterLeavesRequests
<1>1. CASE Enter(s)
  <2>1. pc'[s] = "run" /\ Proposed(s)' = {}
    BY <1>1 DEF Enter, Proposed, SerialRequests, store
  <2>2. QED
    BY <2>1 DEF Waits, Asks
<1>2. CASE Execute(s)
  <2>1. /\ pc[s] = "run" /\ pc'[s] = "run" /\ UNCHANGED <<decision, cached>>
        /\ Proposed(s)' \subseteq Proposed(s)
    BY <1>2 DEF Execute, Proposed, SerialRequests, store, process, procs
  <2>2. QED
    BY <2>1 DEF Waits, Asks, GrantApplies
<1>3. CASE Proceed(s)
  <2>1. pc[s] = "run" /\ pc'[s] = "run" /\ Proposed(s)' = {}
    BY <1>3 DEF Proceed, Proposed, SerialRequests, store, procs
  <2>2. QED
    BY <2>1 DEF Waits, Asks
<1>4. CASE Propose(s)
  <2>1. PICK a \in Actions :
          /\ progress[a] = "unseen" /\ progress' = [progress EXCEPT ![a] = "proposed"]
          /\ owner' = [owner EXCEPT ![a] = s]
          /\ \/ NeedsApproval(s, a) /\ decision' = [decision EXCEPT ![a] = "undecided"]
             \/ ~ NeedsApproval(s, a) /\ UNCHANGED decision
    BY <1>4 DEF Propose
  <2>2. pc[s] = "run" /\ pc'[s] = "run" /\ UNCHANGED cached
    BY <1>4 DEF Propose, process
  <2>3. Proposed(s)' \subseteq Proposed(s) \cup {a}
    BY <2>1 DEF Proposed, SerialRequests
  <2>4. \A b \in Actions : b # a => decision'[b] = decision[b]
    BY <2>1
  <2>5. \A b \in Proposed(s)' \ Routine : decision'[b] = "undecided" \/ GrantApplies(s, b)'
    <3>1. SUFFICES ASSUME NEW b \in Proposed(s)', b \notin Routine
                   PROVE  decision'[b] = "undecided" \/ GrantApplies(s, b)
      BY <2>2 DEF GrantApplies
    <3>2. CASE b = a
      BY <2>1, <3>1, <3>2 DEF NeedsApproval
    <3>3. CASE b # a
      BY <2>2, <2>3, <2>4, <3>1, <3>3 DEF Asks, Proposed
    <3>4. QED
      BY <3>2, <3>3
  <2>6. QED
    BY <2>2, <2>5 DEF Waits, Asks
<1>5. CASE Confirm(s)
  <2>1. PICK a \in Proposed(s) : NeedsApproval(s, a)
    BY <1>5 DEF Confirm
  <2>2. pc[s] = "run" /\ pc'[s] = "returned"
    BY <1>5 DEF Confirm
  <2>3. decision[a] = "undecided" /\ owner[a] = s /\ a \in Actions
    BY <2>1, <2>2 DEF Asks, NeedsApproval, Proposed, SerialRequests
  <2>4. QED
    BY <1>0, <2>2, <2>3 DEF Undecided, Waits, Asks
<1>6. CASE Return(s)
  BY <1>6 DEF Return, Waits, Asks
<1>7. CASE Inspect(s)
  BY <1>0, <1>7 DEF Inspect, Waits, Asks, store, sdk
<1>8. CASE Conclude(s)
  <2>1. pc[s] = "conclude" /\ goal[s] = runState[s] /\ status[s] # "paused"
    BY <1>8 DEF Conclude, WritersKnow
  <2>2. CASE status[s] \in Resting
    <3>1. Undecided(s)' # {}
      BY <1>0, <2>1, <2>2 DEF Resting, Asks
    <3>2. pc'[s] \in {"release", "get"}
      BY <1>8, <2>2 DEF Conclude
    <3>3. QED
      BY <3>1, <3>2 DEF Waits, Asks
  <2>3. CASE status[s] \notin Resting
    BY <1>8, <2>3 DEF Conclude, Waits, Asks
  <2>4. QED
    BY <2>2, <2>3
<1>9. CASE Except(s)
  BY <1>9 DEF Except, Waits, Asks, store
<1>10. CASE Evidence(s) \/ Freeze(s)
  <2>1. goal[s] \in Terminal /\ pc'[s] \in {"freeze", "get"} /\ UNCHANGED goal
    BY <1>10 DEF Evidence, Freeze, WritersKnow
  <2>2. QED
    BY <2>1 DEF Waits, Asks, Terminal
<1>11. CASE GetRun(s)
  BY <1>0, <1>11 DEF GetRun, Waits, Asks
<1>12. CASE TransitionWriter(s)
  <2>1. pc[s] = "cas" /\ pc'[s] = "release" /\ runState'[s] = goal[s]
    BY <1>12 DEF TransitionWriter, WriteRun, Target
  <2>2. QED
    BY <1>0, <2>1 DEF Waits, Asks
<1>13. CASE StaleWriter(s)
  BY <1>13 DEF StaleWriter, Quiet, CasIsFresh
<1>14. CASE Release(s)
  <2>1. pc[s] = "release" /\ pc'[s] = "idle" /\ UNCHANGED runState
    BY <1>14 DEF Release, store
  <2>2. QED
    BY <1>0, <2>1 DEF Waits, Asks, Serving
<1>15. QED
  BY <1>1, <1>2, <1>3, <1>4, <1>5, <1>6, <1>7, <1>8, <1>9, <1>10, <1>11, <1>12, <1>13, <1>14
     DEF WriterStep

\* Every step keeps runs from waiting for nobody.
LEMMA UnansweredStep ==
    ASSUME SerialRequests, IInv, HandlersKeepPlace, ProcsKeepPlace, Quiet, WritersKnow,
           DecidersKnow, Unanswered, [Next]_vars, NEW r \in Runs
    PROVE  Waits(r)' /\ Asks(r)'
<1> USE ConstantsAssumption DEF Procs
<1>0. TypeOK /\ WellCalled /\ OneBusy /\ Waits(r) /\ Asks(r)
  BY DEF IInv, Control, Quiet, Unanswered, Waits, Asks
<1>1. ASSUME NEW h \in Handlers, Send(h) \/ HandlerStep(h), ~ Launch(h)  PROVE Asks(r)'
  <2>1. pc'[r] = pc[r] /\ UNCHANGED goal
    BY <1>0, <1>1, HandlerAlone
  <2>2. ASSUME Busy(r)  PROVE UNCHANGED <<owner, decision, progress, status, cached>>
    BY <1>0, <1>1, <2>2, BusyWriter DEF Send, StartCheck, sdk, store, process
  <2>3. QED
    BY <1>0, <2>1, <2>2 DEF Asks, Busy, Undecided, Proposed, GrantApplies
<1>2. ASSUME NEW h \in Handlers, HandlerStep(h), ~ Launch(h)  PROVE Waits(r)'
  BY <1>0, <1>2, HandlerWaits
<1>3. ASSUME NEW h \in Handlers, Send(h)  PROVE Waits(r)'
  <2>1. /\ pc[h] = "idle" /\ UNCHANGED <<runState, owner, decision, phase>> /\ pc'[r] = pc[r]
        /\ \A g \in Handlers : g # h => call'[g] = call[g]
    BY <1>0, <1>3 DEF Send, store, process, Goto, Idle, TypeOK
  <2>2. call[h].run # r
    BY <2>1 DEF HandlersKeepPlace
  <2>3. QED
    BY <1>0, <2>1, <2>2 DEF Waits, Undecided, Serving
<1>4. ASSUME NEW h \in Handlers, Launch(h)  PROVE Waits(r)' /\ Asks(r)'
  <2>1. /\ pc[h] = "launch"
        /\ UNCHANGED <<runState, owner, decision, progress, status, cached, goal, phase>>
        /\ runState[call[h].run] = "running"
    BY <1>0, <1>4 DEF Launch, store, sdk, Quiet, BusyRunsAreActive, Busy, RunOf, WellCalled
  <2>2. /\ pc'[r] = pc[r] \/ pc'[r] = "enter"
        /\ \A g \in Handlers : g # h => call'[g] = call[g]
    BY <1>0, <1>4 DEF Launch, Answer, Goto, TypeOK
  <2>3. CASE r = call[h].run
    BY <1>0, <2>1, <2>2, <2>3 DEF Waits, Asks, Undecided, Proposed, GrantApplies
  <2>4. CASE r # call[h].run
    BY <1>0, <2>1, <2>2, <2>4 DEF Waits, Asks, Undecided, Proposed, GrantApplies, Serving
  <2>5. QED
    BY <2>3, <2>4
<1>5. ASSUME NEW s \in Runs, WriterStep(s)  PROVE Waits(r)' /\ Asks(r)'
  <2>1. CASE r = s
    BY <1>0, <1>5, <2>1, WriterWaits
  <2>2. CASE r # s
    <3>1. /\ pc[r] = "idle" /\ pc'[r] = "idle" /\ runState'[r] = runState[r]
          /\ UNCHANGED <<call, phase>> /\ Undecided(r) \subseteq Undecided(r)'
      BY <1>5, <2>2, WriterAlone, WriterRows, WriterLeavesRequests
    <3>2. QED
      BY <1>0, <3>1 DEF Waits, Asks, Serving
  <2>3. QED
    BY <2>1, <2>2
<1>6. CASE RecoverStep
  <2>1. \A p \in Procs : pc[p] = "idle" /\ pc'[p] = "idle"
    BY <1>6 DEF RecoverStep, RecoverDeny, RecoverCancel, RecoverEnd, procs, IInv, Control,
       RecoveryIsAlone
  <2>2. phase = "recovering" /\ (UNCHANGED phase \/ runState'[r] \notin Active)
    BY <1>6 DEF RecoverStep, RecoverDeny, RecoverCancel, RecoverEnd, store, process
  <2>3. QED
    BY <2>1, <2>2 DEF Waits, Asks, Serving, Active
<1>7. CASE Crash
  BY <1>7 DEF Crash, Waits, Asks, Serving
<1>8. CASE UNCHANGED vars
  BY <1>0, <1>8 DEF vars, Waits, Asks, Undecided, Proposed, GrantApplies, Serving
<1>9. QED
  BY <1>1, <1>2, <1>3, <1>4, <1>5, <1>6, <1>7, <1>8 DEF Next

----------------------------------------------------------------------------
(* Frozen changes *)

\* What a run has written changes only while its writer drives the conversation.
LEMMA WrittenStays ==
    ASSUME SerialRequests, IInv, [Next]_vars, NEW r \in Runs, pc[r] # "run"
    PROVE  Written(r)' = Written(r)
<1>1. SUFFICES ASSUME NEW a \in Actions
               PROVE  (owner'[a] = r /\ progress'[a] = "done")
                         <=> (owner[a] = r /\ progress[a] = "done")
  BY DEF Written
<1>2. CASE owner'[a] # owner[a]
  <2>1. PICK s \in Runs : Propose(s) /\ pc[s] = "run" /\ owner'[a] = s
    BY <1>2, OwnerFrame
  <2>2. owner[a] # r
    BY <1>2, OwnerStep, ConstantsAssumption DEF IInv, ProposedOnce
  <2>3. QED
    BY <2>1, <2>2
<1>3. CASE owner'[a] = owner[a] /\ progress'[a] # progress[a] /\ owner[a] = r
  <2>1. \A s \in Runs : ~ Execute(s)
    <3>1. SUFFICES ASSUME NEW s \in Runs, Execute(s)  PROVE FALSE
      OBVIOUS
    <3>2. PICK b \in Released(s) : pc[s] = "run" /\ progress' = [progress EXCEPT ![b] = "done"]
      BY <3>1 DEF Execute
    <3>3. owner[b] = s
      BY <3>2 DEF Released, SerialRequests
    <3>4. a = b
      BY <1>3, <3>2 DEF IInv, TypeOK
    <3>5. QED
      BY <1>3, <3>2, <3>3, <3>4
  <2>2. progress[a] # "done" /\ progress'[a] # "done"
    BY <1>3, <2>1, ProgressFrame DEF Proposed
  <2>3. QED
    BY <2>2
<1>4. CASE owner'[a] = owner[a] /\ (progress'[a] = progress[a] \/ owner[a] # r)
  BY <1>4
<1>5. QED
  BY <1>2, <1>3, <1>4

\* What a manifest of run r rests on: nothing is left to be done for it but to end it.
Sealed(r) ==
    \/ runState[r] \in Terminal
    \/ phase = "recovering"
    \/ pc[r] \in {"get", "cas"} /\ goal[r] \in Terminal
    \/ \E h \in Handlers : call[h].op = "stop" /\ call[h].run = r /\ pc[h] \in {"get", "cas"}

\* The writer of a run with a manifest is not in its conversation.
LEMMA SealedRests ==
    ASSUME IInv, Quiet, NEW r \in Runs, Sealed(r)
    PROVE  pc[r] # "run"
<1>1. SUFFICES ASSUME pc[r] = "run"  PROVE FALSE
  OBVIOUS
<1>2. runState[r] \notin Terminal
  BY <1>1, ConstantsAssumption DEF Quiet, BusyRunsAreActive, Busy, RunOf, Procs, Terminal
<1>3. phase # "recovering"
  BY <1>1 DEF IInv, Control, RecoveryIsAlone, Procs
<1>4. \A h \in Handlers : call[h].op # "stop"
  BY <1>1 DEF Quiet, DecidersAreAlone
<1>5. QED
  BY <1>1, <1>2, <1>3, <1>4 DEF Sealed

\* A run that was created stays so.
LEMMA CreatedStays ==
    ASSUME IInv, HandlersKeepPlace, WritersKnow, [Next]_vars, NEW r \in Runs, runState[r] # "none"
    PROVE  runState'[r] # "none"
<1>0. TypeOK
  BY DEF IInv
<1>1. ASSUME NEW h \in Handlers, HandlerStep(h)  PROVE runState'[r] # "none"
  BY <1>0, <1>1, HandlerRows, ConstantsAssumption DEF Target
<1>2. ASSUME NEW s \in Runs, WriterStep(s)  PROVE runState'[r] # "none"
  BY <1>2, WriterRows DEF Terminal
<1>3. CASE RecoverStep
  BY <1>0, <1>3 DEF RecoverStep, RecoverDeny, RecoverCancel, RecoverEnd, store, WriteRun, TypeOK
<1>4. CASE Crash \/ UNCHANGED vars \/ \E h \in Handlers : Send(h)
  BY <1>4 DEF Crash, vars, Send, store
<1>5. QED
  BY <1>1, <1>2, <1>3, <1>4 DEF Next

\* A run that is sealed is on its way to its end, and nobody turns back.
LEMMA SealedStays ==
    ASSUME IInv, HandlersKeepPlace, ProcsKeepPlace, Quiet, WritersKnow, [Next]_vars,
           NEW r \in Runs, Sealed(r), runState[r] # "none"
    PROVE  Sealed(r)'
<1> USE ConstantsAssumption DEF Procs
<1>0. TypeOK /\ OneBusy
  BY DEF IInv, Quiet
<1>1. CASE runState[r] \in Terminal
  BY <1>1, EndedStays DEF Sealed
<1>2. CASE phase = "recovering"
  <2>1. CASE RecoverEnd
    <3>1. runState[r] \in Terminal /\ UNCHANGED runState
      BY <1>0, <2>1 DEF RecoverEnd, store, TypeOK, RunStates, Terminal
    <3>2. QED
      BY <3>1 DEF Sealed
  <2>2. CASE ~ RecoverEnd
    <3>1. \A p \in Procs : pc[p] = "idle"
      BY <1>2 DEF IInv, Control, RecoveryIsAlone
    <3>2. \A h \in Handlers : ~ HandlerStep(h)
      BY <3>1, IdleHandler DEF Busy, StartCheck
    <3>3. \A s \in Runs : ~ WriterStep(s)
      BY <3>1, IdleWriter DEF Busy, Release
    <3>4. phase' = "recovering"
      BY <1>2, <2>2, <3>2, <3>3 DEF Next, Send, Serving, Crash, RecoverStep, RecoverDeny,
         RecoverCancel, process, vars
    <3>5. QED
      BY <3>4 DEF Sealed
  <2>3. QED
    BY <2>1, <2>2
<1>3. CASE pc[r] \in {"get", "cas"} /\ goal[r] \in Terminal
  <2>1. Busy(r)
    BY <1>3 DEF Busy
  <2>2. ASSUME NEW h \in Handlers, Send(h) \/ HandlerStep(h)  PROVE Sealed(r)'
    <3>1. Send(h) \/ StartCheck(h)
      BY <1>0, <2>1, <2>2, BusyWriter
    <3>2. pc'[r] = pc[r] /\ goal'[r] = goal[r]
      BY <1>0, <3>1 DEF Send, StartCheck, Goto, Answer, TypeOK
    <3>3. QED
      BY <1>3, <3>2 DEF Sealed
  <2>3. ASSUME NEW s \in Runs, WriterStep(s)  PROVE Sealed(r)'
    <3>1. s = r
      BY <1>3, <2>3, WriterAlone
    <3>2. GetRun(r) \/ TransitionWriter(r)
      BY <1>3, <2>3, <3>1 DEF WriterStep, Enter, Execute, Propose, Confirm, Proceed, Return,
         Inspect, Conclude, Except, StaleWriter, Evidence, Freeze, Release, Quiet, CasIsFresh
    <3>3. CASE GetRun(r)
      BY <1>0, <1>3, <3>3 DEF GetRun, Goto, TypeOK, Sealed
    <3>4. CASE TransitionWriter(r)
      BY <1>0, <1>3, <3>4 DEF TransitionWriter, WriteRun, Target, TypeOK, Sealed
    <3>5. QED
      BY <3>2, <3>3, <3>4
  <2>4. CASE RecoverStep
    BY <1>3, <2>4 DEF RecoverStep, RecoverDeny, RecoverCancel, RecoverEnd, IInv, Control,
       RecoveryIsAlone
  <2>5. CASE Crash \/ UNCHANGED vars
    BY <1>3, <2>5 DEF Crash, vars, Sealed
  <2>6. QED
    BY <2>2, <2>3, <2>4, <2>5 DEF Next
<1>4. ASSUME NEW g \in Handlers, call[g].op = "stop", call[g].run = r, pc[g] \in {"get", "cas"}
      PROVE  Sealed(r)'
  <2>1. Busy(g)
    BY <1>4 DEF Busy
  <2>2. CASE HandlerStep(g)
    <3>1. GetRun(g) \/ TransitionHandler(g)
      BY <1>4, <2>2 DEF HandlerStep, StartCheck, StartCreate, StartBoot, Approve, ApproveCategory,
         Grant, ContinueIfReady, Deny, Reject, Runtime, Signal, StopList, StopDeny, Launch,
         StaleHandler, Evidence, Freeze, Quiet, CasIsFresh
    <3>2. CASE GetRun(g)
      <4>1. pc'[g] = "cas" /\ call' = call
        BY <1>0, <3>2 DEF GetRun, Goto, TypeOK
      <4>2. QED
        BY <1>4, <4>1 DEF Sealed
    <3>3. CASE TransitionHandler(g)
      BY <1>0, <1>4, <3>3 DEF TransitionHandler, WriteRun, Target, TypeOK, Sealed, Terminal
    <3>4. QED
      BY <3>1, <3>2, <3>3
  <2>3. CASE \/ \E p \in Handlers \ {g} : Send(p) \/ HandlerStep(p)
             \/ \E s \in Runs : WriterStep(s)
    <3>1. pc'[g] = pc[g] /\ call'[g] = call[g]
      BY <1>0, <2>3, Bystander
    <3>2. QED
      BY <1>4, <3>1 DEF Sealed
  <2>4. CASE Crash
    BY <2>4 DEF Crash, Sealed
  <2>5. CASE RecoverStep
    BY <1>4, <2>5 DEF RecoverStep, RecoverDeny, RecoverCancel, RecoverEnd, IInv, Control,
       RecoveryIsAlone
  <2>6. CASE UNCHANGED vars
    BY <1>4, <2>6 DEF vars, Sealed
  <2>7. ~ Send(g)
    BY <2>1 DEF Send, Idle, Busy
  <2>8. QED
    BY <2>2, <2>3, <2>4, <2>5, <2>6, <2>7 DEF Next
<1>5. QED
  BY <1>1, <1>2, <1>3, <1>4 DEF Sealed

\* Every step keeps manifests complete.
LEMMA FrozenStep ==
    ASSUME SerialRequests, IInv, HandlersKeepPlace, ProcsKeepPlace, Quiet, WritersKnow,
           Frozen, FreezersKnow, [Next]_vars, NEW r \in Runs, manifest'[r] # NoManifest
    PROVE  /\ runState'[r] # "none"
           /\ Written(r)' \subseteq manifest'[r]
           /\ Sealed(r)'
<1> USE ConstantsAssumption DEF Procs
<1>0. TypeOK
  BY DEF IInv
<1>1. CASE manifest[r] # NoManifest
  <2>1. runState[r] # "none" /\ Written(r) \subseteq manifest[r] /\ Sealed(r)
    BY <1>1 DEF Frozen, Sealed
  <2>2. manifest'[r] = manifest[r]
    BY <1>0, <1>1, ManifestStep
  <2>3. Written(r)' = Written(r)
    BY <2>1, SealedRests, WrittenStays
  <2>4. QED
    BY <2>1, <2>2, <2>3, SealedStays, CreatedStays
<1>2. CASE manifest[r] = NoManifest
  <2>1. ASSUME NEW p \in Procs, Freeze(p)
        PROVE  runState'[r] # "none" /\ Written(r)' \subseteq manifest'[r] /\ Sealed(r)'
    <3>1. /\ pc[p] = "freeze" /\ UNCHANGED <<runState, sdk, owner, call, goal>>
          /\ manifest' = [manifest EXCEPT ![RunOf(p)] = IF @ = NoManifest THEN work[p] ELSE @]
      BY <2>1 DEF Freeze, Insert
    <3>2. RunOf(p) = r
      BY <1>0, <1>2, <3>1 DEF TypeOK
    <3>3. manifest'[r] = Written(r) /\ Written(r)' = Written(r)
      BY <1>0, <1>2, <3>1, <3>2 DEF TypeOK, FreezersKnow, Written, sdk
    <3>4. runState[r] \in Active
      BY <3>1, <3>2 DEF Quiet, BusyRunsAreActive, Busy
    <3>5. pc'[p] = "get"
      BY <1>0, <2>1 DEF Freeze, Goto, TypeOK
    <3>6. ASSUME p \in Runs  PROVE Sealed(r)'
      BY <3>1, <3>2, <3>5, <3>6 DEF RunOf, WritersKnow, Sealed
    <3>7. ASSUME p \in Handlers  PROVE Sealed(r)'
      BY <3>1, <3>2, <3>5, <3>7 DEF RunOf, HandlersKeepPlace, Sealed
    <3>8. QED
      BY <3>1, <3>3, <3>4, <3>6, <3>7 DEF Active
  <2>2. ASSUME NEW s \in Runs, RecoverCancel(s)
        PROVE  runState'[r] # "none" /\ Written(r)' \subseteq manifest'[r] /\ Sealed(r)'
    <3>1. s = r /\ manifest'[r] = Written(r) /\ UNCHANGED <<owner, progress>>
      BY <1>0, <1>2, <2>2 DEF RecoverCancel, Insert, TypeOK, sdk
    <3>2. runState'[r] = "cancelled"
      BY <1>0, <2>2, <3>1 DEF RecoverCancel, WriteRun, TypeOK
    <3>3. QED
      BY <3>1, <3>2 DEF Written, Sealed, Terminal
  <2>3. QED
    BY <1>2, <2>1, <2>2, ManifestFrame
<1>3. QED
  BY <1>1, <1>2

\* Every step keeps a comparison right until it is saved.
LEMMA FreezersKnowStep ==
    ASSUME SerialRequests, IInv, HandlersKeepPlace, ProcsKeepPlace, Quiet, FreezersKnow,
           [Next]_vars,
           NEW p \in Procs, pc'[p] = "freeze"
    PROVE  work'[p] = Written(RunOf(p))'
<1> USE ConstantsAssumption DEF Procs
<1>0. TypeOK /\ OneBusy
  BY DEF IInv, Quiet
<1>1. CASE Evidence(p)
  <2>1. UNCHANGED <<owner, sdk, call>> /\ work'[p] = Written(RunOf(p))
    BY <1>0, <1>1 DEF Evidence, Goto, TypeOK
  <2>2. QED
    BY <2>1 DEF Written, RunOf, sdk
<1>2. CASE ~ Evidence(p)
  <2>1. ASSUME NEW h \in Handlers, Send(h) \/ HandlerStep(h), h # p
        PROVE  /\ pc'[p] = pc[p] \/ pc'[p] = "enter"
               /\ p \in Handlers => call'[p] = call[p]
               /\ Busy(p) => UNCHANGED <<owner, sdk>> /\ work'[p] = work[p]
    <3>1. CASE p \in Handlers
      BY <1>0, <2>1, <3>1, Bystander DEF store
    <3>2. CASE p \in Runs
      <4>1. pc'[p] = pc[p] \/ pc'[p] = "enter"
        <5>1. CASE Launch(h)
          BY <1>0, <3>2, <5>1 DEF Launch, Answer, Goto, TypeOK
        <5>2. CASE ~ Launch(h)
          BY <1>0, <2>1, <5>2, HandlerAlone
        <5>3. QED
          BY <5>1, <5>2
      <4>2. Busy(p) => Send(h) \/ StartCheck(h)
        BY <1>0, <2>1, <3>2, BusyWriter
      <4>3. QED
        BY <3>2, <4>1, <4>2 DEF Send, StartCheck, store
    <3>3. QED
      BY <3>1, <3>2
  <2>2. ASSUME NEW s \in Runs, WriterStep(s), s # p
        PROVE  /\ pc'[p] = pc[p] /\ UNCHANGED call
               /\ Busy(p) => UNCHANGED <<owner, sdk>> /\ work'[p] = work[p]
    <3>1. pc'[p] = pc[p] /\ UNCHANGED call
      BY <2>2, WriterAlone
    <3>2. CASE p \in Handlers
      BY <1>0, <2>2, <3>1, <3>2, Bystander DEF store
    <3>3. CASE p \in Runs
      BY <2>2, <3>1, <3>3, WriterAlone DEF Busy
    <3>4. QED
      BY <3>1, <3>2, <3>3
  <2>3. ASSUME p \in Handlers, Send(p) \/ HandlerStep(p)  PROVE FALSE
    <3>1. ~ Send(p)
      BY <1>0 DEF Send, Goto, FirstStep, TypeOK
    <3>2. QED
      BY <1>0, <1>2, <2>3, <3>1 DEF HandlerStep, StartCheck, StartCreate, StartBoot, Approve,
         ApproveCategory, Grant, ContinueIfReady, Deny, Reject, Runtime, Signal, StopList,
         StopDeny, Launch, StaleHandler, TransitionHandler, GetRun, Freeze, Goto, Answer, TypeOK
  <2>4. ASSUME p \in Runs, WriterStep(p)  PROVE FALSE
    BY <1>0, <1>2, <2>4 DEF WriterStep, Enter, Execute, Propose, Confirm, Proceed, Return,
       Inspect, Conclude, Except, StaleWriter, TransitionWriter, GetRun, Freeze, Release, Goto,
       procs, TypeOK
  <2>5. CASE UNCHANGED vars
    BY <2>5 DEF vars, FreezersKnow, Written, RunOf
  <2>6. pc'[p] = "idle" \/ ~ (Crash \/ RecoverStep)
    BY DEF Crash, RecoverStep, RecoverDeny, RecoverCancel, RecoverEnd, procs, IInv, Control,
       RecoveryIsAlone
  <2>7. CASE /\ pc[p] = "freeze" /\ RunOf(p)' = RunOf(p)
             /\ UNCHANGED <<owner, sdk>> /\ work'[p] = work[p]
    BY <2>7 DEF FreezersKnow, Written, sdk
  <2>8. QED
    BY <2>1, <2>2, <2>3, <2>4, <2>5, <2>6, <2>7 DEF Next, Busy, RunOf
<1>3. QED
  BY <1>1, <1>2

----------------------------------------------------------------------------
(* The promise of RunAuthority *)

\* What may run here may run there.
LEMMA AuthorityAgrees ==
    ASSUME IInv, NEW a \in Actions, Authorized(a), progress[a] # "unseen"
    PROVE  Authority!Authorized(a)
  BY DEF IInv, ProposedOnce, Authorized, Authority!Authorized

\* Decisions on requests of one run are an answer there.
LEMMA ResolveAnswers ==
    ASSUME NEW r \in Runs, NEW A, A \subseteq Undecided(r), NEW d \in {"approve", "deny"},
           decision' = [a \in Actions |-> IF a \in A THEN d ELSE decision[a]],
           UNCHANGED <<owner, grants, progress>>
    PROVE  Authority!Next
<1>1. A \in SUBSET Authority!Asked(r)
  BY DEF Undecided, Authority!Asked
<1>2. Authority!Answer(r)
  BY <1>1 DEF Authority!Answer
<1>3. QED
  BY <1>2 DEF Authority!Next

\* Letting all that a run proposed through is letting it through there.
LEMMA ReleaseAllows ==
    ASSUME SerialRequests, IInv, NEW r \in Runs, \A a \in Proposed(r) : Authorized(a),
           progress' = [a \in Actions |-> IF a \in Proposed(r) THEN "released" ELSE progress[a]],
           UNCHANGED <<owner, decision, grants>>
    PROVE  Authority!Next
<1> DEFINE Allowed == {a \in Actions : progress[a] \in {"released", "done"}}
<1>1. \A a \in Proposed(r) : a \in Actions /\ owner[a] = r /\ Authority!Authorized(a)
  BY AuthorityAgrees DEF Proposed, SerialRequests
<1>2. Proposed(r) \in SUBSET {a \in Actions : owner[a] = r /\ Authority!Authorized(a)}
  BY <1>1
<1>3. Allowed' = Allowed \cup Proposed(r)
  BY <1>1
<1>4. Authority!Allow(r)
  BY <1>2, <1>3 DEF Authority!Allow
<1>5. QED
  BY <1>4 DEF Authority!Next

\* Every step is a step there, or nothing to be seen.
LEMMA AuthorityStep ==
    ASSUME SerialRequests, IInv, DecidersKnow, ContinuedIsAuthorized, [Next]_vars
    PROVE  [Authority!Next]_(Authority!avars)
<1> USE ConstantsAssumption
<1> DEFINE Allowed == {a \in Actions : progress[a] \in {"released", "done"}}
<1>0. TypeOK
  BY DEF IInv
<1>1. ASSUME NEW h \in Handlers, Approve(h) \/ Deny(h) \/ StopDeny(h)
      PROVE  [Authority!Next]_(Authority!avars)
  <2> DEFINE a == call[h].act
             r == call[h].run
  <2>1. UNCHANGED <<owner, grants, progress>>
    BY <1>1 DEF Approve, Deny, StopDeny, sdk
  <2>2. CASE UNCHANGED decision
    BY <2>1, <2>2 DEF Authority!avars
  <2>3. CASE Approve(h) /\ Resolve(h, {a}, "approve")
    <3>1. {a} \subseteq Undecided(r) /\ r \in Runs
      BY <2>3 DEF Approve, Undecided, DecidersKnow, IInv, Control, WellCalled, GrantsInHand
    <3>2. QED
      BY <2>1, <2>3, <3>1, ResolveAnswers DEF Resolve
  <2>4. CASE Deny(h) /\ Resolve(h, Undecided(owner[a]), "deny")
    <3>1. owner[a] = r /\ r \in Runs
      BY <2>4 DEF Deny, IInv, Control, WellCalled, GrantsInHand
    <3>2. QED
      BY <2>1, <2>4, <3>1, ResolveAnswers DEF Resolve
  <2>5. CASE StopDeny(h) /\ \E b \in work[h] : pc[h] = "deny" /\ Resolve(h, {b}, "deny")
    <3>1. PICK b \in work[h] : pc[h] = "deny" /\ Resolve(h, {b}, "deny")
      BY <2>5
    <3>2. {b} \subseteq Undecided(r) /\ r \in Runs
      BY <3>1 DEF DecidersKnow, IInv, Control, WellCalled
    <3>3. QED
      BY <2>1, <3>1, <3>2, ResolveAnswers DEF Resolve
  <2>6. QED
    BY <1>1, <2>2, <2>3, <2>4, <2>5 DEF Approve, Deny, StopDeny
<1>2. ASSUME NEW h \in Handlers, ApproveCategory(h)  PROVE [Authority!Next]_(Authority!avars)
  <2> DEFINE a == call[h].act
             r == owner[a]
             c == Category[a]
  <2>1. UNCHANGED <<owner, progress>>
    BY <1>2 DEF ApproveCategory, sdk
  <2>2. CASE UNCHANGED <<decision, grants>>
    BY <2>1, <2>2 DEF Authority!avars
  <2>3. CASE /\ decision[a] = "undecided" /\ c \in Grantable
             /\ Resolve(h, {b \in Undecided(r) : Category[b] = c}, "approve")
             /\ grants' = [grants EXCEPT ![r] = @ \cup {c}]
    <3>1. a \in Actions /\ r \in Runs
      BY <1>2 DEF ApproveCategory, IInv, Control, WellCalled, GrantsInHand
    <3>2. {b \in Undecided(r) : Category[b] = c} = {b \in Authority!Asked(r) : Category[b] = c}
      BY DEF Undecided, Authority!Asked
    <3>3. a \in {b \in Authority!Asked(r) : Category[b] = c}
      BY <2>3, <3>1 DEF Authority!Asked
    <3>4. Authority!GrantCategory(r, c)
      BY <2>1, <2>3, <3>2, <3>3 DEF Authority!GrantCategory, Resolve
    <3>5. c \in Categories
      BY <3>1
    <3>6. QED
      BY <3>1, <3>4, <3>5 DEF Authority!Next
  <2>4. QED
    BY <1>2, <2>2, <2>3 DEF ApproveCategory
<1>3. ASSUME NEW h \in Handlers, Reject(h)  PROVE [Authority!Next]_(Authority!avars)
  <2>1. UNCHANGED <<owner, decision, grants>>
    BY <1>3 DEF Reject, store
  <2>2. Allowed' = Allowed
    BY <1>0, <1>3 DEF Reject, Proposed, TypeOK
  <2>3. QED
    BY <2>1, <2>2 DEF Authority!avars
<1>4. ASSUME NEW r \in Runs, Enter(r)  PROVE [Authority!Next]_(Authority!avars)
  <2>1. \A a \in Proposed(r) : Authorized(a)
    BY <1>4 DEF Enter, ContinuedIsAuthorized, Continues, RunOf, Procs
  <2>2. QED
    BY <1>4, <2>1, ReleaseAllows DEF Enter, store
<1>5. ASSUME NEW r \in Runs, Proceed(r)  PROVE [Authority!Next]_(Authority!avars)
  <2>1. \A a \in Proposed(r) : Authorized(a)
    BY <1>5, PassedIsAuthorized DEF Proceed, Proposed, SerialRequests
  <2>2. QED
    BY <1>5, <2>1, ReleaseAllows DEF Proceed, store
<1>6. ASSUME NEW r \in Runs, Execute(r)  PROVE [Authority!Next]_(Authority!avars)
  <2>1. UNCHANGED <<owner, decision, grants>>
    BY <1>6 DEF Execute, store
  <2>2. Allowed' = Allowed
    BY <1>0, <1>6 DEF Execute, Released, TypeOK
  <2>3. QED
    BY <2>1, <2>2 DEF Authority!avars
<1>7. ASSUME NEW r \in Runs, Propose(r)  PROVE [Authority!Next]_(Authority!avars)
  <2>1. PICK a \in Actions :
          /\ progress[a] = "unseen" /\ progress' = [progress EXCEPT ![a] = "proposed"]
          /\ owner' = [owner EXCEPT ![a] = r]
          /\ \/ NeedsApproval(r, a) /\ decision' = [decision EXCEPT ![a] = "undecided"]
             \/ ~ NeedsApproval(r, a) /\ UNCHANGED decision
    BY <1>7 DEF Propose
  <2>2. Allowed' = Allowed /\ UNCHANGED grants
    BY <1>0, <1>7, <2>1 DEF Propose, TypeOK
  <2>3. owner[a] = NoRun
    BY <2>1 DEF IInv, ProposedOnce
  <2>4. CASE decision' = [decision EXCEPT ![a] = "undecided"]
    <3>1. Authority!Ask(r, a)
      BY <2>1, <2>2, <2>3, <2>4 DEF Authority!Ask
    <3>2. QED
      BY <3>1 DEF Authority!Next
  <2>5. CASE ~ NeedsApproval(r, a) /\ UNCHANGED decision
    <3>1. a \in Routine \/ Category[a] \in grants[r]
      BY <2>5 DEF NeedsApproval, GrantApplies, IInv, GrantsComeFromApprovals
    <3>2. Authority!Pass(r, a)
      BY <2>1, <2>2, <2>3, <2>5, <3>1 DEF Authority!Pass
    <3>3. QED
      BY <3>2 DEF Authority!Next
  <2>6. QED
    BY <2>1, <2>4, <2>5
<1>8. ASSUME NEW r \in Runs, RecoverDeny(r)  PROVE [Authority!Next]_(Authority!avars)
  BY <1>8, ResolveAnswers DEF RecoverDeny, sdk
<1>9. CASE UNCHANGED <<owner, decision, progress>> /\ UNCHANGED grants
  BY <1>9 DEF Authority!avars
<1>10. QED
  BY <1>1, <1>2, <1>3, <1>4, <1>5, <1>6, <1>7, <1>8, <1>9, ApprovalFrame, GrantFrame

----------------------------------------------------------------------------
(* The theorems *)

\* All of it together is inductive.
SInv ==
    /\ IInv
    /\ HandlersKeepPlace
    /\ ProcsKeepPlace
    /\ Quiet
    /\ WritersKnow
    /\ DecidersKnow
    /\ RestingRuns
    /\ ContinuedIsAuthorized
    /\ DeniedIsDropped
    /\ NoUnapprovedExecution
    /\ Unanswered
    /\ Frozen
    /\ FreezersKnow

\* A fresh process serves no request, and no run exists.
LEMMA FreshStart ==
    ASSUME IInv, Init
    PROVE  SInv
<1> USE ConstantsAssumption DEF Init, Procs
<1>1. HandlersKeepPlace /\ ProcsKeepPlace
  BY DEF HandlersKeepPlace, ProcsKeepPlace, HandlerPCs, WriterPCs, NoCall
<1>2. Quiet
  BY DEF Quiet, OneBusy, BusyRunsAreActive, CasIsFresh, DecidersAreAlone, AtMostOneActiveRun,
     Busy, Active
<1>3. WritersKnow /\ DecidersKnow /\ RestingRuns
  BY DEF WritersKnow, DecidersKnow, RestingRuns, New, NoCall
<1>4. ContinuedIsAuthorized /\ DeniedIsDropped /\ NoUnapprovedExecution
  BY DEF ContinuedIsAuthorized, DeniedIsDropped, NoUnapprovedExecution, Continues
<1>5. Unanswered /\ Frozen /\ FreezersKnow
  BY DEF Unanswered, Frozen, FreezersKnow
<1>6. QED
  BY <1>1, <1>2, <1>3, <1>4, <1>5 DEF SInv

\* Every step keeps it.
LEMMA SerialStep ==
    ASSUME SerialRequests, SInv, IInv', [Next]_vars
    PROVE  SInv'
<1> USE DEF SInv
<1>1. HandlersKeepPlace' /\ ProcsKeepPlace' /\ Quiet' /\ WritersKnow' /\ DecidersKnow'
  BY PlaceStep, OwnCodeStep, QuietStep, WritersKnowStep, DecidersKnowStep
<1>2. RestingRuns'
  BY RestingStep DEF RestingRuns, Rests
<1>3. ContinuedIsAuthorized' /\ DeniedIsDropped' /\ NoUnapprovedExecution'
  BY <1>1, ContinuedStep, DeniedStep, ExecutionStep
<1>4. Unanswered'
  BY UnansweredStep DEF Unanswered, Waits, Asks
<1>5. Frozen'
  BY FrozenStep DEF Frozen, Sealed
<1>6. FreezersKnow'
  BY FreezersKnowStep DEF FreezersKnow
<1>7. QED
  BY <1>1, <1>2, <1>3, <1>4, <1>5, <1>6

\* For a user who waits and an SDK that drops leftovers, SInv is an invariant.
THEOREM SerialInvariance == SerialRequests => (Spec => []SInv)
<1>1. IInv /\ Init => SInv
  BY FreshStart
<1>2. SerialRequests /\ SInv /\ IInv' /\ [Next]_vars => SInv'
  BY SerialStep
<1>3. SerialRequests => (Spec => []SInv)
  <2>1. SUFFICES ASSUME SerialRequests  PROVE Spec => []SInv
    OBVIOUS
  <2>2. SInv /\ IInv' /\ [Next]_vars => SInv'
    BY <1>2, <2>1
  <2>3. QED
    BY <1>1, <2>2, Invariance, PTL DEF Spec
<1>4. QED
  BY <1>3

\* For a user who waits and an SDK that drops leftovers, a HIGH-risk action runs only when the
\* user approved it or granted its category.  An early approve, pause or stop breaks this, and
\* so does a conversation that keeps what stop denied.
THEOREM ApprovedExecution == SerialRequests => (Spec => []NoUnapprovedExecution)
  BY SerialInvariance, PTL DEF SInv

\* For a user who waits, start excepted, and an SDK that drops leftovers, the workspace has one
\* active run.  An early deny or stop breaks this.
THEOREM OneActiveRun == SerialRequests => (Spec => []AtMostOneActiveRun)
<1>1. SInv => AtMostOneActiveRun
  BY DEF SInv, Quiet
<1>2. QED
  BY <1>1, SerialInvariance, PTL

\* For a user who waits and an SDK that drops leftovers, the manifest of a run that ended shows
\* all that its tools wrote.  A stop while the writer runs breaks this; so does an early
\* decision or pause that lets a run go on which has ended, and was frozen, meanwhile.
THEOREM CompleteEvidence == SerialRequests => (Spec => []EvidenceIsComplete)
<1>1. SInv => EvidenceIsComplete
  BY DEF SInv, Frozen, EvidenceIsComplete
<1>2. QED
  BY <1>1, SerialInvariance, PTL

\* For a user who waits and an SDK that drops leftovers: a run that waits while requests are
\* served waits for a decision that can be made, or for somebody on the way to it.  An approval
\* given before the writer has left _execute breaks this.
THEOREM DecidableWaits == SerialRequests => (Spec => [](Serving => WaitingRunsCanBeDecided))
<1>1. SInv => (Serving => WaitingRunsCanBeDecided)
  <2> SUFFICES ASSUME SInv, Serving, NEW r \in Runs, runState[r] = "waiting_for_approval"
               PROVE  \/ Pending(r) # {}
                      \/ pc[r] # "idle"
                      \/ \E h \in Handlers : call[h].run = r
    BY DEF WaitingRunsCanBeDecided
  <2> QED
    BY DEF SInv, Unanswered, Pending
<1>2. QED
  BY <1>1, SerialInvariance, PTL

\* Without restarts, requests are served at all times.
LEMMA AlwaysServing == MaxCrashes = 0 => (Spec => []Serving)
<1>1. SUFFICES ASSUME MaxCrashes = 0  PROVE Spec => []Serving
  OBVIOUS
<1>2. Init => Serving
  BY DEF Init, Serving
<1>3. TypeOK /\ Serving /\ [Next]_vars => Serving'
  <2> SUFFICES ASSUME TypeOK, Serving, [Next]_vars  PROVE Serving'
    OBVIOUS
  <2>1. ~ Crash
    BY <1>1 DEF Crash, TypeOK
  <2>2. ~ RecoverStep
    BY DEF RecoverStep, RecoverDeny, RecoverCancel, RecoverEnd, Serving
  <2>3. ASSUME NEW h \in Handlers, Send(h) \/ HandlerStep(h)  PROVE UNCHANGED phase
    BY <2>3, HandlerAlone DEF Launch
  <2>4. ASSUME NEW s \in Runs, WriterStep(s)  PROVE UNCHANGED phase
    BY <2>4 DEF WriterStep, Enter, Execute, Propose, Confirm, Proceed, Return, Inspect, Conclude,
       Except, TransitionWriter, StaleWriter, Evidence, Freeze, GetRun, Release, process
  <2>5. QED
    BY <2>1, <2>2, <2>3, <2>4 DEF Next, vars, Serving
<1>4. QED
  BY <1>2, <1>3, Typing, PTL DEF Spec

\* The same at all times, in a server that is not restarted: in a recovering one the run
\* that it has not come to yet waits for it.
THEOREM WaitingRunsAreDecidable ==
    SerialRequests /\ MaxCrashes = 0 => (Spec => []WaitingRunsCanBeDecided)
  BY DecidableWaits, AlwaysServing, PTL

\* For a user who waits and an SDK that drops leftovers, AgentRuns implements RunAuthority.
THEOREM AuthorityIsKept == SerialRequests => (Spec => ImplementsAuthority)
<1>1. SUFFICES ASSUME SerialRequests  PROVE Spec => ImplementsAuthority
  OBVIOUS
<1>2. Init => Authority!Init
  BY DEF Init, Authority!Init
<1>3. SInv /\ [Next]_vars => [Authority!Next]_(Authority!avars)
  BY <1>1, AuthorityStep DEF SInv
<1>4. QED
  BY <1>1, <1>2, <1>3, SerialInvariance, PTL DEF Spec, Authority!Spec, ImplementsAuthority
=============================================================================
