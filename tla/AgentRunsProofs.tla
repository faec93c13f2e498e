--------------------------- MODULE AgentRunsProofs ---------------------------
(***************************************************************************)
(* Proofs about AgentRuns, for any number of runs, handlers, actions and   *)
(* restarts, whatever requests race: typing, one writer, final decisions,  *)
(* frozen evidence, and where grants come from.                            *)
(***************************************************************************)
EXTENDS AgentRuns, TLAPS

----------------------------------------------------------------------------
(* The inductive invariant *)

\* A handler past its first steps serves a run that was created, an approval
\* request names an action, and the steps of the other requests are not stop's.
WellCalled ==
    \A h \in Handlers :
        /\ pc[h] \notin {"idle", "check", "create"} => call[h].run \in Runs
        /\ call[h].run \in Runs => runState[call[h].run] # "none"
        /\ pc[h] \in {"resolve", "grant"} => call[h].act \in Actions
        /\ pc[h] \in {"resolve", "grant", "pending", "reject", "runtime"} => call[h].op # "stop"

\* A writer freezes changes for a terminal state only, and no writer puts a run
\* back to where it started.
WritersConclude ==
    \A r \in Runs :
        /\ pc[r] \in {"evidence", "freeze"} => goal[r] \in Terminal
        /\ pc[r] \in {"get", "cas"} => goal[r] \in Terminal \cup {"paused", "waiting_for_approval"}

\* An action has an owner once it was proposed, and a decision only then.
ProposedOnce ==
    \A a \in Actions :
        /\ progress[a] = "unseen" => owner[a] = NoRun /\ decision[a] = "none"
        /\ progress[a] # "unseen" => owner[a] \in Runs

\* A handler that resolves an approval serves the run that owns it, and one that
\* puts a category into memory has stored the grant.
GrantsInHand ==
    \A h \in Handlers :
        /\ pc[h] = "resolve" => owner[call[h].act] = call[h].run
        /\ pc[h] = "grant" => Category[call[h].act] \in grants[call[h].run]

\* A HIGH-risk action without a request for approval was proposed under a grant.
UnaskedWasGranted ==
    \A a \in Actions \ Routine :
        progress[a] # "unseen" /\ decision[a] = "none" => Category[a] \in grants[owner[a]]

\* Some record says what the run changed, or why nobody knows.
HasEvidence(r) == manifest[r] # NoManifest \/ r \in warned

\* The run cannot have changed anything: it has not started, or it never will.
Untouched(r) ==
    \/ runState[r] \in {"none", "queued"}
    \/ runState[r] \in Terminal /\ ~HasEvidence(r)

UntouchedRunsAreQuiet ==
    \A r \in Runs : Untouched(r) =>
        /\ pc[r] = "idle"
        /\ \A a \in Actions : owner[a] # r
        /\ \A h \in Handlers : pc[h] = "launch" => call[h].run # r

\* A _transition to a terminal state comes after _persist_change_manifest.
EvidenceComesFirst ==
    \A p \in Procs :
        pc[p] \in {"get", "cas"} /\ RunOf(p) \in Runs /\ Target(p) \in Terminal
            => HasEvidence(RunOf(p))

\* start keeps _guard from its check to its end, so no other request gets past
\* _runtime_for while its run is queued.
StartIsGuarded ==
    \A h \in Handlers :
        /\ pc[h] \in {"create", "boot"} => guard = h
        /\ pc[h] = "boot" =>
            /\ runState[call[h].run] = "queued"
            /\ \A g \in Handlers \ {h} : call[g].run = call[h].run => pc[g] = "signal"

\* The constructor runs before any handler or writer does.
RecoveryIsAlone == phase = "recovering" => \A p \in Procs : pc[p] = "idle"

Control ==
    /\ WellCalled
    /\ WritersConclude
    /\ GrantsInHand
    /\ StartIsGuarded
    /\ EvidenceComesFirst
    /\ UntouchedRunsAreQuiet
    /\ RecoveryIsAlone

IInv ==
    /\ TypeOK
    /\ ProposedOnce
    /\ Control
    /\ SingleWriter
    /\ GrantsComeFromApprovals
    /\ UnaskedWasGranted

----------------------------------------------------------------------------
(* Typing *)

\* A handler that serves no request has a call of its type.
LEMMA NoCallType == NoCall \in Call
  BY DEF NoCall, Call

\* Goto keeps the type of pc.
LEMMA GotoType ==
    ASSUME TypeOK, NEW p, NEW l \in HandlerPCs \cup WriterPCs, Goto(p, l)
    PROVE  pc' \in [Procs -> HandlerPCs \cup WriterPCs]
  BY DEF TypeOK, Goto

\* An answered request leaves pc and call well typed.
LEMMA AnswerType ==
    ASSUME TypeOK, NEW h, Answer(h)
    PROVE  /\ pc' \in [Procs -> HandlerPCs \cup WriterPCs]
           /\ call' \in [Handlers -> Call]
  BY NoCallType, GotoType DEF TypeOK, Answer, HandlerPCs

\* A row written leaves states and revisions well typed.
LEMMA WriteRunType ==
    ASSUME TypeOK, NEW r, NEW s \in RunStates, WriteRun(r, s)
    PROVE  /\ runState' \in [Runs -> RunStates]
           /\ fresh' \in [Procs -> BOOLEAN]
  BY DEF TypeOK, WriteRun

\* Locals that are dropped stay well typed.
LEMMA DropLocalsType ==
    ASSUME TypeOK, NEW p, DropLocals(p)
    PROVE  /\ work' \in [Procs -> SUBSET Actions]
           /\ fresh' \in [Procs -> BOOLEAN]
  BY DEF TypeOK, DropLocals

\* Resolving approvals keeps the type of decision.
LEMMA ResolveType ==
    ASSUME TypeOK, NEW h, NEW A, NEW d \in Decisions, Resolve(h, A, d)
    PROVE  decision' \in [Actions -> Decisions]
  BY DEF TypeOK, Resolve

\* Saving a manifest keeps the type of manifest.
LEMMA InsertType ==
    ASSUME TypeOK, NEW r, NEW changes \in SUBSET Actions, Insert(r, changes)
    PROVE  manifest' \in [Runs -> (SUBSET Actions) \cup {NoManifest}]
  BY DEF TypeOK, Insert

\* Every step keeps every variable in its type.
LEMMA TypeStep ==
    ASSUME TypeOK, WellCalled, [Next]_vars
    PROVE  TypeOK'
<1> USE ConstantsAssumption DEF WellCalled, TypeOK, Procs, RunStates, Active, Terminal
<1>1. ASSUME NEW h \in Handlers, Send(h)  PROVE TypeOK'
  BY <1>1, GotoType, NoCallType DEF Send, store, sdk, process, Idle, Serving, Offered,
     Pending, Undecided, FirstStep, HandlerPCs, WriterPCs
<1>2. ASSUME NEW h \in Handlers, StartCheck(h)  PROVE TypeOK'
  BY <1>2, GotoType, AnswerType DEF StartCheck, store, sdk, HandlerPCs, WriterPCs
<1>3. ASSUME NEW h \in Handlers, StartCreate(h)  PROVE TypeOK'
  <2>1. PICK r \in Runs : WriteRun(r, "queued") /\ call' = [call EXCEPT ![h].run = r]
    BY <1>3 DEF StartCreate
  <2>2. [call[h] EXCEPT !.run = r] \in Call
    BY SMTT(30) DEF Call
  <2>3. call' \in [Handlers -> Call]
    BY <2>1, <2>2
  <2>4. pc' \in [Procs -> HandlerPCs \cup WriterPCs]
    BY <1>3, GotoType DEF StartCreate, HandlerPCs
  <2>5. QED
    BY <1>3, <2>1, <2>3, <2>4, WriteRunType DEF StartCreate, sdk, process
<1>4. ASSUME NEW h \in Handlers, StartBoot(h)  PROVE TypeOK'
  BY <1>4, WriteRunType, GotoType, AnswerType DEF StartBoot, sdk, HandlerPCs,
     WriterPCs, Decisions
<1>5. ASSUME NEW h \in Handlers, Launch(h)  PROVE TypeOK'
  <2>1. /\ pc' \in [Procs -> HandlerPCs \cup WriterPCs]
        /\ call' \in [Handlers -> Call]
        /\ locked' \in BOOLEAN
    <3>1. CASE ~locked
      <4>1. /\ pc' = [pc EXCEPT ![h] = "idle", ![call[h].run] = "enter"]
            /\ call' = [call EXCEPT ![h] = NoCall]
            /\ locked' = TRUE
        BY <1>5, <3>1 DEF Launch
      <4>2. QED
        BY <4>1, NoCallType DEF HandlerPCs, WriterPCs
    <3>2. CASE locked
      BY <1>5, <3>2, AnswerType DEF Launch
    <3>3. QED
      BY <3>1, <3>2
  <2>2. QED
    BY <1>5, <2>1 DEF Launch, store, sdk
<1>6. ASSUME NEW h \in Handlers, Approve(h)  PROVE TypeOK'
  BY <1>6, GotoType, AnswerType, ResolveType DEF Approve, sdk, process, HandlerPCs,
     WriterPCs, Decisions
<1>7. ASSUME NEW h \in Handlers, ApproveCategory(h)  PROVE TypeOK'
  BY <1>7, GotoType, AnswerType, ResolveType DEF ApproveCategory, sdk, process,
     Undecided, HandlerPCs, WriterPCs, Decisions
<1>8. ASSUME NEW h \in Handlers, Grant(h)  PROVE TypeOK'
  BY <1>8, GotoType DEF Grant, store, sdk, HandlerPCs, WriterPCs
<1>9. ASSUME NEW h \in Handlers, ContinueIfReady(h)  PROVE TypeOK'
  BY <1>9, GotoType, AnswerType DEF ContinueIfReady, store, sdk, process, Pending,
     Undecided, HandlerPCs, WriterPCs
<1>10. ASSUME NEW h \in Handlers, Deny(h)  PROVE TypeOK'
  BY <1>10, GotoType, AnswerType, ResolveType DEF Deny, sdk, process, Undecided,
     HandlerPCs, WriterPCs, Decisions
<1>11. ASSUME NEW h \in Handlers, Reject(h)  PROVE TypeOK'
  BY <1>11, GotoType DEF Reject, store, process, Proposed, HandlerPCs, WriterPCs,
     Progress, Statuses
<1>12. ASSUME NEW h \in Handlers, Runtime(h)  PROVE TypeOK'
  BY <1>12, GotoType DEF Runtime, store, sdk, process, HandlerPCs, WriterPCs
<1>13. ASSUME NEW h \in Handlers, Signal(h)  PROVE TypeOK'
  BY <1>13, GotoType DEF Signal, store, process, HandlerPCs, WriterPCs, Progress,
     Statuses
<1>14. ASSUME NEW h \in Handlers, StopList(h)  PROVE TypeOK'
  BY <1>14, GotoType DEF StopList, store, sdk, process, Pending, Undecided,
     HandlerPCs, WriterPCs
<1>15. ASSUME NEW h \in Handlers, StopDeny(h)  PROVE TypeOK'
  BY SMTT(30), <1>15, GotoType, AnswerType, DropLocalsType, ResolveType DEF StopDeny, sdk,
     process, HandlerPCs, WriterPCs, Decisions
<1>16. ASSUME NEW h \in Handlers, TransitionHandler(h)  PROVE TypeOK'
  BY <1>16, WriteRunType, GotoType, AnswerType DEF TransitionHandler, sdk, process,
     Target, HandlerPCs, WriterPCs, Decisions
<1>17. ASSUME NEW h \in Handlers, StaleHandler(h)  PROVE TypeOK'
  BY <1>17, AnswerType, GotoType DEF StaleHandler, store, sdk, process, HandlerPCs,
     WriterPCs
<1>18. ASSUME NEW p \in Procs, Evidence(p)  PROVE TypeOK'
  BY <1>18, GotoType DEF Evidence, sdk, process, RunOf, Written, NoManifest,
     HandlerPCs, WriterPCs, Decisions
<1>19. ASSUME NEW p \in Procs, Freeze(p)  PROVE TypeOK'
  BY <1>19, GotoType, InsertType DEF Freeze, sdk, process, RunOf, HandlerPCs,
     WriterPCs, Decisions
<1>20. ASSUME NEW p \in Procs, GetRun(p)  PROVE TypeOK'
  BY <1>20, GotoType DEF GetRun, store, sdk, process, HandlerPCs, WriterPCs
<1>21. ASSUME NEW r \in Runs, Enter(r)  PROVE TypeOK'
  BY <1>21, GotoType DEF Enter, store, process, Proposed, HandlerPCs, WriterPCs,
     Progress, Statuses
<1>22. ASSUME NEW r \in Runs, Execute(r)  PROVE TypeOK'
  BY <1>22 DEF Execute, store, procs, process, Released, Progress, Statuses
<1>23. ASSUME NEW r \in Runs, Propose(r)  PROVE TypeOK'
  BY <1>23, WriteRunType DEF Propose, process, Released, NeedsApproval, GrantApplies,
     HandlerPCs, WriterPCs, Decisions, Progress, Statuses
<1>24. ASSUME NEW r \in Runs, Confirm(r)  PROVE TypeOK'
  BY <1>24, GotoType DEF Confirm, store, process, Proposed, NeedsApproval,
     GrantApplies, HandlerPCs, WriterPCs, Progress, Statuses
<1>25. ASSUME NEW r \in Runs, Proceed(r)  PROVE TypeOK'
  BY <1>25 DEF Proceed, store, procs, process, Proposed, NeedsApproval, GrantApplies,
     Progress, Statuses
<1>26. ASSUME NEW r \in Runs, Return(r)  PROVE TypeOK'
  BY SMTT(30), <1>26, GotoType DEF Return, store, process, Proposed, Released, HandlerPCs,
     WriterPCs, Progress, Statuses
<1>27. ASSUME NEW r \in Runs, Inspect(r)  PROVE TypeOK'
  BY <1>27, GotoType DEF Inspect, store, sdk, process, HandlerPCs, WriterPCs
<1>28. ASSUME NEW r \in Runs, Conclude(r)  PROVE TypeOK'
  BY <1>28, GotoType DEF Conclude, store, sdk, process, Outcome, Resting, RestState,
     HandlerPCs, WriterPCs, Statuses
<1>29. ASSUME NEW r \in Runs, Except(r)  PROVE TypeOK'
  BY <1>29, GotoType DEF Except, store, sdk, process, HandlerPCs, WriterPCs
<1>30. ASSUME NEW r \in Runs, TransitionWriter(r)  PROVE TypeOK'
  BY <1>30, WriteRunType, GotoType DEF TransitionWriter, sdk, process, Target,
     HandlerPCs, WriterPCs, Decisions
<1>31. ASSUME NEW r \in Runs, StaleWriter(r)  PROVE TypeOK'
  BY <1>31, GotoType DEF StaleWriter, store, sdk, process, HandlerPCs, WriterPCs
<1>32. ASSUME NEW r \in Runs, Release(r)  PROVE TypeOK'
  BY <1>32, GotoType, DropLocalsType DEF Release, store, sdk, HandlerPCs, WriterPCs
<1>33. ASSUME NEW r \in Runs, RecoverDeny(r)  PROVE TypeOK'
  BY <1>33 DEF RecoverDeny, sdk, procs, process, Undecided, Pending, Decisions
<1>34. ASSUME NEW r \in Runs, RecoverCancel(r)  PROVE TypeOK'
  BY <1>34, WriteRunType, InsertType DEF RecoverCancel, sdk, process, Written,
     Pending, Undecided, NoManifest, HandlerPCs, WriterPCs, Decisions
<1>35. ASSUME Crash  PROVE TypeOK'
  <2>1. /\ pc' \in [Procs -> HandlerPCs \cup WriterPCs]
        /\ call' \in [Handlers -> Call]
        /\ work' \in [Procs -> SUBSET Actions]
        /\ fresh' \in [Procs -> BOOLEAN]
    BY <1>35, NoCallType DEF Crash, HandlerPCs
  <2>2. /\ goal' \in [Runs -> RunStates]
        /\ status' \in [Runs -> Statuses]
        /\ crashes' \in 0 .. MaxCrashes
    BY <1>35 DEF Crash, Statuses
  <2>3. QED
    BY <1>35, <2>1, <2>2 DEF Crash, store
<1>36. ASSUME RecoverEnd  PROVE TypeOK'
  BY <1>36 DEF RecoverEnd, store, sdk, procs
<1>37. CASE UNCHANGED vars
  BY <1>37 DEF vars
<1>38. QED
  BY <1>1, <1>2, <1>3, <1>4, <1>5, <1>6, <1>7, <1>8, <1>9, <1>10, <1>11, <1>12, <1>13,
     <1>14, <1>15, <1>16, <1>17, <1>18, <1>19, <1>20, <1>21, <1>22, <1>23, <1>24,
     <1>25, <1>26, <1>27, <1>28, <1>29, <1>30, <1>31, <1>32, <1>33, <1>34, <1>35,
     <1>36, <1>37
     DEF Next, HandlerStep, WriterStep, RecoverStep, Procs

----------------------------------------------------------------------------
(* Control: who may be where *)

\* Every step keeps the facts about processes that the other proofs rest on.
LEMMA ControlStep ==
    ASSUME TypeOK, ProposedOnce, Control, [Next]_vars
    PROVE  Control'
<1> USE ConstantsAssumption DEF Control, WellCalled, WritersConclude, GrantsInHand,
        StartIsGuarded, EvidenceComesFirst, UntouchedRunsAreQuiet, RecoveryIsAlone, TypeOK,
        Procs, HasEvidence, Untouched, Terminal, Target, RunOf, RunStates, Active
<1>1. ASSUME NEW h \in Handlers, Send(h)  PROVE Control'
  BY <1>1 DEF Send, store, sdk, process, Goto, Idle, Serving, Offered, Pending,
     Undecided, FirstStep
<1>2. ASSUME NEW h \in Handlers, StartCheck(h)  PROVE Control'
  BY <1>2 DEF StartCheck, store, sdk, Goto, Answer, NoCall
<1>3. ASSUME NEW h \in Handlers, StartCreate(h)  PROVE Control'
  BY <1>3 DEF StartCreate, sdk, process, WriteRun, Goto
<1>4. ASSUME NEW h \in Handlers, StartBoot(h)  PROVE Control'
  <2> DEFINE r == call[h].run
  <2>1. /\ pc[h] = "boot" /\ r \in Runs /\ guard = h /\ runState[r] = "queued"
        /\ UNCHANGED <<owner, grants, manifest, warned, goal, phase>>
    BY <1>4 DEF StartBoot
  <2>2. CASE /\ runState' = [runState EXCEPT ![r] = "running"]
             /\ pc' = [pc EXCEPT ![h] = "launch"]
             /\ UNCHANGED <<call, guard>>
    <3>1. WellCalled' /\ WritersConclude' /\ GrantsInHand'
      BY <2>1, <2>2
    <3>2. StartIsGuarded' /\ EvidenceComesFirst'
      BY <2>1, <2>2
    <3>3. UntouchedRunsAreQuiet' /\ RecoveryIsAlone'
      BY <2>1, <2>2
    <3>4. QED
      BY <3>1, <3>2, <3>3
  <2>3. CASE /\ runState' \in {runState, [runState EXCEPT ![r] = "failed"]}
             /\ pc' = [pc EXCEPT ![h] = "idle"]
             /\ call' = [call EXCEPT ![h] = NoCall]
             /\ guard' = NoOne
    <3>1. WellCalled' /\ WritersConclude' /\ GrantsInHand'
      BY <2>1, <2>3 DEF NoCall
    <3>2. StartIsGuarded' /\ EvidenceComesFirst'
      BY <2>1, <2>3 DEF NoCall
    <3>3. UntouchedRunsAreQuiet' /\ RecoveryIsAlone'
      BY <2>1, <2>3 DEF NoCall
    <3>4. QED
      BY <3>1, <3>2, <3>3
  <2>4. QED
    BY <1>4, <2>2, <2>3 DEF StartBoot, WriteRun, Goto, Answer
<1>5. ASSUME NEW h \in Handlers, Launch(h)  PROVE Control'
  <2>1. CASE locked
    <3>1. /\ pc' = [pc EXCEPT ![h] = "idle"]
          /\ call' = [call EXCEPT ![h] = NoCall]
          /\ guard' = IF guard = h THEN NoOne ELSE guard
          /\ UNCHANGED <<runState, owner, grants, manifest, warned, goal, phase>>
      BY <1>5, <2>1 DEF Launch, store, Answer, Goto
    <3>2. pc[h] = "launch" /\ NoCall.run \notin Runs
      BY <1>5 DEF Launch, NoCall
    <3>3. WellCalled' /\ WritersConclude' /\ GrantsInHand'
      BY <3>1, <3>2
    <3>4. StartIsGuarded' /\ EvidenceComesFirst'
      BY <3>1, <3>2
    <3>5. UntouchedRunsAreQuiet' /\ RecoveryIsAlone'
      BY <3>1, <3>2
    <3>6. QED
      BY <3>3, <3>4, <3>5
  <2>2. CASE ~locked
    <3>1. /\ call[h].run \in Runs
          /\ ~Untouched(call[h].run)
      BY <1>5 DEF Launch
    <3>2. /\ pc' = [pc EXCEPT ![h] = "idle", ![call[h].run] = "enter"]
          /\ call' = [call EXCEPT ![h] = NoCall]
          /\ guard' = IF guard = h THEN NoOne ELSE guard
          /\ UNCHANGED <<runState, owner, grants, manifest, warned, goal, phase>>
      BY <1>5, <2>2 DEF Launch, store
    <3>3. WellCalled' /\ WritersConclude' /\ GrantsInHand'
      BY <3>1, <3>2 DEF NoCall
    <3>4. StartIsGuarded' /\ EvidenceComesFirst'
      BY <3>1, <3>2 DEF NoCall
    <3>5. UntouchedRunsAreQuiet' /\ RecoveryIsAlone'
      BY <1>5, <3>1, <3>2 DEF NoCall, Launch
    <3>6. QED
      BY <3>3, <3>4, <3>5
  <2>3. QED
    BY <2>1, <2>2
<1>6. ASSUME NEW h \in Handlers, Approve(h)  PROVE Control'
  BY <1>6 DEF Approve, sdk, process, Goto, Answer, NoCall, Resolve
<1>7. ASSUME NEW h \in Handlers, ApproveCategory(h)  PROVE Control'
  <2>1. \A r \in Runs : grants[r] \subseteq grants'[r]
    BY <1>7 DEF ApproveCategory
  <2>2. CASE pc'[h] = "grant"
    <3>1. /\ pc' = [pc EXCEPT ![h] = "grant"]
          /\ UNCHANGED <<runState, owner, manifest, warned, call, goal, guard, phase>>
      BY <1>7, <2>2 DEF ApproveCategory, process, Answer, Goto
    <3>2. Category[call[h].act] \in grants'[call[h].run]
      BY <1>7, <2>2 DEF ApproveCategory, Answer, Goto
    <3>3. QED
      BY <1>7, <2>1, <3>1, <3>2 DEF ApproveCategory
  <2>3. CASE pc'[h] # "grant"
    <3>1. /\ pc' = [pc EXCEPT ![h] = "idle"]
          /\ call' = [call EXCEPT ![h] = NoCall]
          /\ UNCHANGED <<runState, owner, grants, manifest, warned, goal, guard, phase>>
      BY <1>7, <2>3 DEF ApproveCategory, process, Goto, Answer
    <3>2. QED
      BY SMTT(30), <3>1, <1>7 DEF NoCall, ApproveCategory
  <2>4. QED
    BY <2>2, <2>3
<1>8. ASSUME NEW h \in Handlers, Grant(h)  PROVE Control'
  BY <1>8 DEF Grant, store, sdk, Goto
<1>9. ASSUME NEW h \in Handlers, ContinueIfReady(h)  PROVE Control'
  BY SMTT(30), <1>9 DEF ContinueIfReady, store, sdk, process, Goto, Answer, NoCall, Pending,
     Undecided
<1>10. ASSUME NEW h \in Handlers, Deny(h)  PROVE Control'
  BY <1>10 DEF Deny, sdk, process, Goto, Answer, NoCall, Undecided, Resolve
<1>11. ASSUME NEW h \in Handlers, Reject(h)  PROVE Control'
  BY <1>11 DEF Reject, store, process, Goto, Proposed
<1>12. ASSUME NEW h \in Handlers, Runtime(h)  PROVE Control'
  BY <1>12 DEF Runtime, store, sdk, process, Goto
<1>13. ASSUME NEW h \in Handlers, Signal(h)  PROVE Control'
  BY <1>13 DEF Signal, store, process, Goto
<1>14. ASSUME NEW h \in Handlers, StopList(h)  PROVE Control'
  BY <1>14 DEF StopList, store, sdk, process, Goto, Pending, Undecided
<1>15. ASSUME NEW h \in Handlers, StopDeny(h)  PROVE Control'
  BY SMTT(30), <1>15 DEF StopDeny, sdk, process, Goto, Answer, NoCall, DropLocals, Resolve
<1>16. ASSUME NEW h \in Handlers, TransitionHandler(h)  PROVE Control'
  <2> DEFINE r == call[h].run
  <2>1. /\ r \in Runs /\ pc[h] = "cas"
        /\ runState' = [runState EXCEPT ![r] = Target(h)]
        /\ UNCHANGED <<owner, grants, manifest, warned, goal, guard, phase>>
    BY <1>16 DEF TransitionHandler, WriteRun, process
  <2>2. Target(h) \in {"paused", "cancelled", "running"}
    OBVIOUS
  <2>3. Target(h) \in Terminal => HasEvidence(r)
    BY <2>1
  <2>4. runState[r] # "queued" \/ \A g \in Handlers : pc[g] = "boot" => call[g].run # r
    BY <2>1
  <2>5. CASE Target(h) = "running"
    <3>1. pc' = [pc EXCEPT ![h] = "launch"] /\ UNCHANGED call
      BY <1>16, <2>5 DEF TransitionHandler, Goto
    <3>2. QED
      BY <2>1, <2>4, <2>5, <3>1
  <2>6. CASE Target(h) # "running"
    <3>1. /\ pc' = [pc EXCEPT ![h] = "idle"]
          /\ call' = [call EXCEPT ![h] = NoCall]
      BY <1>16, <2>6 DEF TransitionHandler, Answer, Goto
    <3>2. QED
      BY SMTT(30), <2>1, <2>2, <2>3, <2>4, <3>1 DEF NoCall
  <2>7. QED
    BY <2>5, <2>6
<1>17. ASSUME NEW h \in Handlers, StaleHandler(h)  PROVE Control'
  BY <1>17 DEF StaleHandler, store, sdk, process, Answer, Goto, NoCall
<1>18. ASSUME NEW p \in Procs, Evidence(p)  PROVE Control'
  BY <1>18 DEF Evidence, sdk, process, Goto, Written, NoManifest
<1>19. ASSUME NEW p \in Procs, Freeze(p)  PROVE Control'
  BY SMTT(30), <1>19 DEF Freeze, sdk, process, Goto, Insert, NoManifest
<1>20. ASSUME NEW p \in Procs, GetRun(p)  PROVE Control'
  BY <1>20 DEF GetRun, store, sdk, process, Goto
<1>21. ASSUME NEW r \in Runs, Enter(r)  PROVE Control'
  BY <1>21 DEF Enter, store, process, Goto, Proposed
<1>22. ASSUME NEW r \in Runs, Execute(r)  PROVE Control'
  BY <1>22 DEF Execute, store, procs, process, Released
<1>23. ASSUME NEW r \in Runs, Propose(r)  PROVE Control'
  <2>1. /\ pc[r] = "run" /\ ~Untouched(r)
        /\ UNCHANGED <<pc, call, grants, manifest, warned, goal, guard, phase>>
    BY <1>23 DEF Propose, process
  <2>2. \A s \in Runs : s # r => runState'[s] = runState[s]
    BY <1>23 DEF Propose, WriteRun
  <2>3. runState'[r] \in {runState[r], "waiting_for_approval"}
    BY <1>23 DEF Propose, WriteRun
  <2>4. \A a \in Actions :
            \/ owner'[a] = owner[a]
            \/ owner[a] = NoRun /\ owner'[a] = r
    BY <1>23 DEF Propose, ProposedOnce
  <2>5. WellCalled' /\ WritersConclude' /\ RecoveryIsAlone'
    BY <2>1, <2>2, <2>3
  <2>6. GrantsInHand'
    BY <2>1, <2>4
  <2>7. StartIsGuarded' /\ EvidenceComesFirst'
    BY <2>1, <2>2, <2>3
  <2>8. UntouchedRunsAreQuiet'
    BY <2>1, <2>2, <2>3, <2>4
  <2>9. QED
    BY <2>5, <2>6, <2>7, <2>8
<1>24. ASSUME NEW r \in Runs, Confirm(r)  PROVE Control'
  BY <1>24 DEF Confirm, store, process, Goto, Proposed, NeedsApproval, GrantApplies
<1>25. ASSUME NEW r \in Runs, Proceed(r)  PROVE Control'
  BY <1>25 DEF Proceed, store, procs, process, Proposed, NeedsApproval, GrantApplies
<1>26. ASSUME NEW r \in Runs, Return(r)  PROVE Control'
  BY <1>26 DEF Return, store, process, Goto, Proposed, Released
<1>27. ASSUME NEW r \in Runs, Inspect(r)  PROVE Control'
  BY <1>27 DEF Inspect, store, sdk, process, Goto
<1>28. ASSUME NEW r \in Runs, Conclude(r)  PROVE Control'
  BY <1>28 DEF Conclude, store, sdk, process, Goto, Outcome, Resting, RestState
<1>29. ASSUME NEW r \in Runs, Except(r)  PROVE Control'
  BY <1>29 DEF Except, store, sdk, process, Goto
<1>30. ASSUME NEW r \in Runs, TransitionWriter(r)  PROVE Control'
  BY <1>30 DEF TransitionWriter, sdk, process, WriteRun, Goto
<1>31. ASSUME NEW r \in Runs, StaleWriter(r)  PROVE Control'
  BY <1>31 DEF StaleWriter, store, sdk, process, Goto
<1>32. ASSUME NEW r \in Runs, Release(r)  PROVE Control'
  BY <1>32 DEF Release, store, sdk, Goto, DropLocals
<1>33. ASSUME NEW r \in Runs, RecoverDeny(r)  PROVE Control'
  BY <1>33 DEF RecoverDeny, sdk, procs, process, Undecided, Pending
<1>34. ASSUME NEW r \in Runs, RecoverCancel(r)  PROVE Control'
  BY <1>34 DEF RecoverCancel, sdk, process, WriteRun, Written, Pending, Undecided,
     Insert, NoManifest
<1>35. ASSUME Crash  PROVE Control'
  BY <1>35 DEF Crash, store, NoCall
<1>36. ASSUME RecoverEnd  PROVE Control'
  BY <1>36 DEF RecoverEnd, store, sdk, procs
<1>37. CASE UNCHANGED vars
  BY <1>37 DEF vars
<1>38. QED
  BY <1>1, <1>2, <1>3, <1>4, <1>5, <1>6, <1>7, <1>8, <1>9, <1>10, <1>11, <1>12, <1>13,
     <1>14, <1>15, <1>16, <1>17, <1>18, <1>19, <1>20, <1>21, <1>22, <1>23, <1>24,
     <1>25, <1>26, <1>27, <1>28, <1>29, <1>30, <1>31, <1>32, <1>33, <1>34, <1>35,
     <1>36, <1>37
     DEF Next, HandlerStep, WriterStep, RecoverStep, Procs

----------------------------------------------------------------------------
(* Frames: which steps write what *)

\* Proposals, decisions and progress change in these steps only.
LEMMA ApprovalFrame ==
    ASSUME [Next]_vars
    PROVE  \/ UNCHANGED <<owner, decision, progress>>
           \/ \E h \in Handlers : Approve(h) \/ ApproveCategory(h) \/ Deny(h) \/ Reject(h) \/ StopDeny(h)
           \/ \E r \in Runs : Enter(r) \/ Execute(r) \/ Propose(r) \/ Proceed(r) \/ RecoverDeny(r)
  BY DEF vars, store, sdk, procs, process, Next, HandlerStep, WriterStep, RecoverStep,
     Procs, Send, StartCheck, StartCreate, StartBoot, Launch, Grant, ContinueIfReady,
     Runtime, Signal, StopList, TransitionHandler, StaleHandler, Evidence, Freeze,
     GetRun, Confirm, Return, Inspect, Conclude, Except, TransitionWriter,
     StaleWriter, Release, Crash, RecoverCancel, RecoverEnd

\* Stored grants change in this step only.
LEMMA GrantFrame ==
    ASSUME [Next]_vars
    PROVE  \/ UNCHANGED grants
           \/ \E h \in Handlers : ApproveCategory(h)
  BY ZenonT(60) DEF vars, store, sdk, procs, process, Next, HandlerStep, WriterStep, RecoverStep,
     Procs, Send, StartCheck, StartCreate, StartBoot, Launch, Approve, Grant,
     ContinueIfReady, Deny, Reject, Runtime, Signal, StopList, StopDeny,
     TransitionHandler, StaleHandler, Evidence, Freeze, GetRun, Enter, Execute,
     Propose, Confirm, Proceed, Return, Inspect, Conclude, Except, TransitionWriter,
     StaleWriter, Release, Crash, RecoverDeny, RecoverCancel, RecoverEnd

\* The grants in memory change in these steps only.
LEMMA CachedFrame ==
    ASSUME [Next]_vars
    PROVE  \/ UNCHANGED cached
           \/ \E h \in Handlers : Grant(h)
           \/ Crash
  BY ZenonT(60) DEF vars, store, sdk, procs, process, Next, HandlerStep, WriterStep, RecoverStep,
     Procs, Send, StartCheck, StartCreate, StartBoot, Launch, Approve,
     ApproveCategory, ContinueIfReady, Deny, Reject, Runtime, Signal, StopList,
     StopDeny, TransitionHandler, StaleHandler, Evidence, Freeze, GetRun, Enter,
     Execute, Propose, Confirm, Proceed, Return, Inspect, Conclude, Except,
     TransitionWriter, StaleWriter, Release, RecoverDeny, RecoverCancel, RecoverEnd

\* Manifests change in these steps only.
LEMMA ManifestFrame ==
    ASSUME [Next]_vars
    PROVE  \/ UNCHANGED manifest
           \/ \E p \in Procs : Freeze(p)
           \/ \E r \in Runs : RecoverCancel(r)
  BY ZenonT(60) DEF vars, store, sdk, procs, process, Next, HandlerStep, WriterStep, RecoverStep,
     Procs, Send, StartCheck, StartCreate, StartBoot, Launch, Approve,
     ApproveCategory, Grant, ContinueIfReady, Deny, Reject, Runtime, Signal, StopList,
     StopDeny, TransitionHandler, StaleHandler, Evidence, GetRun, Enter, Execute,
     Propose, Confirm, Proceed, Return, Inspect, Conclude, Except, TransitionWriter,
     StaleWriter, Release, Crash, RecoverDeny, RecoverEnd

----------------------------------------------------------------------------
(* One writer *)

\* A writer appears with the lock in Launch, and goes with it in Release or Crash.
LEMMA LockFrame ==
    ASSUME TypeOK, WellCalled, [Next]_vars
    PROVE  \/ UNCHANGED locked /\ \A r \in Runs : pc[r] = "idle" <=> pc'[r] = "idle"
           \/ \E h \in Handlers : Launch(h)
           \/ \E r \in Runs : Release(r)
           \/ Crash
<1> DEFINE Quiet == UNCHANGED locked /\ \A r \in Runs : pc[r] = "idle" <=> pc'[r] = "idle"
<1> USE ConstantsAssumption DEF TypeOK, Procs
<1>1. ASSUME NEW h \in Handlers, Send(h) \/ HandlerStep(h), ~Launch(h)  PROVE Quiet
  BY ZenonT(60), <1>1 DEF HandlerStep, Send, StartCheck, StartCreate, StartBoot, Approve,
     ApproveCategory, Grant, ContinueIfReady, Deny, Reject, Runtime, Signal, StopList,
     StopDeny, TransitionHandler, StaleHandler, Evidence, Freeze, GetRun, Goto,
     Answer, FirstStep, store, process
<1>2. ASSUME NEW s \in Runs, WriterStep(s), ~Release(s)  PROVE Quiet
  BY <1>2 DEF WriterStep, Enter, Execute, Propose, Confirm, Proceed, Return, Inspect,
     Conclude, Except, TransitionWriter, StaleWriter, Evidence, Freeze, GetRun, Goto,
     procs, process
<1>3. CASE RecoverStep \/ UNCHANGED vars
  BY <1>3 DEF RecoverStep, RecoverDeny, RecoverCancel, RecoverEnd, vars, procs, process
<1>4. QED
  BY <1>1, <1>2, <1>3 DEF Next

\* Every step keeps the workspace to one writer.
LEMMA SingleWriterStep ==
    ASSUME TypeOK, WellCalled, SingleWriter, [Next]_vars
    PROVE  SingleWriter'
<1> USE ConstantsAssumption DEF TypeOK, SingleWriter, Procs
<1>1. CASE UNCHANGED locked /\ \A r \in Runs : pc[r] = "idle" <=> pc'[r] = "idle"
  BY <1>1
<1>2. ASSUME NEW h \in Handlers, Launch(h)  PROVE SingleWriter'
  BY <1>2 DEF Launch, WellCalled, Answer, Goto
<1>3. ASSUME NEW r \in Runs, Release(r)  PROVE SingleWriter'
  BY <1>3 DEF Release, Goto
<1>4. CASE Crash
  BY <1>4 DEF Crash
<1>5. QED
  BY <1>1, <1>2, <1>3, <1>4, LockFrame

----------------------------------------------------------------------------
(* Decisions *)

\* Every step keeps the owner and the decision of what was not proposed yet.
LEMMA ProposedOnceStep ==
    ASSUME TypeOK, ProposedOnce, [Next]_vars
    PROVE  ProposedOnce'
<1> USE DEF TypeOK, ProposedOnce
<1>1. CASE UNCHANGED <<owner, decision, progress>>
  BY <1>1
<1>2. ASSUME NEW h \in Handlers,
             Approve(h) \/ ApproveCategory(h) \/ Deny(h) \/ StopDeny(h)
      PROVE  ProposedOnce'
  BY <1>2 DEF Approve, ApproveCategory, Deny, StopDeny, sdk, Resolve, Undecided
<1>3. ASSUME NEW h \in Handlers, Reject(h)  PROVE ProposedOnce'
  BY <1>3 DEF Reject, store, Proposed
<1>4. ASSUME NEW r \in Runs, Enter(r) \/ Execute(r) \/ Proceed(r)  PROVE ProposedOnce'
  BY <1>4 DEF Enter, Execute, Proceed, store, Proposed, Released
<1>5. ASSUME NEW r \in Runs, Propose(r)  PROVE ProposedOnce'
  BY <1>5 DEF Propose
<1>6. ASSUME NEW r \in Runs, RecoverDeny(r)  PROVE ProposedOnce'
  BY <1>6 DEF RecoverDeny, sdk, Undecided
<1>7. QED
  BY <1>1, <1>2, <1>3, <1>4, <1>5, <1>6, ApprovalFrame

\* No step revises a decision.
LEMMA DecisionStep ==
    ASSUME TypeOK, ProposedOnce, [Next]_vars,
           NEW a \in Actions, decision[a] \in {"approve", "deny"}
    PROVE  decision'[a] = decision[a]
<1> USE DEF TypeOK, ProposedOnce
<1>1. ASSUME NEW h \in Handlers,
             Approve(h) \/ ApproveCategory(h) \/ Deny(h) \/ StopDeny(h) \/ Reject(h)
      PROVE  decision'[a] = decision[a]
  BY <1>1 DEF Approve, ApproveCategory, Deny, StopDeny, Reject, store, Resolve, Undecided
<1>2. ASSUME NEW r \in Runs,
             Enter(r) \/ Execute(r) \/ Proceed(r) \/ Propose(r) \/ RecoverDeny(r)
      PROVE  decision'[a] = decision[a]
  BY <1>2 DEF Enter, Execute, Proceed, Propose, RecoverDeny, store, Undecided
<1>3. QED
  BY <1>1, <1>2, ApprovalFrame

----------------------------------------------------------------------------
(* Manifests *)

\* No step replaces a manifest.
LEMMA ManifestStep ==
    ASSUME TypeOK, [Next]_vars, NEW r \in Runs, manifest[r] # NoManifest
    PROVE  manifest'[r] = manifest[r]
  BY ManifestFrame DEF TypeOK, Freeze, RecoverCancel, Insert

----------------------------------------------------------------------------
(* Grants *)

\* No step takes a proposed action from its run.
LEMMA OwnerStep ==
    ASSUME TypeOK, ProposedOnce, [Next]_vars, NEW a \in Actions, progress[a] # "unseen"
    PROVE  owner'[a] = owner[a]
<1> USE DEF TypeOK, ProposedOnce
<1>1. ASSUME NEW h \in Handlers,
             Approve(h) \/ ApproveCategory(h) \/ Deny(h) \/ StopDeny(h) \/ Reject(h)
      PROVE  owner'[a] = owner[a]
  BY <1>1 DEF Approve, ApproveCategory, Deny, StopDeny, Reject, store
<1>2. ASSUME NEW r \in Runs,
             Enter(r) \/ Execute(r) \/ Proceed(r) \/ Propose(r) \/ RecoverDeny(r)
      PROVE  owner'[a] = owner[a]
  BY <1>2 DEF Enter, Execute, Proceed, Propose, RecoverDeny, store
<1>3. QED
  BY <1>1, <1>2, ApprovalFrame

\* No step takes a stored grant away.
LEMMA GrantsGrow ==
    ASSUME TypeOK, [Next]_vars, NEW r \in Runs
    PROVE  grants[r] \subseteq grants'[r]
<1>1. CASE UNCHANGED grants
  BY <1>1
<1>2. ASSUME NEW h \in Handlers, ApproveCategory(h)
      PROVE  grants[r] \subseteq grants'[r]
  <2> DEFINE o == owner[call[h].act]
  <2>1. \/ grants' = grants
        \/ grants' = [grants EXCEPT ![o] = @ \cup {Category[call[h].act]}]
    BY <1>2 DEF ApproveCategory
  <2> HIDE DEF o
  <2>2. QED
    BY <2>1 DEF TypeOK
<1>3. QED
  BY <1>1, <1>2, GrantFrame

\* Every step keeps grants to what the user approved for that run.
LEMMA GrantStep ==
    ASSUME TypeOK, ProposedOnce, Control, GrantsComeFromApprovals, [Next]_vars
    PROVE  GrantsComeFromApprovals'
<1> USE DEF TypeOK
<1>1. ASSUME NEW a \in Actions, NEW r \in Runs, owner[a] = r, decision[a] = "approve"
      PROVE  owner'[a] = r /\ decision'[a] = "approve"
  BY <1>1, ConstantsAssumption, DecisionStep, OwnerStep DEF ProposedOnce
<1>2. ASSUME NEW r \in Runs  PROVE cached'[r] \subseteq grants'[r]
  <2>1. CASE UNCHANGED cached
    BY <2>1, GrantsGrow DEF GrantsComeFromApprovals
  <2>2. ASSUME NEW h \in Handlers, Grant(h)  PROVE cached'[r] \subseteq grants'[r]
    BY <2>2, GrantsGrow DEF Grant, GrantsComeFromApprovals, Control, GrantsInHand
  <2>3. CASE Crash
    BY <2>3 DEF Crash, store
  <2>4. QED
    BY <2>1, <2>2, <2>3, CachedFrame
<1>3. ASSUME NEW r \in Runs, NEW c \in grants'[r], c \in grants[r]
      PROVE  /\ c \in Grantable
             /\ \E a \in Actions : owner'[a] = r /\ Category[a] = c /\ decision'[a] = "approve"
  BY <1>1, <1>3 DEF GrantsComeFromApprovals
<1>4. ASSUME NEW r \in Runs, NEW c \in grants'[r], c \notin grants[r]
      PROVE  /\ c \in Grantable
             /\ \E a \in Actions : owner'[a] = r /\ Category[a] = c /\ decision'[a] = "approve"
  <2>1. PICK h \in Handlers : ApproveCategory(h)
    BY <1>4, GrantFrame
  <2> DEFINE a == call[h].act
  <2>2. a \in Actions /\ owner[a] = r /\ c = Category[a] /\ c \in Grantable
    BY <1>4, <2>1 DEF ApproveCategory, Control, WellCalled
  <2>3. decision'[a] = "approve" /\ UNCHANGED owner
    BY <1>4, <2>1, <2>2 DEF ApproveCategory, Resolve, Undecided
  <2>4. QED
    BY <2>2, <2>3
<1>5. QED
  BY <1>2, <1>3, <1>4 DEF GrantsComeFromApprovals

\* Every step keeps what nobody was asked about under a grant.
LEMMA UnaskedStep ==
    ASSUME TypeOK, ProposedOnce, GrantsComeFromApprovals, UnaskedWasGranted, [Next]_vars
    PROVE  UnaskedWasGranted'
<1> USE DEF TypeOK
<1>1. SUFFICES ASSUME NEW a \in Actions \ Routine, progress'[a] # "unseen",
                      decision'[a] = "none"
               PROVE  Category[a] \in grants'[owner'[a]]
  BY DEF UnaskedWasGranted
<1>2. CASE progress[a] # "unseen"
  <2>1. owner[a] \in Runs /\ owner'[a] = owner[a]
    BY <1>2, OwnerStep DEF ProposedOnce
  <2>2. decision[a] = "none"
    <3>1. ASSUME NEW h \in Handlers,
                 Approve(h) \/ ApproveCategory(h) \/ Deny(h) \/ StopDeny(h) \/ Reject(h)
          PROVE  decision[a] = "none"
      BY <1>1, <3>1 DEF Approve, ApproveCategory, Deny, StopDeny, Reject, store, Resolve
    <3>2. ASSUME NEW r \in Runs,
                 Enter(r) \/ Execute(r) \/ Proceed(r) \/ Propose(r) \/ RecoverDeny(r)
          PROVE  decision[a] = "none"
      BY <1>1, <1>2, <3>2 DEF Enter, Execute, Proceed, Propose, RecoverDeny, store
    <3>3. QED
      BY <1>1, <3>1, <3>2, ApprovalFrame
  <2>3. QED
    BY <1>2, <2>1, <2>2, GrantsGrow DEF UnaskedWasGranted
<1>3. CASE progress[a] = "unseen"
  <2>1. PICK r \in Runs : Propose(r) /\ progress'[a] # progress[a]
    <3>1. ASSUME NEW h \in Handlers,
                 Approve(h) \/ ApproveCategory(h) \/ Deny(h) \/ StopDeny(h) \/ Reject(h)
          PROVE  progress'[a] = "unseen"
      BY <1>3, <3>1 DEF Approve, ApproveCategory, Deny, StopDeny, Reject, sdk, Proposed
    <3>2. ASSUME NEW r \in Runs, Enter(r) \/ Execute(r) \/ Proceed(r) \/ RecoverDeny(r)
          PROVE  progress'[a] = "unseen"
      BY <1>3, <3>2 DEF Enter, Execute, Proceed, RecoverDeny, sdk, Proposed, Released
    <3>3. QED
      BY <1>1, <1>3, <3>1, <3>2, ApprovalFrame
  <2>2. owner'[a] = r /\ ~NeedsApproval(r, a) /\ UNCHANGED grants
    BY <1>1, <1>3, <2>1 DEF Propose
  <2>3. QED
    BY <2>2 DEF NeedsApproval, GrantApplies, GrantsComeFromApprovals
<1>4. QED
  BY <1>2, <1>3

----------------------------------------------------------------------------
(* Places *)

\* The request a handler serves tells where it may be.
HandlersKeepPlace ==
    \A h \in Handlers :
        /\ pc[h] = "idle" <=> call[h].op = "none"
        /\ pc[h] \in {"check", "create", "boot"} => call[h].op = "start"
        /\ pc[h] = "resolve" => call[h].op \in {"approve", "approve_category", "deny"}
        /\ pc[h] = "grant" => call[h].op = "approve_category"
        /\ pc[h] = "pending" => call[h].op \in {"approve", "approve_category"}
        /\ pc[h] = "reject" => call[h].op = "deny"
        /\ pc[h] = "runtime" => call[h].op \in {"approve", "approve_category", "resume"}
        /\ pc[h] = "signal" => call[h].op \in {"pause", "stop"}
        /\ pc[h] \in {"list", "deny", "evidence", "freeze"} => call[h].op = "stop"
        /\ pc[h] \in {"get", "cas"} => call[h].op \notin {"none", "start"}
        /\ pc[h] = "launch" => call[h].op \notin {"none", "pause", "stop"}
        /\ pc[h] \in {"idle", "check", "create"} => call[h].run \notin Runs

\* A writer is in _execute, and a handler never is.
ProcsKeepPlace ==
    /\ \A h \in Handlers : pc[h] \in HandlerPCs
    /\ \A r \in Runs : pc[r] \in WriterPCs

\* Every step keeps handlers where their requests lead.
LEMMA PlaceStep ==
    ASSUME IInv, HandlersKeepPlace, [Next]_vars
    PROVE  HandlersKeepPlace'
<1> USE ConstantsAssumption DEF IInv, TypeOK, Call, HandlersKeepPlace, Procs
<1>1. ASSUME NEW h \in Handlers, Send(h)  PROVE HandlersKeepPlace'
  <2>1. PICK c \in Call : /\ c.op \in Offers /\ Offered(c) /\ Idle(h)
                          /\ call' = [call EXCEPT ![h] = c] /\ Goto(h, FirstStep(c.op))
    BY <1>1 DEF Send
  <2>2. c.op \in Ops
    BY <2>1
  <2>3. c.op = "start" => c.run \notin Runs
    BY <2>1 DEF Offered
  <2>4. QED
    BY <2>1, <2>2, <2>3, <1>1 DEF Send, Ops, Goto, Idle, FirstStep
<1>2. ASSUME NEW h \in Handlers, StartCheck(h)  PROVE HandlersKeepPlace'
  BY <1>2 DEF StartCheck, store, sdk, Goto, Answer, NoCall
<1>3. ASSUME NEW h \in Handlers, StartCreate(h)  PROVE HandlersKeepPlace'
  BY <1>3 DEF StartCreate, sdk, process, WriteRun, Goto
<1>4. ASSUME NEW h \in Handlers, StartBoot(h)  PROVE HandlersKeepPlace'
  BY <1>4 DEF StartBoot, sdk, WriteRun, Goto, Answer, NoCall
<1>5. ASSUME NEW h \in Handlers, Launch(h)  PROVE HandlersKeepPlace'
  BY <1>5 DEF Launch, store, sdk, Goto, Answer, NoCall, Control, WellCalled
<1>6. ASSUME NEW h \in Handlers, Approve(h)  PROVE HandlersKeepPlace'
  BY <1>6 DEF Approve, sdk, process, Goto, Answer, NoCall, Resolve
<1>7. ASSUME NEW h \in Handlers, ApproveCategory(h)  PROVE HandlersKeepPlace'
  BY <1>7 DEF ApproveCategory, sdk, process, Goto, Answer, NoCall, Resolve, Undecided
<1>8. ASSUME NEW h \in Handlers, Grant(h)  PROVE HandlersKeepPlace'
  BY <1>8 DEF Grant, store, sdk, Goto
<1>9. ASSUME NEW h \in Handlers, ContinueIfReady(h)  PROVE HandlersKeepPlace'
  BY <1>9 DEF ContinueIfReady, store, sdk, process, Goto, Answer, NoCall, Pending, Undecided
<1>10. ASSUME NEW h \in Handlers, Deny(h)  PROVE HandlersKeepPlace'
  BY <1>10 DEF Deny, sdk, process, Goto, Answer, NoCall, Undecided, Resolve
<1>11. ASSUME NEW h \in Handlers, Reject(h)  PROVE HandlersKeepPlace'
  BY <1>11 DEF Reject, store, process, Goto, Proposed
<1>12. ASSUME NEW h \in Handlers, Runtime(h)  PROVE HandlersKeepPlace'
  BY <1>12 DEF Runtime, store, sdk, process, Goto
<1>13. ASSUME NEW h \in Handlers, Signal(h)  PROVE HandlersKeepPlace'
  BY <1>13 DEF Signal, store, process, Goto
<1>14. ASSUME NEW h \in Handlers, StopList(h)  PROVE HandlersKeepPlace'
  BY <1>14 DEF StopList, store, sdk, process, Goto, Pending, Undecided
<1>15. ASSUME NEW h \in Handlers, StopDeny(h)  PROVE HandlersKeepPlace'
  BY <1>15 DEF StopDeny, sdk, process, Goto, Answer, NoCall, DropLocals, Resolve
<1>16. ASSUME NEW h \in Handlers, TransitionHandler(h)  PROVE HandlersKeepPlace'
  <2>0. pc[h] = "cas" /\ call[h].op \in Ops
    BY <1>16 DEF TransitionHandler
  <2>1. CASE Target(h) = "running"
    <3>1. pc' = [pc EXCEPT ![h] = "launch"] /\ UNCHANGED call
      BY <1>16, <2>1 DEF TransitionHandler, Goto
    <3>2. call[h].op \notin {"pause", "stop"}
      BY <2>1 DEF Target
    <3>3. QED
      BY <2>0, <3>1, <3>2
  <2>2. CASE Target(h) # "running"
    BY <1>16, <2>2 DEF TransitionHandler, Goto, Answer, NoCall
  <2>3. QED
    BY <2>1, <2>2
<1>17. ASSUME NEW h \in Handlers, StaleHandler(h)  PROVE HandlersKeepPlace'
  BY <1>17 DEF StaleHandler, store, sdk, process, Answer, Goto, NoCall
<1>18. ASSUME NEW p \in Procs, Evidence(p)  PROVE HandlersKeepPlace'
  BY <1>18 DEF Evidence, sdk, process, Goto, Written, NoManifest
<1>19. ASSUME NEW p \in Procs, Freeze(p)  PROVE HandlersKeepPlace'
  BY <1>19 DEF Freeze, sdk, process, Goto, Insert, NoManifest
<1>20. ASSUME NEW p \in Procs, GetRun(p)  PROVE HandlersKeepPlace'
  BY <1>20 DEF GetRun, store, sdk, process, Goto
<1>21. ASSUME NEW r \in Runs, Enter(r)  PROVE HandlersKeepPlace'
  BY <1>21 DEF Enter, store, process, Goto, Proposed
<1>22. ASSUME NEW r \in Runs, Execute(r)  PROVE HandlersKeepPlace'
  BY <1>22 DEF Execute, store, procs, process, Released
<1>23. ASSUME NEW r \in Runs, Propose(r)  PROVE HandlersKeepPlace'
  BY <1>23 DEF Propose, process, WriteRun, Released, NeedsApproval, GrantApplies
<1>24. ASSUME NEW r \in Runs, Confirm(r)  PROVE HandlersKeepPlace'
  BY <1>24 DEF Confirm, store, process, Goto, Proposed, NeedsApproval, GrantApplies
<1>25. ASSUME NEW r \in Runs, Proceed(r)  PROVE HandlersKeepPlace'
  BY <1>25 DEF Proceed, store, procs, process, Proposed, NeedsApproval, GrantApplies
<1>26. ASSUME NEW r \in Runs, Return(r)  PROVE HandlersKeepPlace'
  BY <1>26 DEF Return, store, process, Goto, Proposed, Released
<1>27. ASSUME NEW r \in Runs, Inspect(r)  PROVE HandlersKeepPlace'
  BY <1>27 DEF Inspect, store, sdk, process, Goto
<1>28. ASSUME NEW r \in Runs, Conclude(r)  PROVE HandlersKeepPlace'
  BY <1>28 DEF Conclude, store, sdk, process, Goto, Outcome, Resting, RestState
<1>29. ASSUME NEW r \in Runs, Except(r)  PROVE HandlersKeepPlace'
  BY <1>29 DEF Except, store, sdk, process, Goto
<1>30. ASSUME NEW r \in Runs, TransitionWriter(r)  PROVE HandlersKeepPlace'
  BY <1>30 DEF TransitionWriter, sdk, process, WriteRun, Goto, Target
<1>31. ASSUME NEW r \in Runs, StaleWriter(r)  PROVE HandlersKeepPlace'
  BY <1>31 DEF StaleWriter, store, sdk, process, Goto
<1>32. ASSUME NEW r \in Runs, Release(r)  PROVE HandlersKeepPlace'
  BY <1>32 DEF Release, store, sdk, Goto, DropLocals
<1>33. ASSUME NEW r \in Runs, RecoverDeny(r)  PROVE HandlersKeepPlace'
  BY <1>33 DEF RecoverDeny, sdk, procs, process, Undecided, Pending
<1>34. ASSUME NEW r \in Runs, RecoverCancel(r)  PROVE HandlersKeepPlace'
  BY <1>34 DEF RecoverCancel, sdk, process, WriteRun, Written, Pending, Undecided, Insert,
     NoManifest
<1>35. ASSUME Crash  PROVE HandlersKeepPlace'
  BY <1>35 DEF Crash, store, NoCall
<1>36. ASSUME RecoverEnd  PROVE HandlersKeepPlace'
  BY <1>36 DEF RecoverEnd, store, sdk, procs
<1>37. CASE UNCHANGED vars
  BY <1>37 DEF vars
<1>38. QED
  BY <1>1, <1>2, <1>3, <1>4, <1>5, <1>6, <1>7, <1>8, <1>9, <1>10, <1>11, <1>12, <1>13, <1>14,
     <1>15, <1>16, <1>17, <1>18, <1>19, <1>20, <1>21, <1>22, <1>23, <1>24, <1>25, <1>26,
     <1>27, <1>28, <1>29, <1>30, <1>31, <1>32, <1>33, <1>34, <1>35, <1>36, <1>37
     DEF Next, HandlerStep, WriterStep, RecoverStep, Procs

\* Every step keeps handlers and writers in their own code.
LEMMA OwnCodeStep ==
    ASSUME IInv, ProcsKeepPlace, [Next]_vars
    PROVE  ProcsKeepPlace'
<1> USE ConstantsAssumption DEF IInv, TypeOK, ProcsKeepPlace, Procs, HandlerPCs, WriterPCs
<1>1. ASSUME NEW h \in Handlers, Send(h)  PROVE ProcsKeepPlace'
  BY <1>1 DEF Send, store, sdk, process, Goto, Idle, Serving, Offered, Pending, Undecided,
     FirstStep
<1>2. ASSUME NEW h \in Handlers, StartCheck(h)  PROVE ProcsKeepPlace'
  BY <1>2 DEF StartCheck, store, sdk, Goto, Answer, NoCall
<1>3. ASSUME NEW h \in Handlers, StartCreate(h)  PROVE ProcsKeepPlace'
  BY <1>3 DEF StartCreate, sdk, process, WriteRun, Goto
<1>4. ASSUME NEW h \in Handlers, StartBoot(h)  PROVE ProcsKeepPlace'
  BY <1>4 DEF StartBoot, sdk, WriteRun, Goto, Answer, NoCall
<1>5. ASSUME NEW h \in Handlers, Launch(h)  PROVE ProcsKeepPlace'
  BY <1>5 DEF Launch, store, sdk, Goto, Answer, NoCall, Control, WellCalled
<1>6. ASSUME NEW h \in Handlers, Approve(h)  PROVE ProcsKeepPlace'
  BY <1>6 DEF Approve, sdk, process, Goto, Answer, NoCall, Resolve
<1>7. ASSUME NEW h \in Handlers, ApproveCategory(h)  PROVE ProcsKeepPlace'
  BY <1>7 DEF ApproveCategory, sdk, process, Goto, Answer, NoCall, Resolve, Undecided
<1>8. ASSUME NEW h \in Handlers, Grant(h)  PROVE ProcsKeepPlace'
  BY <1>8 DEF Grant, store, sdk, Goto
<1>9. ASSUME NEW h \in Handlers, ContinueIfReady(h)  PROVE ProcsKeepPlace'
  BY <1>9 DEF ContinueIfReady, store, sdk, process, Goto, Answer, NoCall, Pending, Undecided
<1>10. ASSUME NEW h \in Handlers, Deny(h)  PROVE ProcsKeepPlace'
  BY <1>10 DEF Deny, sdk, process, Goto, Answer, NoCall, Undecided, Resolve
<1>11. ASSUME NEW h \in Handlers, Reject(h)  PROVE ProcsKeepPlace'
  BY <1>11 DEF Reject, store, process, Goto, Proposed
<1>12. ASSUME NEW h \in Handlers, Runtime(h)  PROVE ProcsKeepPlace'
  BY <1>12 DEF Runtime, store, sdk, process, Goto
<1>13. ASSUME NEW h \in Handlers, Signal(h)  PROVE ProcsKeepPlace'
  BY <1>13 DEF Signal, store, process, Goto
<1>14. ASSUME NEW h \in Handlers, StopList(h)  PROVE ProcsKeepPlace'
  BY <1>14 DEF StopList, store, sdk, process, Goto, Pending, Undecided
<1>15. ASSUME NEW h \in Handlers, StopDeny(h)  PROVE ProcsKeepPlace'
  BY <1>15 DEF StopDeny, sdk, process, Goto, Answer, NoCall, DropLocals, Resolve
<1>16. ASSUME NEW h \in Handlers, TransitionHandler(h)  PROVE ProcsKeepPlace'
  BY <1>16 DEF TransitionHandler, sdk, process, WriteRun, Goto, Answer, NoCall, Target
<1>17. ASSUME NEW h \in Handlers, StaleHandler(h)  PROVE ProcsKeepPlace'
  BY <1>17 DEF StaleHandler, store, sdk, process, Answer, Goto, NoCall
<1>18. ASSUME NEW p \in Procs, Evidence(p)  PROVE ProcsKeepPlace'
  BY <1>18 DEF Evidence, sdk, process, Goto, Written, NoManifest
<1>19. ASSUME NEW p \in Procs, Freeze(p)  PROVE ProcsKeepPlace'
  BY <1>19 DEF Freeze, sdk, process, Goto, Insert, NoManifest
<1>20. ASSUME NEW p \in Procs, GetRun(p)  PROVE ProcsKeepPlace'
  BY <1>20 DEF GetRun, store, sdk, process, Goto
<1>21. ASSUME NEW r \in Runs, Enter(r)  PROVE ProcsKeepPlace'
  BY <1>21 DEF Enter, store, process, Goto, Proposed
<1>22. ASSUME NEW r \in Runs, Execute(r)  PROVE ProcsKeepPlace'
  BY <1>22 DEF Execute, store, procs, process, Released
<1>23. ASSUME NEW r \in Runs, Propose(r)  PROVE ProcsKeepPlace'
  BY <1>23 DEF Propose, process, WriteRun, Released, NeedsApproval, GrantApplies
<1>24. ASSUME NEW r \in Runs, Confirm(r)  PROVE ProcsKeepPlace'
  BY <1>24 DEF Confirm, store, process, Goto, Proposed, NeedsApproval, GrantApplies
<1>25. ASSUME NEW r \in Runs, Proceed(r)  PROVE ProcsKeepPlace'
  BY <1>25 DEF Proceed, store, procs, process, Proposed, NeedsApproval, GrantApplies
<1>26. ASSUME NEW r \in Runs, Return(r)  PROVE ProcsKeepPlace'
  BY <1>26 DEF Return, store, process, Goto, Proposed, Released
<1>27. ASSUME NEW r \in Runs, Inspect(r)  PROVE ProcsKeepPlace'
  BY <1>27 DEF Inspect, store, sdk, process, Goto
<1>28. ASSUME NEW r \in Runs, Conclude(r)  PROVE ProcsKeepPlace'
  BY <1>28 DEF Conclude, store, sdk, process, Goto, Outcome, Resting, RestState
<1>29. ASSUME NEW r \in Runs, Except(r)  PROVE ProcsKeepPlace'
  BY <1>29 DEF Except, store, sdk, process, Goto
<1>30. ASSUME NEW r \in Runs, TransitionWriter(r)  PROVE ProcsKeepPlace'
  BY <1>30 DEF TransitionWriter, sdk, process, WriteRun, Goto, Target
<1>31. ASSUME NEW r \in Runs, StaleWriter(r)  PROVE ProcsKeepPlace'
  BY <1>31 DEF StaleWriter, store, sdk, process, Goto
<1>32. ASSUME NEW r \in Runs, Release(r)  PROVE ProcsKeepPlace'
  BY <1>32 DEF Release, store, sdk, Goto, DropLocals
<1>33. ASSUME NEW r \in Runs, RecoverDeny(r)  PROVE ProcsKeepPlace'
  BY <1>33 DEF RecoverDeny, sdk, procs, process, Undecided, Pending
<1>34. ASSUME NEW r \in Runs, RecoverCancel(r)  PROVE ProcsKeepPlace'
  BY <1>34 DEF RecoverCancel, sdk, process, WriteRun, Written, Pending, Undecided, Insert,
     NoManifest
<1>35. ASSUME Crash  PROVE ProcsKeepPlace'
  BY <1>35 DEF Crash, store, NoCall
<1>36. ASSUME RecoverEnd  PROVE ProcsKeepPlace'
  BY <1>36 DEF RecoverEnd, store, sdk, procs
<1>37. CASE UNCHANGED vars
  BY <1>37 DEF vars
<1>38. QED
  BY <1>1, <1>2, <1>3, <1>4, <1>5, <1>6, <1>7, <1>8, <1>9, <1>10, <1>11, <1>12, <1>13, <1>14,
     <1>15, <1>16, <1>17, <1>18, <1>19, <1>20, <1>21, <1>22, <1>23, <1>24, <1>25, <1>26,
     <1>27, <1>28, <1>29, <1>30, <1>31, <1>32, <1>33, <1>34, <1>35, <1>36, <1>37
     DEF Next, HandlerStep, WriterStep, RecoverStep, Procs

----------------------------------------------------------------------------
(* What a manifest shows *)

\* Whatever races with it, a writer saves what its tools have written up to then, and so
\* does recovery: only a stop may save a comparison that is no longer right.
WritersFreezeAll ==
    [][\A r \in Runs : manifest'[r] # manifest[r] =>
        \/ manifest'[r] = Written(r)
        \/ \E h \in Handlers : call[h].op = "stop" /\ call[h].run = r /\ pc[h] = "freeze"]_vars

\* Between a writer's comparison and its save no tool writes.
WritersCompared == \A r \in Runs : pc[r] = "freeze" => work[r] = Written(r)

\* What the tools of a run wrote changes only while a writer runs the conversation.
LEMMA WrittenFrame ==
    ASSUME TypeOK, ProposedOnce, [Next]_vars, NEW r \in Runs
    PROVE  Written(r)' = Written(r) \/ \E s \in Runs : pc[s] = "run"
<1> USE ConstantsAssumption DEF TypeOK, ProposedOnce, Written
<1>1. CASE UNCHANGED <<owner, decision, progress>>
  BY <1>1
<1>2. ASSUME NEW h \in Handlers,
             Approve(h) \/ ApproveCategory(h) \/ Deny(h) \/ StopDeny(h)
      PROVE  Written(r)' = Written(r)
  BY <1>2 DEF Approve, ApproveCategory, Deny, StopDeny, sdk
<1>3. ASSUME NEW h \in Handlers, Reject(h)  PROVE Written(r)' = Written(r)
  BY <1>3 DEF Reject, store, Proposed
<1>4. ASSUME NEW s \in Runs, Enter(s)  PROVE Written(r)' = Written(r)
  BY <1>4 DEF Enter, store, Proposed
<1>5. ASSUME NEW s \in Runs, RecoverDeny(s)  PROVE Written(r)' = Written(r)
  BY <1>5 DEF RecoverDeny, sdk
<1>6. ASSUME NEW s \in Runs, Execute(s) \/ Propose(s) \/ Proceed(s)  PROVE pc[s] = "run"
  BY <1>6 DEF Execute, Propose, Proceed
<1>7. QED
  BY <1>1, <1>2, <1>3, <1>4, <1>5, <1>6, ApprovalFrame

\* A writer gets to its save from the comparison only, and keeps what it found.
LEMMA CompareFrame ==
    ASSUME TypeOK, WellCalled, HandlersKeepPlace, [Next]_vars, NEW r \in Runs, pc'[r] = "freeze"
    PROVE  \/ Evidence(r) /\ work'[r] = Written(r)
           \/ pc[r] = "freeze" /\ work'[r] = work[r]
<1> DEFINE Kept == pc[r] = "freeze" /\ work'[r] = work[r]
<1> USE ConstantsAssumption DEF TypeOK, Procs
<1>1. ASSUME NEW h \in Handlers, Send(h) \/ HandlerStep(h)  PROVE Kept
  BY ZenonT(60), <1>1 DEF HandlerStep, Send, StartCheck, StartCreate, StartBoot, Launch, Approve,
     ApproveCategory, Grant, ContinueIfReady, Deny, Reject, Runtime, Signal, StopList,
     StopDeny, TransitionHandler, StaleHandler, Evidence, Freeze, GetRun, Goto,
     Answer, DropLocals, FirstStep, store, sdk, process
<1>2. ASSUME NEW s \in Runs, WriterStep(s), s # r  PROVE Kept
  BY <1>2 DEF WriterStep, Enter, Execute, Propose, Confirm, Proceed, Return, Inspect,
     Conclude, Except, TransitionWriter, StaleWriter, Evidence, Freeze, GetRun, Release, Goto,
     DropLocals, procs, process
<1>3. CASE WriterStep(r)
  BY <1>3 DEF WriterStep, Enter, Execute, Propose, Confirm, Proceed, Return, Inspect,
     Conclude, Except, TransitionWriter, StaleWriter, Evidence, Freeze, GetRun, Release, Goto,
     DropLocals, procs, process, RunOf
<1>4. CASE Crash \/ RecoverStep \/ UNCHANGED vars
  BY <1>4 DEF Crash, RecoverStep, RecoverDeny, RecoverCancel, RecoverEnd, vars, procs, process
<1>5. QED
  BY <1>1, <1>2, <1>3, <1>4 DEF Next

\* Every step keeps a writer's comparison right until it is saved.
LEMMA ComparedStep ==
    ASSUME TypeOK, ProposedOnce, WellCalled, HandlersKeepPlace, SingleWriter, WritersCompared,
           [Next]_vars
    PROVE  WritersCompared'
<1> SUFFICES ASSUME NEW r \in Runs, pc'[r] = "freeze"  PROVE work'[r] = Written(r)'
  BY DEF WritersCompared
<1>1. CASE Evidence(r) /\ work'[r] = Written(r)
  BY <1>1 DEF Evidence, Written, sdk
<1>2. CASE pc[r] = "freeze" /\ work'[r] = work[r]
  <2>1. \A s \in Runs : pc[s] # "run"
    BY <1>2 DEF SingleWriter
  <2>2. Written(r)' = Written(r)
    BY <2>1, WrittenFrame
  <2>3. QED
    BY <1>2, <2>2 DEF WritersCompared
<1>3. QED
  BY <1>1, <1>2, CompareFrame

----------------------------------------------------------------------------
(* The theorems *)

\* IInv is inductive.
THEOREM Invariance == Spec => []IInv
<1>1. Init => IInv
  <2> SUFFICES ASSUME Init  PROVE IInv
    OBVIOUS
  <2> USE ConstantsAssumption DEF Init, Procs
  <2>1. TypeOK
    <3>1. call \in [Handlers -> Call] /\ crashes \in 0 .. MaxCrashes
      BY NoCallType
    <3>2. /\ runState \in [Runs -> RunStates] /\ decision \in [Actions -> Decisions]
          /\ progress \in [Actions -> Progress] /\ status \in [Runs -> Statuses]
          /\ goal \in [Runs -> RunStates]
      BY DEF RunStates, Decisions, Progress, Statuses
    <3>3. /\ pc \in [Procs -> HandlerPCs \cup WriterPCs] /\ work \in [Procs -> SUBSET Actions]
          /\ fresh \in [Procs -> BOOLEAN]
      BY DEF HandlerPCs
    <3>4. /\ grants \in [Runs -> SUBSET Categories] /\ cached \in [Runs -> SUBSET Categories]
          /\ manifest \in [Runs -> (SUBSET Actions) \cup {NoManifest}]
      OBVIOUS
    <3>5. QED
      BY <3>1, <3>2, <3>3, <3>4 DEF TypeOK
  <2>2. Control
    BY DEF Control, WellCalled, WritersConclude, GrantsInHand, StartIsGuarded,
       EvidenceComesFirst, UntouchedRunsAreQuiet, RecoveryIsAlone, NoCall
  <2>3. ProposedOnce /\ SingleWriter /\ GrantsComeFromApprovals /\ UnaskedWasGranted
    BY DEF ProposedOnce, SingleWriter, GrantsComeFromApprovals, UnaskedWasGranted
  <2>4. QED
    BY <2>1, <2>2, <2>3 DEF IInv
<1>2. IInv /\ [Next]_vars => IInv'
  BY TypeStep, ControlStep, ProposedOnceStep, SingleWriterStep, GrantStep, UnaskedStep
     DEF IInv, Control
<1>3. QED
  BY <1>1, <1>2, PTL DEF Spec

\* The types of all variables, in every reachable state.
THEOREM Typing == Spec => []TypeOK
  BY Invariance, PTL DEF IInv

\* _workspace_locks keeps the workspace to one writer.
THEOREM OneWriter == Spec => []SingleWriter
  BY Invariance, PTL DEF IInv

\* An approval is decided once.
THEOREM FinalDecisions == Spec => DecisionsAreFinal
<1>1. IInv /\ [Next]_vars =>
        [\A a \in Actions :
            decision[a] \in {"approve", "deny"} => decision'[a] = decision[a]]_vars
  BY DecisionStep DEF IInv
<1>2. QED
  BY <1>1, Invariance, PTL DEF Spec, DecisionsAreFinal

\* The manifest that is saved first stays.
THEOREM FirstManifest == Spec => ManifestFirstWins
<1>1. IInv /\ [Next]_vars =>
        [\A r \in Runs : manifest[r] # NoManifest => manifest'[r] = manifest[r]]_vars
  BY ManifestStep DEF IInv
<1>2. QED
  BY <1>1, Invariance, PTL DEF Spec, ManifestFirstWins

\* A grant follows from an approval of the same run in the same category.
THEOREM ApprovedGrants == Spec => []GrantsComeFromApprovals
  BY Invariance, PTL DEF IInv

\* What ran unasked ran under a grant to its own run.
THEOREM GrantedExecution == Spec => []UnaskedExecutionHasGrant
<1>1. IInv => UnaskedExecutionHasGrant
  BY DEF IInv, UnaskedWasGranted, UnaskedExecutionHasGrant
<1>2. QED
  BY <1>1, Invariance, PTL

\* A run that ended after its tools wrote says what they wrote, or why it cannot.
THEOREM FrozenEvidence == Spec => []TerminalRunsHaveEvidence
<1>1. IInv => TerminalRunsHaveEvidence
  BY DEF IInv, Control, UntouchedRunsAreQuiet, Untouched, HasEvidence, Written,
         TerminalRunsHaveEvidence
<1>2. QED
  BY <1>1, Invariance, PTL

\* A manifest that a writer or recovery saves shows all that the tools of the run wrote.
THEOREM WritersEvidence == Spec => WritersFreezeAll
<1> DEFINE Inv == IInv /\ HandlersKeepPlace /\ WritersCompared
<1>1. Init /\ IInv => Inv
  BY ConstantsAssumption DEF Init, HandlersKeepPlace, WritersCompared, Procs, NoCall
<1>2. Inv /\ IInv' /\ [Next]_vars => Inv'
  BY PlaceStep, ComparedStep DEF IInv, Control
<1>3. Inv /\ [Next]_vars =>
        [\A r \in Runs : manifest'[r] # manifest[r] =>
            \/ manifest'[r] = Written(r)
            \/ \E h \in Handlers :
                call[h].op = "stop" /\ call[h].run = r /\ pc[h] = "freeze"]_vars
  <2> SUFFICES ASSUME Inv, [Next]_vars, NEW r \in Runs, manifest'[r] # manifest[r]
               PROVE  \/ manifest'[r] = Written(r)
                      \/ \E h \in Handlers :
                          call[h].op = "stop" /\ call[h].run = r /\ pc[h] = "freeze"
    OBVIOUS
  <2> USE DEF IInv, TypeOK
  <2>1. ASSUME NEW s \in Runs, Freeze(s)  PROVE manifest'[r] = Written(r)
    BY <2>1 DEF Freeze, Insert, RunOf, WritersCompared
  <2>2. ASSUME NEW h \in Handlers, Freeze(h)
        PROVE  call[h].op = "stop" /\ call[h].run = r /\ pc[h] = "freeze"
    BY <2>2, ConstantsAssumption DEF Freeze, Insert, RunOf, HandlersKeepPlace
  <2>3. ASSUME NEW s \in Runs, RecoverCancel(s)  PROVE manifest'[r] = Written(r)
    BY <2>3 DEF RecoverCancel, Insert
  <2>4. QED
    BY <2>1, <2>2, <2>3, ManifestFrame DEF Procs
<1>4. QED
  BY <1>1, <1>2, <1>3, Invariance, PTL DEF Spec, WritersFreezeAll
=============================================================================
