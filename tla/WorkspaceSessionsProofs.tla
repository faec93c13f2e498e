---------------------- MODULE WorkspaceSessionsProofs ----------------------
(***************************************************************************)
(* Proofs about WorkspaceSessions, for any repositories, sessions, runs    *)
(* and server threads: nothing starts once the application may close, and  *)
(* for a patient user a session ends quietly and is the only one.          *)
(***************************************************************************)
EXTENDS WorkspaceSessions, TLAPS

----------------------------------------------------------------------------
(* The inductive invariant *)

\* The places of a handler, by the request it serves.
OpenPCs == {"open", "release", "check", "create", "set"}
EndPCs == {"remove", "delete", "forget"}
MessagePCs == {"message", "append"}
StartPCs == {"start", "insert", "boot", "launch"}
ShutdownPCs == {"shutdown", "active", "interrupt", "join", "commit"}

\* Where a handler is tells what it serves.
HandlersServe ==
    \A h \in Handlers :
        /\ pc[h] = "idle" <=> call[h].op = "none"
        /\ pc[h] \in OpenPCs => call[h].op = "open"
        /\ pc[h] \in MessagePCs => call[h].op = "message"
        /\ pc[h] \in StartPCs => call[h].op = "start"
        /\ pc[h] = "stop" => call[h].op = "stop"
        /\ pc[h] = "decide" => call[h].op = "decide"
        /\ pc[h] = "approve" => call[h].op = "approve"
        /\ pc[h] \in {"execute", "simulate"} => call[h].op = "execute"
        /\ pc[h] \in EndPCs => call[h].op \in {"open", "shutdown"}
        /\ pc[h] \in ShutdownPCs => call[h].op = "shutdown"

\* The locals of a handler: a session once it has looked, a run that has been created.
HandlersKnow ==
    \A h \in Handlers :
        /\ pc[h] = "idle" => cur[h] = NoSession
        /\ pc[h] \in {"check", "set", "append", "insert", "boot", "launch", "active",
                      "interrupt", "join"} \cup EndPCs => cur[h] \in Sessions
        /\ pc[h] \in {"boot", "launch", "interrupt"} =>
              target[h] \in Runs /\ runState[target[h]] # "none"
        /\ pc[h] \in {"stop", "decide"} =>
              call[h].ref \in Runs /\ runState[call[h].ref] # "none"

\* A run that is neither to come nor gone belongs to a session whose row is there.
RunsBelong ==
    /\ \A r \in Runs : runState[r] # "none" => sessionOf[r] \in Sessions
    /\ \A r \in Runs : runState[r] \notin {"none", "gone"} => sessionOf[r] \in rows
    /\ \A r \in alive : runState[r] # "none"

\* What a patient user adds to it.  One request is served at a time.
OneRequest == \A g, h \in Handlers : pc[g] # "idle" /\ pc[h] # "idle" => g = h

\* The one row is that of _current, but while a session is made or deleted.
OneRow ==
    /\ \A h \in Handlers :
          pc[h] \notin {"create", "set", "commit"} => cur[h] \in {NoSession, current}
    /\ \A h \in Handlers : pc[h] \in {"create", "set"} => current = NoSession
    /\ \A h \in Handlers : pc[h] \in {"create", "forget"} => rows = {}
    /\ \A h \in Handlers : pc[h] = "set" => rows = {cur[h]}
    /\ (\A h \in Handlers : pc[h] \notin {"create", "set", "forget"}) =>
          rows = {current} \ {NoSession}

\* One run is active or has a writer, and a writer is that of a run some request knows.
OneWriter ==
    /\ \A r \in alive : runState[r] \in {"running", "waiting", "cancelled"}
    /\ \A q, r \in Runs : /\ q \in alive \/ runState[q] \in Active
                          /\ r \in alive \/ runState[r] \in Active
                          => q = r
    /\ \A h \in Handlers :
          /\ pc[h] \in {"boot", "launch"} => runState[target[h]] = "queued"
          /\ pc[h] = "decide" => runState[call[h].ref] = "waiting"

\* A run that was stopped has let go, or the closing application waits for its writer.
StoppedRunsEnd ==
    \A h \in Handlers :
        /\ call[h].op \in {"open", "start"} => Stopped = {}
        /\ call[h].op = "shutdown" => Stopped \subseteq stopping
        /\ pc[h] = "interrupt" => alive \subseteq stopping \cup {target[h]}
        /\ pc[h] = "join" => alive \subseteq stopping
        /\ pc[h] \in EndPCs => alive = {}

\* No directory lies about, and none is being made again.
DirectoriesBelong ==
    /\ dirs \subseteq rows
    /\ \A h \in Handlers : pc[h] = "delete" => cur[h] \notin dirs

PatientInv == OneRequest /\ OneRow /\ OneWriter /\ StoppedRunsEnd /\ DirectoriesBelong

IInv ==
    /\ TypeOK
    /\ HandlersServe
    /\ HandlersKnow
    /\ RunsBelong
    /\ NothingStartsAfterReady
    /\ patient => PatientInv

----------------------------------------------------------------------------
(* Steps *)

\* The types of a handler's place, request and locals.
HandlersOK ==
    /\ pc \in [Handlers -> PCs]
    /\ call \in [Handlers -> Call]
    /\ cur \in [Handlers -> Sessions \cup {NoSession}]
    /\ target \in [Handlers -> Runs \cup {NoRun}]

\* A handler that moves on, looks at _current or answers keeps its types.
LEMMA HandlersTypes ==
    ASSUME TypeOK, NEW h \in Handlers, NEW l \in PCs, Step(h, l) \/ Look(h, l) \/ Answer(h)
    PROVE  HandlersOK'
<1>1. NoCall \in Call /\ "idle" \in PCs
  BY DEF NoCall, Call, Refs, PCs
<1>2. CASE Step(h, l)
  BY <1>2 DEF Step, Goto, TypeOK, HandlersOK
<1>3. CASE Look(h, l)
  BY <1>3 DEF Look, Goto, TypeOK, HandlersOK
<1>4. CASE Answer(h)
  BY <1>1, <1>4 DEF Answer, Goto, TypeOK, HandlersOK
<1>5. QED
  BY <1>2, <1>3, <1>4

\* Every step keeps the types.
LEMMA TypesStep ==
    ASSUME IInv, [Next]_vars
    PROVE  TypeOK'
<1> USE ConstantsAssumption DEF IInv, TypeOK, HandlersKnow, RunsBelong, HandlersOK, Goto,
        store, agent, service, gate, procs, PCs, RunStates, ResearchStates, Active, EndPCs
<1>1. ASSUME NEW h \in Handlers, Send(h)
      PROVE  TypeOK'
  <2>1. PICK c \in Call :
           /\ c.op \in Ops
           /\ call' = [call EXCEPT ![h] = c]
           /\ pc' = [pc EXCEPT ![h] = c.op]
    BY <1>1 DEF Send
  <2>2. Ops \subseteq PCs
    BY DEF Ops
  <2>3. UNCHANGED <<store, agent, service, gate, cur, target>>
    BY <1>1 DEF Send
  <2>4. HandlersOK'
    BY <2>1, <2>2, <2>3
  <2>5. QED
    BY <2>3, <2>4
<1>2. ASSUME NEW h \in Handlers, Open(h)
      PROVE  TypeOK'
  <2>1. HandlersOK'
    BY <1>2, HandlersTypes DEF Open
  <2>2. QED
    BY <1>2, <2>1 DEF Open
<1>3. ASSUME NEW h \in Handlers, Release(h)
      PROVE  TypeOK'
  BY <1>3, HandlersTypes DEF Release
<1>4. ASSUME NEW h \in Handlers, Check(h)
      PROVE  TypeOK'
  BY <1>4, HandlersTypes DEF Check
<1>5. ASSUME NEW h \in Handlers, Remove(h)
      PROVE  TypeOK'
  BY <1>5, HandlersTypes DEF Remove
<1>6. ASSUME NEW h \in Handlers, Delete(h)
      PROVE  TypeOK'
  <2>1. HandlersOK'
    BY <1>6, HandlersTypes DEF Delete
  <2>2. QED
    BY <1>6, <2>1 DEF Delete
<1>7. ASSUME NEW h \in Handlers, Forget(h)
      PROVE  TypeOK'
  BY <1>7, HandlersTypes DEF Forget
<1>8. ASSUME NEW h \in Handlers, Create(h)
      PROVE  TypeOK'
  BY <1>8, HandlersTypes DEF Create
<1>9. ASSUME NEW h \in Handlers, Set(h)
      PROVE  TypeOK'
  BY <1>9, HandlersTypes DEF Set
<1>10. ASSUME NEW h \in Handlers, Session(h)
      PROVE  TypeOK'
  <2>1. HandlersOK'
    BY <1>10, HandlersTypes DEF Session
  <2>2. QED
    BY <1>10, <2>1 DEF Session
<1>11. ASSUME NEW h \in Handlers, Append(h)
      PROVE  TypeOK'
  BY <1>11, HandlersTypes DEF Append
<1>12. ASSUME NEW h \in Handlers, Insert(h)
      PROVE  TypeOK'
  <2>1. CASE Answer(h) /\ UNCHANGED <<runState, sessionOf>>
    BY <1>12, <2>1, HandlersTypes DEF Insert
  <2>2. ASSUME NEW r \in Runs, runState' = [runState EXCEPT ![r] = "queued"],
               sessionOf' = [sessionOf EXCEPT ![r] = cur[h]],
               target' = [target EXCEPT ![h] = r],
               Goto(h, "boot"), UNCHANGED <<call, cur>>
        PROVE  TypeOK'
    BY <1>12, <2>2 DEF Insert
  <2>3. QED
    BY <1>12, <2>1, <2>2 DEF Insert
<1>13. ASSUME NEW h \in Handlers, Boot(h)
      PROVE  TypeOK'
  <2>1. HandlersOK'
    BY <1>13, HandlersTypes DEF Boot
  <2>2. cur[h] \in Sessions
    BY <1>13 DEF Boot
  <2>3. QED
    BY <1>13, <2>1, <2>2 DEF Boot
<1>14. ASSUME NEW h \in Handlers, Launch(h)
      PROVE  TypeOK'
  BY <1>14, HandlersTypes DEF Launch, Run
<1>15. ASSUME NEW h \in Handlers, Decide(h)
      PROVE  TypeOK'
  BY <1>15, HandlersTypes DEF Decide, Run
<1>16. ASSUME NEW h \in Handlers, Stop(h)
      PROVE  TypeOK'
  BY <1>16, HandlersTypes DEF Stop, Cancel
<1>17. ASSUME NEW h \in Handlers, ApprovePlan(h)
      PROVE  TypeOK'
  BY <1>17, HandlersTypes DEF ApprovePlan, Advance
<1>18. ASSUME NEW h \in Handlers, Execute(h)
      PROVE  TypeOK'
  BY <1>18, HandlersTypes DEF Execute, Advance
<1>19. ASSUME NEW h \in Handlers, Simulate(h)
      PROVE  TypeOK'
  BY <1>19, HandlersTypes DEF Simulate, Advance
<1>20. ASSUME NEW h \in Handlers, Shutdown(h)
      PROVE  TypeOK'
  BY <1>20, HandlersTypes DEF Shutdown
<1>21. ASSUME NEW h \in Handlers, FindActive(h)
      PROVE  TypeOK'
  <2>1. CASE Step(h, "join")
    BY <1>21, <2>1, HandlersTypes DEF FindActive
  <2>2. ASSUME NEW r \in Runs, target' = [target EXCEPT ![h] = r], Goto(h, "interrupt"),
               UNCHANGED <<call, cur>>
        PROVE  TypeOK'
    BY <1>21, <2>2 DEF FindActive
  <2>3. QED
    BY <1>21, <2>1, <2>2 DEF FindActive, ActiveRuns
<1>22. ASSUME NEW h \in Handlers, Interrupt(h)
      PROVE  TypeOK'
  <2>1. HandlersOK'
    BY <1>22, HandlersTypes DEF Interrupt
  <2>2. QED
    BY <1>22, <2>1 DEF Interrupt, Cancel
<1>23. ASSUME NEW h \in Handlers, Join(h)
      PROVE  TypeOK'
  <2>1. HandlersOK'
    BY <1>23, HandlersTypes DEF Join
  <2>2. QED
    BY <1>23, <2>1 DEF Join
<1>24. ASSUME NEW h \in Handlers, Commit(h)
      PROVE  TypeOK'
  BY <1>24, HandlersTypes DEF Commit
<1>25. ASSUME NEW r \in Runs, WriterWorks(r)
      PROVE  TypeOK'
  BY <1>25, HandlersTypes DEF WriterWorks
<1>26. ASSUME NEW r \in Runs, WriterEnds(r)
      PROVE  TypeOK'
  BY <1>26, HandlersTypes DEF WriterEnds
<1>27. CASE UNCHANGED vars
  BY <1>27 DEF vars
<1>28. QED
  BY <1>1, <1>2, <1>3, <1>4, <1>5, <1>6, <1>7, <1>8, <1>9, <1>10, <1>11, <1>12, <1>13, <1>14,
     <1>15, <1>16, <1>17, <1>18, <1>19, <1>20, <1>21, <1>22, <1>23, <1>24, <1>25, <1>26, <1>27
     DEF Next, Serve

\* Every step keeps handlers at the places of their request.
LEMMA HandlersServeStep ==
    ASSUME IInv, [Next]_vars
    PROVE  HandlersServe'
<1> USE ConstantsAssumption DEF IInv, TypeOK, HandlersServe, Goto, Step, Answer, Look, NoCall,
        store, agent, service, gate, procs, Call, Ops, OpenPCs, EndPCs, MessagePCs, StartPCs,
        ShutdownPCs
<1>1. ASSUME NEW h \in Handlers, Send(h)
      PROVE  HandlersServe'
  BY <1>1 DEF Send, Sensible
<1>2. ASSUME NEW h \in Handlers, Open(h)
      PROVE  HandlersServe'
  BY <1>2 DEF Open
<1>3. ASSUME NEW h \in Handlers, Release(h)
      PROVE  HandlersServe'
  BY <1>3 DEF Release
<1>4. ASSUME NEW h \in Handlers, Check(h)
      PROVE  HandlersServe'
  BY <1>4 DEF Check
<1>5. ASSUME NEW h \in Handlers, Remove(h)
      PROVE  HandlersServe'
  BY <1>5 DEF Remove
<1>6. ASSUME NEW h \in Handlers, Delete(h)
      PROVE  HandlersServe'
  BY <1>6 DEF Delete
<1>7. ASSUME NEW h \in Handlers, Forget(h)
      PROVE  HandlersServe'
  BY <1>7 DEF Forget
<1>8. ASSUME NEW h \in Handlers, Create(h)
      PROVE  HandlersServe'
  BY <1>8 DEF Create
<1>9. ASSUME NEW h \in Handlers, Set(h)
      PROVE  HandlersServe'
  BY <1>9 DEF Set
<1>10. ASSUME NEW h \in Handlers, Session(h)
      PROVE  HandlersServe'
  BY <1>10 DEF Session
<1>11. ASSUME NEW h \in Handlers, Append(h)
      PROVE  HandlersServe'
  BY <1>11 DEF Append
<1>12. ASSUME NEW h \in Handlers, Insert(h)
      PROVE  HandlersServe'
  BY <1>12 DEF Insert
<1>13. ASSUME NEW h \in Handlers, Boot(h)
      PROVE  HandlersServe'
  BY <1>13 DEF Boot
<1>14. ASSUME NEW h \in Handlers, Launch(h)
      PROVE  HandlersServe'
  BY <1>14 DEF Launch, Run
<1>15. ASSUME NEW h \in Handlers, Decide(h)
      PROVE  HandlersServe'
  BY <1>15 DEF Decide, Run
<1>16. ASSUME NEW h \in Handlers, Stop(h)
      PROVE  HandlersServe'
  BY <1>16 DEF Stop, Cancel
<1>17. ASSUME NEW h \in Handlers, ApprovePlan(h)
      PROVE  HandlersServe'
  BY <1>17 DEF ApprovePlan, Advance
<1>18. ASSUME NEW h \in Handlers, Execute(h)
      PROVE  HandlersServe'
  BY <1>18 DEF Execute, Advance
<1>19. ASSUME NEW h \in Handlers, Simulate(h)
      PROVE  HandlersServe'
  BY <1>19 DEF Simulate, Advance
<1>20. ASSUME NEW h \in Handlers, Shutdown(h)
      PROVE  HandlersServe'
  BY <1>20 DEF Shutdown
<1>21. ASSUME NEW h \in Handlers, FindActive(h)
      PROVE  HandlersServe'
  BY <1>21 DEF FindActive
<1>22. ASSUME NEW h \in Handlers, Interrupt(h)
      PROVE  HandlersServe'
  BY <1>22 DEF Interrupt, Cancel
<1>23. ASSUME NEW h \in Handlers, Join(h)
      PROVE  HandlersServe'
  BY <1>23 DEF Join
<1>24. ASSUME NEW h \in Handlers, Commit(h)
      PROVE  HandlersServe'
  BY <1>24 DEF Commit
<1>25. ASSUME NEW r \in Runs, WriterWorks(r)
      PROVE  HandlersServe'
  BY <1>25 DEF WriterWorks
<1>26. ASSUME NEW r \in Runs, WriterEnds(r)
      PROVE  HandlersServe'
  BY <1>26 DEF WriterEnds
<1>27. CASE UNCHANGED vars
  BY <1>27 DEF vars
<1>28. QED
  BY <1>1, <1>2, <1>3, <1>4, <1>5, <1>6, <1>7, <1>8, <1>9, <1>10, <1>11, <1>12, <1>13, <1>14,
     <1>15, <1>16, <1>17, <1>18, <1>19, <1>20, <1>21, <1>22, <1>23, <1>24, <1>25, <1>26, <1>27
     DEF Next, Serve

\* Every step keeps the locals of a handler.
LEMMA HandlersKnowStep ==
    ASSUME IInv, [Next]_vars
    PROVE  HandlersKnow'
<1> USE ConstantsAssumption DEF IInv, TypeOK, HandlersServe, HandlersKnow, RunsBelong, Goto,
        Step, Answer, Look, NoCall, store, agent, service, gate, procs, Active, EndPCs
<1>1. ASSUME NEW h \in Handlers, Send(h)
      PROVE  HandlersKnow'
  <2>1. PICK c \in Call :
           /\ Sensible(c)
           /\ c.op \in Ops
           /\ call' = [call EXCEPT ![h] = c]
           /\ pc' = [pc EXCEPT ![h] = c.op]
    BY <1>1 DEF Send
  <2>2. c.op \in {"stop", "decide"} => c.ref \in Runs /\ runState[c.ref] # "none"
    BY <2>1 DEF Sensible
  <2>3. UNCHANGED <<runState, cur, target>>
    BY <1>1 DEF Send
  <2>4. QED
    BY <2>1, <2>2, <2>3 DEF Ops
<1>2. ASSUME NEW h \in Handlers, Open(h)
      PROVE  HandlersKnow'
  BY <1>2 DEF Open
<1>3. ASSUME NEW h \in Handlers, Release(h)
      PROVE  HandlersKnow'
  BY <1>3 DEF Release
<1>4. ASSUME NEW h \in Handlers, Check(h)
      PROVE  HandlersKnow'
  BY <1>4 DEF Check
<1>5. ASSUME NEW h \in Handlers, Remove(h)
      PROVE  HandlersKnow'
  BY <1>5 DEF Remove
<1>6. ASSUME NEW h \in Handlers, Delete(h)
      PROVE  HandlersKnow'
  BY <1>6 DEF Delete
<1>7. ASSUME NEW h \in Handlers, Forget(h)
      PROVE  HandlersKnow'
  BY <1>7 DEF Forget
<1>8. ASSUME NEW h \in Handlers, Create(h)
      PROVE  HandlersKnow'
  BY <1>8 DEF Create
<1>9. ASSUME NEW h \in Handlers, Set(h)
      PROVE  HandlersKnow'
  BY <1>9 DEF Set
<1>10. ASSUME NEW h \in Handlers, Session(h)
      PROVE  HandlersKnow'
  BY <1>10 DEF Session
<1>11. ASSUME NEW h \in Handlers, Append(h)
      PROVE  HandlersKnow'
  BY <1>11 DEF Append
<1>12. ASSUME NEW h \in Handlers, Insert(h)
      PROVE  HandlersKnow'
  BY <1>12 DEF Insert
<1>13. ASSUME NEW h \in Handlers, Boot(h)
      PROVE  HandlersKnow'
  BY <1>13 DEF Boot
<1>14. ASSUME NEW h \in Handlers, Launch(h)
      PROVE  HandlersKnow'
  BY <1>14 DEF Launch, Run
<1>15. ASSUME NEW h \in Handlers, Decide(h)
      PROVE  HandlersKnow'
  BY <1>15 DEF Decide, Run
<1>16. ASSUME NEW h \in Handlers, Stop(h)
      PROVE  HandlersKnow'
  BY <1>16 DEF Stop, Cancel
<1>17. ASSUME NEW h \in Handlers, ApprovePlan(h)
      PROVE  HandlersKnow'
  BY <1>17 DEF ApprovePlan, Advance
<1>18. ASSUME NEW h \in Handlers, Execute(h)
      PROVE  HandlersKnow'
  BY <1>18 DEF Execute, Advance
<1>19. ASSUME NEW h \in Handlers, Simulate(h)
      PROVE  HandlersKnow'
  BY <1>19 DEF Simulate, Advance
<1>20. ASSUME NEW h \in Handlers, Shutdown(h)
      PROVE  HandlersKnow'
  BY <1>20 DEF Shutdown
<1>21. ASSUME NEW h \in Handlers, FindActive(h)
      PROVE  HandlersKnow'
  BY <1>21 DEF FindActive, ActiveRuns
<1>22. ASSUME NEW h \in Handlers, Interrupt(h)
      PROVE  HandlersKnow'
  BY <1>22 DEF Interrupt, Cancel
<1>23. ASSUME NEW h \in Handlers, Join(h)
      PROVE  HandlersKnow'
  BY <1>23 DEF Join
<1>24. ASSUME NEW h \in Handlers, Commit(h)
      PROVE  HandlersKnow'
  BY <1>24 DEF Commit
<1>25. ASSUME NEW r \in Runs, WriterWorks(r)
      PROVE  HandlersKnow'
  BY <1>25 DEF WriterWorks
<1>26. ASSUME NEW r \in Runs, WriterEnds(r)
      PROVE  HandlersKnow'
  BY <1>26 DEF WriterEnds
<1>27. CASE UNCHANGED vars
  BY <1>27 DEF vars
<1>28. QED
  BY <1>1, <1>2, <1>3, <1>4, <1>5, <1>6, <1>7, <1>8, <1>9, <1>10, <1>11, <1>12, <1>13, <1>14,
     <1>15, <1>16, <1>17, <1>18, <1>19, <1>20, <1>21, <1>22, <1>23, <1>24, <1>25, <1>26, <1>27
     DEF Next, Serve

\* Every step keeps runs with their session.
LEMMA RunsBelongStep ==
    ASSUME IInv, [Next]_vars
    PROVE  RunsBelong'
<1> USE ConstantsAssumption DEF IInv, TypeOK, HandlersKnow, RunsBelong, Goto, Step, Answer,
        Look, NoCall, store, agent, service, gate, procs
<1>1. ASSUME NEW h \in Handlers, Send(h)
      PROVE  RunsBelong'
  BY <1>1 DEF Send, Sensible
<1>2. ASSUME NEW h \in Handlers, Open(h)
      PROVE  RunsBelong'
  BY <1>2 DEF Open
<1>3. ASSUME NEW h \in Handlers, Release(h)
      PROVE  RunsBelong'
  BY <1>3 DEF Release
<1>4. ASSUME NEW h \in Handlers, Check(h)
      PROVE  RunsBelong'
  BY <1>4 DEF Check
<1>5. ASSUME NEW h \in Handlers, Remove(h)
      PROVE  RunsBelong'
  BY <1>5 DEF Remove
<1>6. ASSUME NEW h \in Handlers, Delete(h)
      PROVE  RunsBelong'
  BY <1>6 DEF Delete
<1>7. ASSUME NEW h \in Handlers, Forget(h)
      PROVE  RunsBelong'
  BY <1>7 DEF Forget
<1>8. ASSUME NEW h \in Handlers, Create(h)
      PROVE  RunsBelong'
  BY <1>8 DEF Create
<1>9. ASSUME NEW h \in Handlers, Set(h)
      PROVE  RunsBelong'
  BY <1>9 DEF Set
<1>10. ASSUME NEW h \in Handlers, Session(h)
      PROVE  RunsBelong'
  BY <1>10 DEF Session
<1>11. ASSUME NEW h \in Handlers, Append(h)
      PROVE  RunsBelong'
  BY <1>11 DEF Append
<1>12. ASSUME NEW h \in Handlers, Insert(h)
      PROVE  RunsBelong'
  BY <1>12 DEF Insert
<1>13. ASSUME NEW h \in Handlers, Boot(h)
      PROVE  RunsBelong'
  BY <1>13 DEF Boot
<1>14. ASSUME NEW h \in Handlers, Launch(h)
      PROVE  RunsBelong'
  BY <1>14 DEF Launch, Run
<1>15. ASSUME NEW h \in Handlers, Decide(h)
      PROVE  RunsBelong'
  BY <1>15 DEF Decide, Run
<1>16. ASSUME NEW h \in Handlers, Stop(h)
      PROVE  RunsBelong'
  BY <1>16 DEF Stop, Cancel
<1>17. ASSUME NEW h \in Handlers, ApprovePlan(h)
      PROVE  RunsBelong'
  BY <1>17 DEF ApprovePlan, Advance
<1>18. ASSUME NEW h \in Handlers, Execute(h)
      PROVE  RunsBelong'
  BY <1>18 DEF Execute, Advance
<1>19. ASSUME NEW h \in Handlers, Simulate(h)
      PROVE  RunsBelong'
  BY <1>19 DEF Simulate, Advance
<1>20. ASSUME NEW h \in Handlers, Shutdown(h)
      PROVE  RunsBelong'
  BY <1>20 DEF Shutdown
<1>21. ASSUME NEW h \in Handlers, FindActive(h)
      PROVE  RunsBelong'
  BY <1>21 DEF FindActive
<1>22. ASSUME NEW h \in Handlers, Interrupt(h)
      PROVE  RunsBelong'
  BY <1>22 DEF Interrupt, Cancel
<1>23. ASSUME NEW h \in Handlers, Join(h)
      PROVE  RunsBelong'
  BY <1>23 DEF Join
<1>24. ASSUME NEW h \in Handlers, Commit(h)
      PROVE  RunsBelong'
  BY <1>24 DEF Commit
<1>25. ASSUME NEW r \in Runs, WriterWorks(r)
      PROVE  RunsBelong'
  BY <1>25 DEF WriterWorks
<1>26. ASSUME NEW r \in Runs, WriterEnds(r)
      PROVE  RunsBelong'
  BY <1>26 DEF WriterEnds
<1>27. CASE UNCHANGED vars
  BY <1>27 DEF vars
<1>28. QED
  BY <1>1, <1>2, <1>3, <1>4, <1>5, <1>6, <1>7, <1>8, <1>9, <1>10, <1>11, <1>12, <1>13, <1>14,
     <1>15, <1>16, <1>17, <1>18, <1>19, <1>20, <1>21, <1>22, <1>23, <1>24, <1>25, <1>26, <1>27
     DEF Next, Serve

\* Every step begins nothing after the gate is shut.
LEMMA NothingStartsAfterReadyStep ==
    ASSUME IInv, [Next]_vars
    PROVE  NothingStartsAfterReady'
<1> USE ConstantsAssumption DEF IInv, TypeOK, HandlersServe, NothingStartsAfterReady, InFlight,
        HasActiveWork, Ops, OpenPCs, EndPCs, MessagePCs, StartPCs, ShutdownPCs, Goto, Step,
        Answer, Look, NoCall, store, agent, service, gate, procs
<1>1. ASSUME NEW h \in Handlers, Send(h)
      PROVE  NothingStartsAfterReady'
  BY <1>1 DEF Send, Sensible
<1>2. ASSUME NEW h \in Handlers, Open(h)
      PROVE  NothingStartsAfterReady'
  BY <1>2 DEF Open
<1>3. ASSUME NEW h \in Handlers, Release(h)
      PROVE  NothingStartsAfterReady'
  BY <1>3 DEF Release
<1>4. ASSUME NEW h \in Handlers, Check(h)
      PROVE  NothingStartsAfterReady'
  BY <1>4 DEF Check
<1>5. ASSUME NEW h \in Handlers, Remove(h)
      PROVE  NothingStartsAfterReady'
  BY <1>5 DEF Remove
<1>6. ASSUME NEW h \in Handlers, Delete(h)
      PROVE  NothingStartsAfterReady'
  BY <1>6 DEF Delete
<1>7. ASSUME NEW h \in Handlers, Forget(h)
      PROVE  NothingStartsAfterReady'
  BY <1>7 DEF Forget
<1>8. ASSUME NEW h \in Handlers, Create(h)
      PROVE  NothingStartsAfterReady'
  BY <1>8 DEF Create
<1>9. ASSUME NEW h \in Handlers, Set(h)
      PROVE  NothingStartsAfterReady'
  BY <1>9 DEF Set
<1>10. ASSUME NEW h \in Handlers, Session(h)
      PROVE  NothingStartsAfterReady'
  BY <1>10 DEF Session
<1>11. ASSUME NEW h \in Handlers, Append(h)
      PROVE  NothingStartsAfterReady'
  BY <1>11 DEF Append
<1>12. ASSUME NEW h \in Handlers, Insert(h)
      PROVE  NothingStartsAfterReady'
  BY <1>12 DEF Insert
<1>13. ASSUME NEW h \in Handlers, Boot(h)
      PROVE  NothingStartsAfterReady'
  BY <1>13 DEF Boot
<1>14. ASSUME NEW h \in Handlers, Launch(h)
      PROVE  NothingStartsAfterReady'
  BY <1>14 DEF Launch, Run
<1>15. ASSUME NEW h \in Handlers, Decide(h)
      PROVE  NothingStartsAfterReady'
  BY <1>15 DEF Decide, Run
<1>16. ASSUME NEW h \in Handlers, Stop(h)
      PROVE  NothingStartsAfterReady'
  BY <1>16 DEF Stop, Cancel
<1>17. ASSUME NEW h \in Handlers, ApprovePlan(h)
      PROVE  NothingStartsAfterReady'
  BY <1>17 DEF ApprovePlan, Advance
<1>18. ASSUME NEW h \in Handlers, Execute(h)
      PROVE  NothingStartsAfterReady'
  BY <1>18 DEF Execute, Advance
<1>19. ASSUME NEW h \in Handlers, Simulate(h)
      PROVE  NothingStartsAfterReady'
  BY <1>19 DEF Simulate, Advance
<1>20. ASSUME NEW h \in Handlers, Shutdown(h)
      PROVE  NothingStartsAfterReady'
  BY <1>20 DEF Shutdown
<1>21. ASSUME NEW h \in Handlers, FindActive(h)
      PROVE  NothingStartsAfterReady'
  BY <1>21 DEF FindActive
<1>22. ASSUME NEW h \in Handlers, Interrupt(h)
      PROVE  NothingStartsAfterReady'
  BY <1>22 DEF Interrupt, Cancel
<1>23. ASSUME NEW h \in Handlers, Join(h)
      PROVE  NothingStartsAfterReady'
  BY <1>23 DEF Join
<1>24. ASSUME NEW h \in Handlers, Commit(h)
      PROVE  NothingStartsAfterReady'
  BY <1>24 DEF Commit
<1>25. ASSUME NEW r \in Runs, WriterWorks(r)
      PROVE  NothingStartsAfterReady'
  BY <1>25 DEF WriterWorks
<1>26. ASSUME NEW r \in Runs, WriterEnds(r)
      PROVE  NothingStartsAfterReady'
  BY <1>26 DEF WriterEnds
<1>27. CASE UNCHANGED vars
  BY <1>27 DEF vars
<1>28. QED
  BY <1>1, <1>2, <1>3, <1>4, <1>5, <1>6, <1>7, <1>8, <1>9, <1>10, <1>11, <1>12, <1>13, <1>14,
     <1>15, <1>16, <1>17, <1>18, <1>19, <1>20, <1>21, <1>22, <1>23, <1>24, <1>25, <1>26, <1>27
     DEF Next, Serve

\* For a patient user every step serves one request at a time.
LEMMA OneRequestStep ==
    ASSUME IInv, patient, [Next]_vars
    PROVE  OneRequest'
<1> USE ConstantsAssumption DEF IInv, PatientInv, TypeOK, OneRequest, Patient, Ops, Goto, Step,
        Answer, Look, NoCall, store, agent, service, gate, procs
<1>1. ASSUME NEW h \in Handlers, Send(h)
      PROVE  OneRequest'
  BY <1>1 DEF Send, Sensible
<1>2. ASSUME NEW h \in Handlers, Open(h)
      PROVE  OneRequest'
  BY <1>2 DEF Open
<1>3. ASSUME NEW h \in Handlers, Release(h)
      PROVE  OneRequest'
  BY <1>3 DEF Release
<1>4. ASSUME NEW h \in Handlers, Check(h)
      PROVE  OneRequest'
  BY <1>4 DEF Check
<1>5. ASSUME NEW h \in Handlers, Remove(h)
      PROVE  OneRequest'
  BY <1>5 DEF Remove
<1>6. ASSUME NEW h \in Handlers, Delete(h)
      PROVE  OneRequest'
  BY <1>6 DEF Delete
<1>7. ASSUME NEW h \in Handlers, Forget(h)
      PROVE  OneRequest'
  BY <1>7 DEF Forget
<1>8. ASSUME NEW h \in Handlers, Create(h)
      PROVE  OneRequest'
  BY <1>8 DEF Create
<1>9. ASSUME NEW h \in Handlers, Set(h)
      PROVE  OneRequest'
  BY <1>9 DEF Set
<1>10. ASSUME NEW h \in Handlers, Session(h)
      PROVE  OneRequest'
  BY <1>10 DEF Session
<1>11. ASSUME NEW h \in Handlers, Append(h)
      PROVE  OneRequest'
  BY <1>11 DEF Append
<1>12. ASSUME NEW h \in Handlers, Insert(h)
      PROVE  OneRequest'
  BY <1>12 DEF Insert
<1>13. ASSUME NEW h \in Handlers, Boot(h)
      PROVE  OneRequest'
  BY <1>13 DEF Boot
<1>14. ASSUME NEW h \in Handlers, Launch(h)
      PROVE  OneRequest'
  BY <1>14 DEF Launch, Run
<1>15. ASSUME NEW h \in Handlers, Decide(h)
      PROVE  OneRequest'
  BY <1>15 DEF Decide, Run
<1>16. ASSUME NEW h \in Handlers, Stop(h)
      PROVE  OneRequest'
  BY <1>16 DEF Stop, Cancel
<1>17. ASSUME NEW h \in Handlers, ApprovePlan(h)
      PROVE  OneRequest'
  BY <1>17 DEF ApprovePlan, Advance
<1>18. ASSUME NEW h \in Handlers, Execute(h)
      PROVE  OneRequest'
  BY <1>18 DEF Execute, Advance
<1>19. ASSUME NEW h \in Handlers, Simulate(h)
      PROVE  OneRequest'
  BY <1>19 DEF Simulate, Advance
<1>20. ASSUME NEW h \in Handlers, Shutdown(h)
      PROVE  OneRequest'
  BY <1>20 DEF Shutdown
<1>21. ASSUME NEW h \in Handlers, FindActive(h)
      PROVE  OneRequest'
  BY <1>21 DEF FindActive
<1>22. ASSUME NEW h \in Handlers, Interrupt(h)
      PROVE  OneRequest'
  BY <1>22 DEF Interrupt, Cancel
<1>23. ASSUME NEW h \in Handlers, Join(h)
      PROVE  OneRequest'
  BY <1>23 DEF Join
<1>24. ASSUME NEW h \in Handlers, Commit(h)
      PROVE  OneRequest'
  BY <1>24 DEF Commit
<1>25. ASSUME NEW r \in Runs, WriterWorks(r)
      PROVE  OneRequest'
  BY <1>25 DEF WriterWorks
<1>26. ASSUME NEW r \in Runs, WriterEnds(r)
      PROVE  OneRequest'
  BY <1>26 DEF WriterEnds
<1>27. CASE UNCHANGED vars
  BY <1>27 DEF vars
<1>28. QED
  BY <1>1, <1>2, <1>3, <1>4, <1>5, <1>6, <1>7, <1>8, <1>9, <1>10, <1>11, <1>12, <1>13, <1>14,
     <1>15, <1>16, <1>17, <1>18, <1>19, <1>20, <1>21, <1>22, <1>23, <1>24, <1>25, <1>26, <1>27
     DEF Next, Serve

\* For a patient user every step keeps one row.
LEMMA OneRowStep ==
    ASSUME IInv, patient, [Next]_vars
    PROVE  OneRow'
<1> USE ConstantsAssumption DEF IInv, PatientInv, TypeOK, HandlersServe, HandlersKnow,
        OneRequest, OneRow, Ops, Patient, OpenPCs, EndPCs, MessagePCs, StartPCs, ShutdownPCs,
        Goto, Step, Answer, Look, NoCall, store, agent, service, gate, procs
<1>1. ASSUME NEW h \in Handlers, Send(h)
      PROVE  OneRow'
  BY <1>1 DEF Send, Sensible
<1>2. ASSUME NEW h \in Handlers, Open(h)
      PROVE  OneRow'
  BY <1>2 DEF Open
<1>3. ASSUME NEW h \in Handlers, Release(h)
      PROVE  OneRow'
  BY <1>3 DEF Release
<1>4. ASSUME NEW h \in Handlers, Check(h)
      PROVE  OneRow'
  BY <1>4 DEF Check
<1>5. ASSUME NEW h \in Handlers, Remove(h)
      PROVE  OneRow'
  BY <1>5 DEF Remove
<1>6. ASSUME NEW h \in Handlers, Delete(h)
      PROVE  OneRow'
  BY <1>6 DEF Delete
<1>7. ASSUME NEW h \in Handlers, Forget(h)
      PROVE  OneRow'
  BY <1>7 DEF Forget
<1>8. ASSUME NEW h \in Handlers, Create(h)
      PROVE  OneRow'
  BY <1>8 DEF Create
<1>9. ASSUME NEW h \in Handlers, Set(h)
      PROVE  OneRow'
  BY <1>9 DEF Set
<1>10. ASSUME NEW h \in Handlers, Session(h)
      PROVE  OneRow'
  BY <1>10 DEF Session
<1>11. ASSUME NEW h \in Handlers, Append(h)
      PROVE  OneRow'
  BY <1>11 DEF Append
<1>12. ASSUME NEW h \in Handlers, Insert(h)
      PROVE  OneRow'
  BY <1>12 DEF Insert
<1>13. ASSUME NEW h \in Handlers, Boot(h)
      PROVE  OneRow'
  BY <1>13 DEF Boot
<1>14. ASSUME NEW h \in Handlers, Launch(h)
      PROVE  OneRow'
  BY <1>14 DEF Launch, Run
<1>15. ASSUME NEW h \in Handlers, Decide(h)
      PROVE  OneRow'
  BY <1>15 DEF Decide, Run
<1>16. ASSUME NEW h \in Handlers, Stop(h)
      PROVE  OneRow'
  BY <1>16 DEF Stop, Cancel
<1>17. ASSUME NEW h \in Handlers, ApprovePlan(h)
      PROVE  OneRow'
  BY <1>17 DEF ApprovePlan, Advance
<1>18. ASSUME NEW h \in Handlers, Execute(h)
      PROVE  OneRow'
  BY <1>18 DEF Execute, Advance
<1>19. ASSUME NEW h \in Handlers, Simulate(h)
      PROVE  OneRow'
  BY <1>19 DEF Simulate, Advance
<1>20. ASSUME NEW h \in Handlers, Shutdown(h)
      PROVE  OneRow'
  BY <1>20 DEF Shutdown
<1>21. ASSUME NEW h \in Handlers, FindActive(h)
      PROVE  OneRow'
  BY <1>21 DEF FindActive
<1>22. ASSUME NEW h \in Handlers, Interrupt(h)
      PROVE  OneRow'
  BY <1>22 DEF Interrupt, Cancel
<1>23. ASSUME NEW h \in Handlers, Join(h)
      PROVE  OneRow'
  BY <1>23 DEF Join
<1>24. ASSUME NEW h \in Handlers, Commit(h)
      PROVE  OneRow'
  BY <1>24 DEF Commit
<1>25. ASSUME NEW r \in Runs, WriterWorks(r)
      PROVE  OneRow'
  BY <1>25 DEF WriterWorks
<1>26. ASSUME NEW r \in Runs, WriterEnds(r)
      PROVE  OneRow'
  BY <1>26 DEF WriterEnds
<1>27. CASE UNCHANGED vars
  BY <1>27 DEF vars
<1>28. QED
  BY <1>1, <1>2, <1>3, <1>4, <1>5, <1>6, <1>7, <1>8, <1>9, <1>10, <1>11, <1>12, <1>13, <1>14,
     <1>15, <1>16, <1>17, <1>18, <1>19, <1>20, <1>21, <1>22, <1>23, <1>24, <1>25, <1>26, <1>27
     DEF Next, Serve

\* For a patient user every step keeps one writer.
LEMMA OneWriterStep ==
    ASSUME IInv, patient, [Next]_vars
    PROVE  OneWriter'
<1> USE ConstantsAssumption DEF IInv, PatientInv, TypeOK, HandlersServe, HandlersKnow,
        RunsBelong, OneRequest, OneRow, OneWriter, StoppedRunsEnd, Stopped, Ops, Active,
        EndPCs, Goto, Step, Answer, Look, NoCall, store, agent, service, gate, procs
<1>1. ASSUME NEW h \in Handlers, Send(h)
      PROVE  OneWriter'
  BY <1>1 DEF Send, Sensible
<1>2. ASSUME NEW h \in Handlers, Open(h)
      PROVE  OneWriter'
  BY <1>2 DEF Open
<1>3. ASSUME NEW h \in Handlers, Release(h)
      PROVE  OneWriter'
  BY <1>3 DEF Release
<1>4. ASSUME NEW h \in Handlers, Check(h)
      PROVE  OneWriter'
  BY <1>4 DEF Check
<1>5. ASSUME NEW h \in Handlers, Remove(h)
      PROVE  OneWriter'
  BY <1>5 DEF Remove
<1>6. ASSUME NEW h \in Handlers, Delete(h)
      PROVE  OneWriter'
  BY <1>6 DEF Delete
<1>7. ASSUME NEW h \in Handlers, Forget(h)
      PROVE  OneWriter'
  BY <1>7 DEF Forget
<1>8. ASSUME NEW h \in Handlers, Create(h)
      PROVE  OneWriter'
  BY <1>8 DEF Create
<1>9. ASSUME NEW h \in Handlers, Set(h)
      PROVE  OneWriter'
  BY <1>9 DEF Set
<1>10. ASSUME NEW h \in Handlers, Session(h)
      PROVE  OneWriter'
  BY <1>10 DEF Session
<1>11. ASSUME NEW h \in Handlers, Append(h)
      PROVE  OneWriter'
  BY <1>11 DEF Append
<1>12. ASSUME NEW h \in Handlers, Insert(h)
      PROVE  OneWriter'
  <2>1. CASE Answer(h) /\ UNCHANGED <<runState, sessionOf, alive>>
    BY <1>12, <2>1
  <2>2. CASE ActiveRuns(WorkspaceOf[cur[h]]) = {}
    <3>1. \A g \in Handlers \ {h} : pc[g] = "idle"
      BY <1>12 DEF Insert
    <3>2. rows = {current} \ {NoSession} /\ cur[h] = current
      BY <1>12, <3>1 DEF Insert
    <3>3. Stopped = {}
      BY <1>12 DEF Insert, StartPCs
    <3>4. \A q \in Runs : runState[q] \notin Active
      <4>1. ASSUME NEW q \in Runs, runState[q] \in Active
            PROVE  q \in ActiveRuns(WorkspaceOf[cur[h]])
        BY <3>2, <4>1 DEF ActiveRuns
      <4>2. QED
        BY <2>2, <4>1
    <3>5. alive = {}
      BY <3>3, <3>4
    <3>6. QED
      BY <1>12, <3>1, <3>4, <3>5 DEF Insert
  <2>3. QED
    BY <1>12, <2>1, <2>2 DEF Insert
<1>13. ASSUME NEW h \in Handlers, Boot(h)
      PROVE  OneWriter'
  BY <1>13 DEF Boot
<1>14. ASSUME NEW h \in Handlers, Launch(h)
      PROVE  OneWriter'
  BY <1>14 DEF Launch, Run
<1>15. ASSUME NEW h \in Handlers, Decide(h)
      PROVE  OneWriter'
  BY <1>15 DEF Decide, Run
<1>16. ASSUME NEW h \in Handlers, Stop(h)
      PROVE  OneWriter'
  BY <1>16 DEF Stop, Cancel
<1>17. ASSUME NEW h \in Handlers, ApprovePlan(h)
      PROVE  OneWriter'
  BY <1>17 DEF ApprovePlan, Advance
<1>18. ASSUME NEW h \in Handlers, Execute(h)
      PROVE  OneWriter'
  BY <1>18 DEF Execute, Advance
<1>19. ASSUME NEW h \in Handlers, Simulate(h)
      PROVE  OneWriter'
  BY <1>19 DEF Simulate, Advance
<1>20. ASSUME NEW h \in Handlers, Shutdown(h)
      PROVE  OneWriter'
  BY <1>20 DEF Shutdown
<1>21. ASSUME NEW h \in Handlers, FindActive(h)
      PROVE  OneWriter'
  BY <1>21 DEF FindActive
<1>22. ASSUME NEW h \in Handlers, Interrupt(h)
      PROVE  OneWriter'
  BY <1>22 DEF Interrupt, Cancel
<1>23. ASSUME NEW h \in Handlers, Join(h)
      PROVE  OneWriter'
  BY <1>23 DEF Join
<1>24. ASSUME NEW h \in Handlers, Commit(h)
      PROVE  OneWriter'
  BY <1>24 DEF Commit
<1>25. ASSUME NEW r \in Runs, WriterWorks(r)
      PROVE  OneWriter'
  BY <1>25 DEF WriterWorks
<1>26. ASSUME NEW r \in Runs, WriterEnds(r)
      PROVE  OneWriter'
  BY <1>26 DEF WriterEnds
<1>27. CASE UNCHANGED vars
  BY <1>27 DEF vars
<1>28. QED
  BY <1>1, <1>2, <1>3, <1>4, <1>5, <1>6, <1>7, <1>8, <1>9, <1>10, <1>11, <1>12, <1>13, <1>14,
     <1>15, <1>16, <1>17, <1>18, <1>19, <1>20, <1>21, <1>22, <1>23, <1>24, <1>25, <1>26, <1>27
     DEF Next, Serve

\* For a patient user every step waits for the runs that were stopped.
LEMMA StoppedRunsEndStep ==
    ASSUME IInv, patient, [Next]_vars
    PROVE  StoppedRunsEnd'
<1> USE ConstantsAssumption DEF IInv, PatientInv, TypeOK, HandlersServe, HandlersKnow,
        RunsBelong, OneRequest, OneRow, OneWriter, StoppedRunsEnd, Stopped, Patient, Ops,
        Active, OpenPCs, EndPCs, MessagePCs, StartPCs, ShutdownPCs, Goto, Step, Answer, Look,
        NoCall, store, agent, service, gate, procs
<1>1. ASSUME NEW h \in Handlers, Send(h)
      PROVE  StoppedRunsEnd'
  BY <1>1 DEF Send, Sensible
<1>2. ASSUME NEW h \in Handlers, Open(h)
      PROVE  StoppedRunsEnd'
  BY <1>2 DEF Open
<1>3. ASSUME NEW h \in Handlers, Release(h)
      PROVE  StoppedRunsEnd'
  BY <1>3 DEF Release
<1>4. ASSUME NEW h \in Handlers, Check(h)
      PROVE  StoppedRunsEnd'
  BY <1>4 DEF Check, ActiveRuns
<1>5. ASSUME NEW h \in Handlers, Remove(h)
      PROVE  StoppedRunsEnd'
  BY <1>5 DEF Remove
<1>6. ASSUME NEW h \in Handlers, Delete(h)
      PROVE  StoppedRunsEnd'
  BY <1>6 DEF Delete
<1>7. ASSUME NEW h \in Handlers, Forget(h)
      PROVE  StoppedRunsEnd'
  BY <1>7 DEF Forget
<1>8. ASSUME NEW h \in Handlers, Create(h)
      PROVE  StoppedRunsEnd'
  BY <1>8 DEF Create
<1>9. ASSUME NEW h \in Handlers, Set(h)
      PROVE  StoppedRunsEnd'
  BY <1>9 DEF Set
<1>10. ASSUME NEW h \in Handlers, Session(h)
      PROVE  StoppedRunsEnd'
  BY <1>10 DEF Session
<1>11. ASSUME NEW h \in Handlers, Append(h)
      PROVE  StoppedRunsEnd'
  BY <1>11 DEF Append
<1>12. ASSUME NEW h \in Handlers, Insert(h)
      PROVE  StoppedRunsEnd'
  BY <1>12 DEF Insert
<1>13. ASSUME NEW h \in Handlers, Boot(h)
      PROVE  StoppedRunsEnd'
  BY <1>13 DEF Boot
<1>14. ASSUME NEW h \in Handlers, Launch(h)
      PROVE  StoppedRunsEnd'
  BY <1>14 DEF Launch, Run
<1>15. ASSUME NEW h \in Handlers, Decide(h)
      PROVE  StoppedRunsEnd'
  BY <1>15 DEF Decide, Run
<1>16. ASSUME NEW h \in Handlers, Stop(h)
      PROVE  StoppedRunsEnd'
  BY <1>16 DEF Stop, Cancel
<1>17. ASSUME NEW h \in Handlers, ApprovePlan(h)
      PROVE  StoppedRunsEnd'
  BY <1>17 DEF ApprovePlan, Advance
<1>18. ASSUME NEW h \in Handlers, Execute(h)
      PROVE  StoppedRunsEnd'
  BY <1>18 DEF Execute, Advance
<1>19. ASSUME NEW h \in Handlers, Simulate(h)
      PROVE  StoppedRunsEnd'
  BY <1>19 DEF Simulate, Advance
<1>20. ASSUME NEW h \in Handlers, Shutdown(h)
      PROVE  StoppedRunsEnd'
  BY <1>20 DEF Shutdown
<1>21. ASSUME NEW h \in Handlers, FindActive(h)
      PROVE  StoppedRunsEnd'
  BY <1>21 DEF FindActive, ActiveRuns
<1>22. ASSUME NEW h \in Handlers, Interrupt(h)
      PROVE  StoppedRunsEnd'
  BY <1>22 DEF Interrupt, Cancel
<1>23. ASSUME NEW h \in Handlers, Join(h)
      PROVE  StoppedRunsEnd'
  BY <1>23 DEF Join
<1>24. ASSUME NEW h \in Handlers, Commit(h)
      PROVE  StoppedRunsEnd'
  BY <1>24 DEF Commit
<1>25. ASSUME NEW r \in Runs, WriterWorks(r)
      PROVE  StoppedRunsEnd'
  BY <1>25 DEF WriterWorks
<1>26. ASSUME NEW r \in Runs, WriterEnds(r)
      PROVE  StoppedRunsEnd'
  BY <1>26 DEF WriterEnds
<1>27. CASE UNCHANGED vars
  BY <1>27 DEF vars
<1>28. QED
  BY <1>1, <1>2, <1>3, <1>4, <1>5, <1>6, <1>7, <1>8, <1>9, <1>10, <1>11, <1>12, <1>13, <1>14,
     <1>15, <1>16, <1>17, <1>18, <1>19, <1>20, <1>21, <1>22, <1>23, <1>24, <1>25, <1>26, <1>27
     DEF Next, Serve

\* For a patient user every step leaves no directory behind.
LEMMA DirectoriesBelongStep ==
    ASSUME IInv, patient, [Next]_vars
    PROVE  DirectoriesBelong'
<1> USE ConstantsAssumption DEF IInv, PatientInv, TypeOK, HandlersServe, HandlersKnow,
        RunsBelong, OneRequest, OneRow, OneWriter, StoppedRunsEnd, DirectoriesBelong, Ops,
        EndPCs, Goto, Step, Answer, Look, NoCall, store, agent, service, gate, procs
<1>1. ASSUME NEW h \in Handlers, Send(h)
      PROVE  DirectoriesBelong'
  BY <1>1 DEF Send, Sensible
<1>2. ASSUME NEW h \in Handlers, Open(h)
      PROVE  DirectoriesBelong'
  BY <1>2 DEF Open
<1>3. ASSUME NEW h \in Handlers, Release(h)
      PROVE  DirectoriesBelong'
  BY <1>3 DEF Release
<1>4. ASSUME NEW h \in Handlers, Check(h)
      PROVE  DirectoriesBelong'
  BY <1>4 DEF Check
<1>5. ASSUME NEW h \in Handlers, Remove(h)
      PROVE  DirectoriesBelong'
  BY <1>5 DEF Remove
<1>6. ASSUME NEW h \in Handlers, Delete(h)
      PROVE  DirectoriesBelong'
  BY <1>6 DEF Delete
<1>7. ASSUME NEW h \in Handlers, Forget(h)
      PROVE  DirectoriesBelong'
  BY <1>7 DEF Forget
<1>8. ASSUME NEW h \in Handlers, Create(h)
      PROVE  DirectoriesBelong'
  BY <1>8 DEF Create
<1>9. ASSUME NEW h \in Handlers, Set(h)
      PROVE  DirectoriesBelong'
  BY <1>9 DEF Set
<1>10. ASSUME NEW h \in Handlers, Session(h)
      PROVE  DirectoriesBelong'
  BY <1>10 DEF Session
<1>11. ASSUME NEW h \in Handlers, Append(h)
      PROVE  DirectoriesBelong'
  BY <1>11 DEF Append
<1>12. ASSUME NEW h \in Handlers, Insert(h)
      PROVE  DirectoriesBelong'
  BY <1>12 DEF Insert
<1>13. ASSUME NEW h \in Handlers, Boot(h)
      PROVE  DirectoriesBelong'
  BY <1>13 DEF Boot
<1>14. ASSUME NEW h \in Handlers, Launch(h)
      PROVE  DirectoriesBelong'
  BY <1>14 DEF Launch, Run
<1>15. ASSUME NEW h \in Handlers, Decide(h)
      PROVE  DirectoriesBelong'
  BY <1>15 DEF Decide, Run
<1>16. ASSUME NEW h \in Handlers, Stop(h)
      PROVE  DirectoriesBelong'
  BY <1>16 DEF Stop, Cancel
<1>17. ASSUME NEW h \in Handlers, ApprovePlan(h)
      PROVE  DirectoriesBelong'
  BY <1>17 DEF ApprovePlan, Advance
<1>18. ASSUME NEW h \in Handlers, Execute(h)
      PROVE  DirectoriesBelong'
  BY <1>18 DEF Execute, Advance
<1>19. ASSUME NEW h \in Handlers, Simulate(h)
      PROVE  DirectoriesBelong'
  BY <1>19 DEF Simulate, Advance
<1>20. ASSUME NEW h \in Handlers, Shutdown(h)
      PROVE  DirectoriesBelong'
  BY <1>20 DEF Shutdown
<1>21. ASSUME NEW h \in Handlers, FindActive(h)
      PROVE  DirectoriesBelong'
  BY <1>21 DEF FindActive
<1>22. ASSUME NEW h \in Handlers, Interrupt(h)
      PROVE  DirectoriesBelong'
  BY <1>22 DEF Interrupt, Cancel
<1>23. ASSUME NEW h \in Handlers, Join(h)
      PROVE  DirectoriesBelong'
  BY <1>23 DEF Join
<1>24. ASSUME NEW h \in Handlers, Commit(h)
      PROVE  DirectoriesBelong'
  BY <1>24 DEF Commit
<1>25. ASSUME NEW r \in Runs, WriterWorks(r)
      PROVE  DirectoriesBelong'
  BY <1>25 DEF WriterWorks
<1>26. ASSUME NEW r \in Runs, WriterEnds(r)
      PROVE  DirectoriesBelong'
  BY <1>26 DEF WriterEnds
<1>27. CASE UNCHANGED vars
  BY <1>27 DEF vars
<1>28. QED
  BY <1>1, <1>2, <1>3, <1>4, <1>5, <1>6, <1>7, <1>8, <1>9, <1>10, <1>11, <1>12, <1>13, <1>14,
     <1>15, <1>16, <1>17, <1>18, <1>19, <1>20, <1>21, <1>22, <1>23, <1>24, <1>25, <1>26, <1>27
     DEF Next, Serve

\* The process begins without a session.
LEMMA InitInv ==
    ASSUME Init
    PROVE  IInv
<1>1. TypeOK
  BY ConstantsAssumption DEF Init, TypeOK, RunStates, ResearchStates, PCs, NoCall, Call, Refs
<1>2. HandlersServe /\ HandlersKnow
  BY DEF Init, HandlersServe, HandlersKnow, NoCall, OpenPCs, EndPCs, MessagePCs, StartPCs,
     ShutdownPCs
<1>3. RunsBelong /\ NothingStartsAfterReady
  BY DEF Init, RunsBelong, NothingStartsAfterReady
<1>4. OneRequest /\ OneRow /\ OneWriter
  BY DEF Init, OneRequest, OneRow, OneWriter, Active
<1>5. StoppedRunsEnd /\ DirectoriesBelong
  BY DEF Init, StoppedRunsEnd, DirectoriesBelong, NoCall, EndPCs
<1>6. QED
  BY <1>1, <1>2, <1>3, <1>4, <1>5 DEF IInv, PatientInv

----------------------------------------------------------------------------
(* Theorems *)

\* The invariant of the session service, the gate and the writers holds at every time,
\* however the server threads interleave.
THEOREM Invariance == Spec => []IInv
<1>1. Init => IInv
  BY InitInv
<1>2. IInv /\ [Next]_vars => IInv'
  <2>1. SUFFICES ASSUME IInv, [Next]_vars  PROVE IInv'
    OBVIOUS
  <2>2. TypeOK' /\ HandlersServe' /\ HandlersKnow' /\ RunsBelong' /\ NothingStartsAfterReady'
    BY <2>1, TypesStep, HandlersServeStep, HandlersKnowStep, RunsBelongStep,
       NothingStartsAfterReadyStep
  <2>3. patient' => patient
    BY <2>1 DEF Next, Serve, vars, Send, Open, Release, Check, Remove, Delete, Forget, Create,
       Set, Session, Append, Insert, Boot, Launch, Decide, Run, Stop, ApprovePlan, Execute,
       Simulate, Shutdown, FindActive, Interrupt, Join, Commit, WriterWorks, WriterEnds, gate
  <2>4. ASSUME patient  PROVE PatientInv'
    BY <2>1, <2>4, OneRequestStep, OneRowStep, OneWriterStep, StoppedRunsEndStep,
       DirectoriesBelongStep DEF PatientInv
  <2>5. QED
    BY <2>2, <2>3, <2>4 DEF IInv
<1>3. QED
  BY <1>1, <1>2, PTL DEF Spec

\* Every variable keeps its type.
THEOREM Typing == Spec => []TypeOK
<1>1. IInv => TypeOK
  BY DEF IInv
<1>2. QED
  BY <1>1, Invariance, PTL

\* Once commit_if_idle has let the application close, no run is queued or running, no plan
\* waits for its execution and no write is under way, whatever was in flight when the gate
\* was asked.
THEOREM ReadyIsFinal == Spec => []NothingStartsAfterReady
<1>1. IInv => NothingStartsAfterReady
  BY DEF IInv
<1>2. QED
  BY <1>1, Invariance, PTL

\* For a patient user release and prepare-shutdown delete a session only when its writer
\* has ended, and leave no directory behind.
THEOREM QuietEnds == Spec => []SessionsEndQuietly
<1>1. IInv => SessionsEndQuietly
  <2>1. SUFFICES ASSUME IInv, patient
                 PROVE  (\A r \in alive : sessionOf[r] \in rows) /\ (\A s \in dirs : s \in rows)
    BY DEF SessionsEndQuietly
  <2>2. \A r \in alive : r \in Runs /\ runState[r] \notin {"none", "gone"}
    BY <2>1 DEF IInv, TypeOK, PatientInv, OneWriter
  <2>3. QED
    BY <2>1, <2>2 DEF IInv, RunsBelong, PatientInv, DirectoriesBelong
<1>2. QED
  BY <1>1, Invariance, PTL

\* For a patient user open and prepare-shutdown lose no conversation row: each is the
\* current one, or that of a request under way.
THEOREM OneSessionOnly == Spec => []OneSession
<1>1. IInv => OneSession
  <2>1. SUFFICES ASSUME IInv, patient, NEW s \in rows
                 PROVE  s = current \/ \E h \in Handlers : cur[h] = s
    BY DEF OneSession
  <2>2. QED
    BY <2>1 DEF IInv, PatientInv, OneRow
<1>2. QED
  BY <1>1, Invariance, PTL
=============================================================================
