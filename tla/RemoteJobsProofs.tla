--------------------------- MODULE RemoteJobsProofs ---------------------------
(***************************************************************************)
(* Proofs about RemoteJobs, for any number of jobs, workers, repeated      *)
(* submissions and restarts: typing, one user of a job directory, no second*)
(* simulation of a job that has had a result, and what a call returns.     *)
(***************************************************************************)
EXTENDS RemoteJobs, FiniteSetTheorems, TLAPS

----------------------------------------------------------------------------
(* The inductive invariant *)

\* Where a worker is while it works in the directory of its job.
Inside == {"extract", "prepare", "run", "wait", "store", "clean"}

\* A worker past its first step serves a job; what it stores is the end of a simulation.
WorkersServe ==
    \A w \in Workers :
        /\ at[w] # "idle" => Job(w) \in Jobs
        /\ at[w] = "store" => ended[w] \in Statuses
        /\ at[w] \in {"wait", "store"} => tries[Job(w)] > 0

\* Two workers are never inside the directory of one job.
OneUser ==
    \A v, w \in Workers :
        at[v] \in Inside /\ at[w] \in Inside /\ Job(v) = Job(w) => v = w

\* What a worker inside a directory may rely on.
UsedDirectories ==
    \A w \in Workers : at[w] \in Inside =>
        /\ dirs[Job(w)] # "absent"
        /\ jobs[Job(w)] = NoResult
        /\ Job(w) \notin orphans \cup finished
        /\ at[w] = "store" => dirs[Job(w)] = "run"

\* What the service remembers of a job, and what its directory says of it.
DirectoriesRecord ==
    \A j \in Jobs :
        /\ jobs[j] # NoResult =>
              dirs[j] = "run" /\ j \in finished /\ jobs[j].try = tries[j] /\ tries[j] > 0
        /\ j \in orphans \cup finished => dirs[j] # "absent"
        /\ dirs[j] # "absent" =>
              \/ \E w \in Workers : at[w] \in Inside /\ Job(w) = j
              \/ jobs[j] # NoResult
              \/ crashes > 0

IInv ==
    /\ TypeOK
    /\ WorkersServe
    /\ OneUser
    /\ UsedDirectories
    /\ DirectoriesRecord
    /\ CallsReturnTheLastRun

----------------------------------------------------------------------------
(* Steps *)

\* An answered worker is idle, and no call is given more than its own reply.
LEMMA ReplyEffect ==
    ASSUME TypeOK, NEW w \in Workers, NEW answer \in {"accepted", "failed"}, Reply(w, answer)
    PROVE  /\ at' = [at EXCEPT ![w] = "idle"]
           /\ serves' = [serves EXCEPT ![w] = NoPost]
           /\ ended' = [ended EXCEPT ![w] = "none"]
           /\ client' \in [Jobs -> {"idle", "posted", "accepted", "asked", "done", "failed"}]
           /\ \A j \in Jobs : client'[j] = "done" => client[j] = "done"
           /\ UNCHANGED <<got, posts, expired, copies, crashes>>
  BY DEF Reply, TypeOK, network

\* Every step keeps the types.
LEMMA TypeStep ==
    ASSUME TypeOK, WorkersServe, [Next]_vars
    PROVE  TypeOK'
<1> USE ConstantsAssumption DEF TypeOK
<1>1. ASSUME NEW j \in Jobs, Submit(j)  PROVE TypeOK'
  BY <1>1 DEF Submit, network, workers, service, Post, Results, WorkersServe
<1>2. ASSUME NEW j \in Jobs, AskStatus(j)  PROVE TypeOK'
  BY <1>2 DEF AskStatus, network, workers, service, Post, Results, WorkersServe
<1>3. ASSUME NEW j \in Jobs, FetchResult(j)  PROVE TypeOK'
  BY <1>3 DEF FetchResult, network, workers, service, Post, Results, WorkersServe
<1>4. ASSUME NEW j \in Jobs, GiveUp(j)  PROVE TypeOK'
  BY <1>4 DEF GiveUp, network, workers, service, Post, Results, WorkersServe
<1>5. ASSUME NEW j \in Jobs, Repeat(j)  PROVE TypeOK'
  BY <1>5 DEF Repeat, network, workers, service, Post, Results, WorkersServe
<1>6. ASSUME NEW j \in Jobs, Expire(j)  PROVE TypeOK'
  BY <1>6 DEF Expire, network, workers, service, Post, Results, WorkersServe
<1>7. ASSUME NEW j \in Jobs, OrphanEnds(j)  PROVE TypeOK'
  BY <1>7 DEF OrphanEnds, network, workers, service, Post, Results, WorkersServe
<1>8. ASSUME NEW w \in Workers, Receive(w)  PROVE TypeOK'
  BY <1>8, ReplyEffect DEF Receive, Goto, network, service, Post, NoPost, Results, Statuses,
     WorkersServe
<1>9. ASSUME NEW w \in Workers, Check(w)  PROVE TypeOK'
  BY <1>9, ReplyEffect DEF Check, Goto, network, service, Post, NoPost, Results, Statuses,
     WorkersServe
<1>10. ASSUME NEW w \in Workers, Make(w)  PROVE TypeOK'
  BY <1>10, ReplyEffect DEF Make, Goto, network, service, Post, NoPost, Results, Statuses,
     WorkersServe
<1>11. ASSUME NEW w \in Workers, Extract(w)  PROVE TypeOK'
  BY <1>11, ReplyEffect DEF Extract, Goto, network, service, Post, NoPost, Results, Statuses,
     WorkersServe
<1>12. ASSUME NEW w \in Workers, Prepare(w)  PROVE TypeOK'
  BY <1>12, ReplyEffect DEF Prepare, Goto, network, service, Post, NoPost, Results, Statuses,
     WorkersServe
<1>13. ASSUME NEW w \in Workers, Execute(w)  PROVE TypeOK'
  BY <1>13, ReplyEffect DEF Execute, Goto, network, service, Post, NoPost, Results, Statuses,
     WorkersServe
<1>14. ASSUME NEW w \in Workers, Ended(w)  PROVE TypeOK'
  BY <1>14, ReplyEffect DEF Ended, Goto, network, service, Post, NoPost, Results, Statuses,
     WorkersServe
<1>15. ASSUME NEW w \in Workers, Store(w)  PROVE TypeOK'
  <2>1. Job(w) \in Jobs /\ [status |-> ended[w], try |-> tries[Job(w)]] \in Results
    BY <1>15 DEF Store, WorkersServe, Results
  <2>2. jobs' \in [Jobs -> Results \cup {NoResult}] /\ finished' \subseteq Jobs
    BY <1>15, <2>1 DEF Store
  <2>3. QED
    BY <1>15, <2>2, ReplyEffect DEF Store, Goto, network, Post, NoPost, Statuses
<1>16. ASSUME NEW w \in Workers, Clean(w)  PROVE TypeOK'
  BY <1>16, ReplyEffect DEF Clean, Goto, network, service, Post, NoPost, Results, Statuses,
     WorkersServe
<1>17. CASE Restart
  BY <1>17 DEF Restart, network, Working
<1>18. CASE UNCHANGED vars
  BY <1>18 DEF vars
<1>19. QED
  BY <1>1, <1>2, <1>3, <1>4, <1>5, <1>6, <1>7, <1>8, <1>9, <1>10, <1>11, <1>12, <1>13, <1>14,
     <1>15, <1>16, <1>17, <1>18
     DEF Next, Call, Serve

\* Every step keeps workers to a job, and what they hold to its simulation.
LEMMA WorkersStep ==
    ASSUME TypeOK, WorkersServe, [Next]_vars
    PROVE  WorkersServe'
<1> USE ConstantsAssumption DEF TypeOK, WorkersServe, Job
<1>1. ASSUME NEW j \in Jobs, Call(j) \/ Repeat(j) \/ Expire(j) \/ OrphanEnds(j)
      PROVE  WorkersServe'
  BY <1>1 DEF Call, Submit, AskStatus, FetchResult, GiveUp, Repeat, Expire, OrphanEnds,
     network, workers, service
<1>2. ASSUME NEW w \in Workers, Receive(w)  PROVE WorkersServe'
  BY <1>2 DEF Receive, network, service, Post, NoPost
<1>3. ASSUME NEW w \in Workers, Check(w)  PROVE WorkersServe'
  BY <1>3, ReplyEffect DEF Check, Goto, network, service, Post, NoPost
<1>4. ASSUME NEW w \in Workers, Make(w)  PROVE WorkersServe'
  BY <1>4, ReplyEffect DEF Make, Goto, network, service, Post, NoPost
<1>5. ASSUME NEW w \in Workers, Extract(w)  PROVE WorkersServe'
  BY <1>5 DEF Extract, Goto, network, service, Post, NoPost
<1>6. ASSUME NEW w \in Workers, Prepare(w)  PROVE WorkersServe'
  BY <1>6 DEF Prepare, Goto, network, service, Post, NoPost
<1>7. ASSUME NEW w \in Workers, Execute(w)  PROVE WorkersServe'
  BY <1>7 DEF Execute, Goto, network, service, Post, NoPost
<1>8. ASSUME NEW w \in Workers, Ended(w)  PROVE WorkersServe'
  BY <1>8 DEF Ended, Goto, network, service, Post, NoPost
<1>9. ASSUME NEW w \in Workers, Store(w)  PROVE WorkersServe'
  BY <1>9, ReplyEffect DEF Store, Goto, network, service, Post, NoPost
<1>10. ASSUME NEW w \in Workers, Clean(w)  PROVE WorkersServe'
  BY <1>10, ReplyEffect DEF Clean, Goto, network, service, Post, NoPost
<1>11. CASE Restart
  BY <1>11 DEF Restart, network, Working, Post, NoPost
<1>12. CASE UNCHANGED vars
  BY <1>12 DEF vars
<1>13. QED
  BY <1>1, <1>2, <1>3, <1>4, <1>5, <1>6, <1>7, <1>8, <1>9, <1>10, <1>11, <1>12
     DEF Next, Serve

\* Every step keeps a directory to one user, and what its user relies on.
LEMMA DirectoryStep ==
    ASSUME TypeOK, WorkersServe, OneUser, UsedDirectories, DirectoriesRecord, [Next]_vars
    PROVE  OneUser' /\ UsedDirectories' /\ DirectoriesRecord'
<1> DEFINE Owned == OneUser /\ UsedDirectories /\ DirectoriesRecord
<1> USE ConstantsAssumption, NoResultAssumption
    DEF TypeOK, WorkersServe, OneUser, UsedDirectories, DirectoriesRecord, Inside, Job
<1>1. ASSUME NEW j \in Jobs, Call(j) \/ Repeat(j) \/ Expire(j) \/ OrphanEnds(j)
      PROVE  Owned'
  BY <1>1 DEF Call, Submit, AskStatus, FetchResult, GiveUp, Repeat, Expire, OrphanEnds,
     network, workers, service
<1>2. ASSUME NEW w \in Workers, Receive(w)  PROVE Owned'
  BY <1>2 DEF Receive, network, service, Post, NoPost, Results
<1>3. ASSUME NEW w \in Workers, Check(w)  PROVE Owned'
  BY <1>3, ReplyEffect DEF Check, Goto, network, service, Post, NoPost, Results
<1>4. ASSUME NEW w \in Workers, Make(w)  PROVE Owned'
  <2>1. CASE dirs[Job(w)] = "absent"
    <3>1. /\ dirs' = [dirs EXCEPT ![Job(w)] = "prepared"] /\ at' = [at EXCEPT ![w] = "extract"]
          /\ UNCHANGED <<serves, jobs, tries, orphans, finished, crashes>>
      BY <1>4, <2>1 DEF Make, Goto
    <3>2. /\ jobs[Job(w)] = NoResult /\ Job(w) \notin orphans \cup finished
          /\ \A v \in Workers : at[v] \in Inside => Job(v) # Job(w)
      BY <1>4, <2>1 DEF Make
    <3>3. QED
      BY <3>1, <3>2, <1>4 DEF Make
  <2>2. CASE dirs[Job(w)] # "absent"
    BY <1>4, <2>2, ReplyEffect DEF Make
  <2>3. QED
    BY <2>1, <2>2
<1>5. ASSUME NEW w \in Workers, Extract(w)  PROVE Owned'
  BY <1>5 DEF Extract, Goto, network, service, Post, NoPost, Results
<1>6. ASSUME NEW w \in Workers, Prepare(w)  PROVE Owned'
  BY <1>6 DEF Prepare, Goto, network, service, Post, NoPost, Results
<1>7. ASSUME NEW w \in Workers, Execute(w)  PROVE Owned'
  BY <1>7 DEF Execute, Goto, network, service, Post, NoPost, Results
<1>8. ASSUME NEW w \in Workers, Ended(w)  PROVE Owned'
  BY <1>8 DEF Ended, Goto, network, service, Post, NoPost, Results
<1>9. ASSUME NEW w \in Workers, Store(w)  PROVE Owned'
  BY SMTT(30), <1>9, ReplyEffect DEF Store, Goto, network, service, Post, NoPost, Results
<1>10. ASSUME NEW w \in Workers, Clean(w)  PROVE Owned'
  BY SMTT(30), <1>10, ReplyEffect DEF Clean, Goto, network, service, Post, NoPost, Results
<1>11. CASE Restart
  BY <1>11 DEF Restart, network, Working, Post, NoPost, Results
<1>12. CASE UNCHANGED vars
  BY <1>12 DEF vars
<1>13. QED
  BY <1>1, <1>2, <1>3, <1>4, <1>5, <1>6, <1>7, <1>8, <1>9, <1>10, <1>11, <1>12
     DEF Next, Serve

\* A job that has had a result is not simulated again in this step.
LEMMA TriesStep ==
    ASSUME TypeOK, WorkersServe, UsedDirectories, [Next]_vars, NEW j \in finished
    PROVE  tries'[j] = tries[j]
<1>1. CASE UNCHANGED tries
  BY <1>1
<1>2. ASSUME NEW w \in Workers, Execute(w)  PROVE tries'[j] = tries[j]
  BY <1>2 DEF Execute, UsedDirectories, Inside, TypeOK
<1>3. UNCHANGED tries \/ \E w \in Workers : Execute(w)
  BY DEF Next, Call, Serve, Submit, AskStatus, FetchResult, GiveUp, Repeat, Expire, OrphanEnds,
     Receive, Check, Make, Extract, Prepare, Ended, Store, Clean, Restart, network, service,
     vars
<1>4. QED
  BY <1>1, <1>2, <1>3

\* A call that has returned keeps what it returned, and a call returns what is remembered.
LEMMA CallStep ==
    ASSUME TypeOK, WorkersServe, UsedDirectories, DirectoriesRecord, CallsReturnTheLastRun,
           [Next]_vars
    PROVE  CallsReturnTheLastRun'
<1> USE DEF TypeOK, CallsReturnTheLastRun
<1>1. finished \subseteq finished'
  BY DEF Next, Call, Serve, Submit, AskStatus, FetchResult, GiveUp, Repeat, Expire, OrphanEnds,
     Receive, Check, Make, Extract, Prepare, Execute, Ended, Store, Clean, Restart, network,
     service, vars
<1>2. ASSUME NEW j \in Jobs, client[j] = "done", UNCHANGED got
      PROVE  j \in finished' /\ got'[j].try = tries'[j] /\ tries'[j] > 0
  BY <1>1, <1>2, TriesStep
<1>3. ASSUME NEW j \in Jobs, FetchResult(j)  PROVE CallsReturnTheLastRun'
  BY <1>3 DEF FetchResult, network, service, DirectoriesRecord
<1>4. ASSUME NEW j \in Jobs, Submit(j) \/ AskStatus(j) \/ GiveUp(j)  PROVE CallsReturnTheLastRun'
  BY <1>4 DEF Submit, AskStatus, GiveUp, network, service
<1>5. ASSUME UNCHANGED got, \A j \in Jobs : client'[j] = "done" => client[j] = "done"
      PROVE  CallsReturnTheLastRun'
  BY <1>2, <1>5
<1>6. ASSUME NEW w \in Workers, Serve(w)  PROVE CallsReturnTheLastRun'
  BY <1>5, <1>6, ReplyEffect DEF Serve, Receive, Check, Make, Extract, Prepare, Execute, Ended,
     Store, Clean, Goto
<1>7. ASSUME NEW j \in Jobs, Repeat(j) \/ Expire(j) \/ OrphanEnds(j)
      PROVE  CallsReturnTheLastRun'
  BY <1>5, <1>7 DEF Repeat, Expire, OrphanEnds
<1>8. CASE Restart \/ UNCHANGED vars
  BY <1>5, <1>8 DEF Restart, vars
<1>9. QED
  BY <1>3, <1>4, <1>6, <1>7, <1>8 DEF Next, Call

----------------------------------------------------------------------------
(* The theorems *)

\* IInv is inductive.
THEOREM Invariance == Spec => []IInv
<1>1. Init => IInv
  BY ConstantsAssumption, NoResultAssumption DEF Init, IInv, TypeOK, WorkersServe, OneUser,
     UsedDirectories, DirectoriesRecord, CallsReturnTheLastRun, Inside
<1>2. IInv /\ [Next]_vars => IInv'
  BY TypeStep, WorkersStep, DirectoryStep, CallStep DEF IInv
<1>3. QED
  BY <1>1, <1>2, PTL DEF Spec

\* The types of all variables, in every reachable state.
THEOREM Typing == Spec => []TypeOK
  BY Invariance, PTL DEF IInv

\* exists() and mkdir(exist_ok=False) give a job directory one user, over restarts too.
THEOREM OwnedDirectories == Spec => []DirectoriesAreOwned
<1>1. ASSUME IInv, NEW j \in Jobs
      PROVE  Cardinality(Working(j)) + (IF j \in orphans THEN 1 ELSE 0) <= 1
  <2>1. Working(j) = {} \/ \E w \in Workers : Working(j) = {w}
    BY <1>1 DEF IInv, OneUser, Working, Inside
  <2>2. j \in orphans => Working(j) = {}
    BY <1>1 DEF IInv, UsedDirectories, Working, Inside
  <2>3. Working(j) = {} => Cardinality(Working(j)) = 0
    BY FS_EmptySet
  <2>4. Working(j) # {} => Cardinality(Working(j)) = 1
    BY <2>1, FS_Singleton
  <2>5. QED
    BY <2>2, <2>3, <2>4
<1>2. IInv => DirectoriesAreOwned
  BY <1>1 DEF DirectoriesAreOwned, IInv, UsedDirectories, DirectoriesRecord, Working, Inside
<1>3. QED
  BY <1>2, Invariance, PTL

\* A job that has had a result is never simulated again.
THEOREM OneSimulation == Spec => NeverRunAgain
<1>1. IInv /\ [Next]_vars => [\A j \in finished : tries'[j] = tries[j]]_vars
  BY TriesStep DEF IInv
<1>2. QED
  BY <1>1, Invariance, PTL DEF Spec, NeverRunAgain

\* What a call returns is the result of the last simulation of its own job.
THEOREM OwnResults == Spec => []CallsReturnTheLastRun
  BY Invariance, PTL DEF IInv
=============================================================================
