----------------------------- MODULE RemoteJobs -----------------------------
(***************************************************************************)
(* A job of the licensed simulator: the client (runners/remote.py), the    *)
(* network, the runner service (sentaurus_runner/app.py) and its executor. *)
(*                                                                         *)
(* The client submits a signed job, asks for its status and fetches the    *)
(* result, and gives up on a call that is not answered in time; what it has*)
(* asked for goes on.  The network may repeat and delay a submission.  A   *)
(* worker is a thread of the service that serves one submission; between   *)
(* two of its steps any other may move.  The service may die and be started*)
(* again: it forgets its jobs, their directories and a simulator that is   *)
(* running survive.                                                        *)
(***************************************************************************)
EXTENDS Naturals, FiniteSets

CONSTANTS
    Jobs,        \* job identifiers: each is made for one call of the client
    Workers,     \* threads of the service
    MaxCopies,   \* bound: repetitions of submissions by the network
    MaxCrashes,  \* bound: restarts of the service
    NoJob, NoResult

ASSUME ConstantsAssumption ==
    /\ MaxCopies \in Nat /\ MaxCrashes \in Nat
    /\ NoJob \notin Jobs

VARIABLES
    client,   \* what the client's call for a job is doing
    got,      \* the result the call returned
    posts,    \* submissions in the network: of the call ("own") or repeated ("copy")
    expired,  \* jobs whose submission is past expires_at
    copies,   \* submissions repeated so far
    at,       \* where each worker is
    serves,   \* the submission it serves
    ended,    \* the status its simulator ended with
    jobs,     \* the results the service remembers
    dirs,     \* the job directory: absent, prepared, or holding the files of a run
    tries,    \* simulators started for a job
    orphans,  \* jobs whose simulator outlived the service
    finished, \* jobs that have had a result, before or after a restart
    crashes

network == <<posts, expired, copies>>
workers == <<at, serves, ended>>
service == <<jobs, dirs, tries, orphans, finished>>
vars == <<client, got, posts, expired, copies, at, serves, ended, jobs, dirs, tries,
          orphans, finished, crashes>>

Statuses == {"completed", "execution_failed", "timed_out"}
Results == [status : Statuses, try : Nat]
ASSUME NoResultAssumption == NoResult \notin Results
Post == [job : Jobs, from : {"own", "copy"}]
NoPost == [job |-> NoJob, from |-> "copy"]

Job(w) == serves[w].job
Working(j) == {w \in Workers : Job(w) = j /\ at[w] \in {"extract", "prepare", "run", "wait", "store", "clean"}}

----------------------------------------------------------------------------
(* The client and the network *)

\* submit: sign a fresh job identifier and post the job.
Submit(j) ==
    /\ client[j] = "idle"
    /\ client' = [client EXCEPT ![j] = "posted"]
    /\ posts' = posts \cup {[job |-> j, from |-> "own"]}
    /\ UNCHANGED <<got, expired, copies, workers, service, crashes>>

\* status: a job the service does not know is an error.
AskStatus(j) ==
    /\ client[j] = "accepted"
    /\ client' = [client EXCEPT ![j] = IF jobs[j] = NoResult THEN "failed" ELSE "asked"]
    /\ UNCHANGED <<got, network, workers, service, crashes>>

\* result: the files of the job are checked against their digests and written.
FetchResult(j) ==
    /\ client[j] = "asked"
    /\ \/ /\ jobs[j] # NoResult /\ dirs[j] = "run"
          /\ client' = [client EXCEPT ![j] = "done"]
          /\ got' = [got EXCEPT ![j] = jobs[j]]
       \/ /\ client' = [client EXCEPT ![j] = "failed"]
          /\ UNCHANGED got
    /\ UNCHANGED <<network, workers, service, crashes>>

\* The call times out, or its connection breaks.
GiveUp(j) ==
    /\ client[j] \in {"posted", "accepted", "asked"}
    /\ client' = [client EXCEPT ![j] = "failed"]
    /\ UNCHANGED <<got, network, workers, service, crashes>>

\* The submission reaches the service twice.
Repeat(j) ==
    /\ copies < MaxCopies /\ client[j] # "idle"
    /\ copies' = copies + 1
    /\ posts' = posts \cup {[job |-> j, from |-> "copy"]}
    /\ UNCHANGED <<client, got, expired, workers, service, crashes>>

Expire(j) ==
    /\ client[j] # "idle" /\ j \notin expired
    /\ expired' = expired \cup {j}
    /\ UNCHANGED <<client, got, posts, copies, workers, service, crashes>>

----------------------------------------------------------------------------
(* The service *)

\* The reply reaches the call that posted the job, if it still waits for it.
Reply(w, answer) ==
    /\ at' = [at EXCEPT ![w] = "idle"]
    /\ serves' = [serves EXCEPT ![w] = NoPost]
    /\ ended' = [ended EXCEPT ![w] = "none"]
    /\ client' = [j \in Jobs |->
          IF serves[w] = [job |-> j, from |-> "own"] /\ client[j] = "posted"
            THEN answer ELSE client[j]]
    /\ UNCHANGED <<got, network, crashes>>

Goto(w, step) ==
    /\ at' = [at EXCEPT ![w] = step]
    /\ UNCHANGED <<client, got, network, serves, crashes>>

\* A worker takes a submission from the network.
Receive(w) ==
    /\ at[w] = "idle"
    /\ \E p \in posts :
        /\ posts' = posts \ {p}
        /\ serves' = [serves EXCEPT ![w] = p]
    /\ at' = [at EXCEPT ![w] = "check"]
    /\ UNCHANGED <<client, got, expired, copies, ended, service, crashes>>

\* Validity, signature, version and digest; then whether the job is remembered.
Check(w) ==
    /\ at[w] = "check"
    /\ IF Job(w) \in expired \/ jobs[Job(w)] # NoResult
         THEN Reply(w, "failed")
         ELSE Goto(w, "make") /\ UNCHANGED ended
    /\ UNCHANGED service

\* Mutant: the directory of a job may be there already.
MakeAnyway(w) ==
    /\ at[w] = "make"
    /\ dirs' = [dirs EXCEPT ![Job(w)] = "prepared"]
    /\ Goto(w, "extract")
    /\ UNCHANGED <<ended, jobs, tries, orphans, finished>>

\* The directory must not exist, neither for exists() nor for mkdir.
Make(w) ==
    /\ at[w] = "make"
    /\ IF dirs[Job(w)] = "absent"
         THEN /\ dirs' = [dirs EXCEPT ![Job(w)] = "prepared"]
              /\ Goto(w, "extract")
              /\ UNCHANGED ended
         ELSE Reply(w, "failed") /\ UNCHANGED dirs
    /\ UNCHANGED <<jobs, tries, orphans, finished>>

\* _safe_extract: a member that is not a small plain file inside the directory refuses
\* the job, and those before it are there already.
Extract(w) ==
    /\ at[w] = "extract"
    /\ Goto(w, "prepare") \/ Goto(w, "clean")
    /\ UNCHANGED <<ended, service>>

\* Manifest, command file, input digests and allowlist: any may refuse the job.
Prepare(w) ==
    /\ at[w] = "prepare"
    /\ Goto(w, "run") \/ Goto(w, "clean")
    /\ UNCHANGED <<ended, service>>

\* execute: the simulator starts in the directory, or cannot be started.
Execute(w) ==
    /\ at[w] = "run"
    /\ \/ tries' = [tries EXCEPT ![Job(w)] = @ + 1] /\ Goto(w, "wait")
       \/ Goto(w, "clean") /\ UNCHANGED tries
    /\ UNCHANGED <<ended, jobs, dirs, orphans, finished>>

\* Mutant: a status the table of job states does not know.
EndedMalformed(w) ==
    /\ at[w] = "wait"
    /\ dirs' = [dirs EXCEPT ![Job(w)] = "run"]
    /\ \E status \in Statuses \cup {"malformed_result"} :
          ended' = [ended EXCEPT ![w] = status]
    /\ Goto(w, "store")
    /\ UNCHANGED <<jobs, tries, orphans, finished>>

\* It ends, or is killed with its process group at the time limit.
Ended(w) ==
    /\ at[w] = "wait"
    /\ dirs' = [dirs EXCEPT ![Job(w)] = "run"]
    /\ \E status \in Statuses : ended' = [ended EXCEPT ![w] = status]
    /\ Goto(w, "store")
    /\ UNCHANGED <<jobs, tries, orphans, finished>>

\* A directory with other files than the allowed ones is refused.
Store(w) ==
    /\ at[w] = "store"
    /\ \/ /\ jobs' = [jobs EXCEPT ![Job(w)] = [status |-> ended[w], try |-> tries[Job(w)]]]
          /\ finished' = finished \cup {Job(w)}
          /\ Reply(w, "accepted")
       \/ /\ Goto(w, "clean")
          /\ UNCHANGED <<ended, jobs, finished>>
    /\ UNCHANGED <<dirs, tries, orphans>>

\* Mutant: a refused job leaves its directory.
CleanNot(w) ==
    /\ at[w] = "clean"
    /\ Reply(w, "failed")
    /\ UNCHANGED service

\* The exception handler removes the directory of a job without a result.
Clean(w) ==
    /\ at[w] = "clean"
    /\ dirs' = [dirs EXCEPT ![Job(w)] = IF jobs[Job(w)] = NoResult THEN "absent" ELSE @]
    /\ Reply(w, "failed")
    /\ UNCHANGED <<jobs, tries, orphans, finished>>

\* Mutant: the job root is emptied when the service starts.
RestartSweeps ==
    /\ crashes < MaxCrashes
    /\ crashes' = crashes + 1
    /\ dirs' = [j \in Jobs |-> "absent"]
    /\ jobs' = [j \in Jobs |-> NoResult]
    /\ at' = [w \in Workers |-> "idle"]
    /\ serves' = [w \in Workers |-> NoPost]
    /\ ended' = [w \in Workers |-> "none"]
    /\ UNCHANGED <<client, got, network, tries, orphans, finished>>

\* The service dies and starts again; simulators have a session of their own and go on.
Restart ==
    /\ crashes < MaxCrashes
    /\ crashes' = crashes + 1
    /\ orphans' = orphans \cup {j \in Jobs : \E w \in Working(j) : at[w] = "wait"}
    /\ jobs' = [j \in Jobs |-> NoResult]
    /\ at' = [w \in Workers |-> "idle"]
    /\ serves' = [w \in Workers |-> NoPost]
    /\ ended' = [w \in Workers |-> "none"]
    /\ UNCHANGED <<client, got, network, dirs, tries, finished>>

OrphanEnds(j) ==
    /\ j \in orphans
    /\ orphans' = orphans \ {j}
    /\ dirs' = [dirs EXCEPT ![j] = "run"]
    /\ UNCHANGED <<client, got, network, workers, jobs, tries, finished, crashes>>

----------------------------------------------------------------------------

Init ==
    /\ client = [j \in Jobs |-> "idle"]
    /\ got = [j \in Jobs |-> NoResult]
    /\ posts = {} /\ expired = {} /\ copies = 0
    /\ at = [w \in Workers |-> "idle"]
    /\ serves = [w \in Workers |-> NoPost]
    /\ ended = [w \in Workers |-> "none"]
    /\ jobs = [j \in Jobs |-> NoResult]
    /\ dirs = [j \in Jobs |-> "absent"]
    /\ tries = [j \in Jobs |-> 0]
    /\ orphans = {} /\ finished = {}
    /\ crashes = 0

Call(j) == Submit(j) \/ AskStatus(j) \/ FetchResult(j) \/ GiveUp(j)

Serve(w) ==
    \/ Receive(w) \/ Check(w) \/ Make(w) \/ Extract(w) \/ Prepare(w) \/ Execute(w) \/ Ended(w)
    \/ Store(w) \/ Clean(w)

Next ==
    \/ \E j \in Jobs : Call(j) \/ Repeat(j) \/ Expire(j) \/ OrphanEnds(j)
    \/ \E w \in Workers : Serve(w)
    \/ Restart

Spec == Init /\ [][Next]_vars

----------------------------------------------------------------------------
(* Properties *)

\* Every variable keeps its type.
TypeOK ==
    /\ client \in [Jobs -> {"idle", "posted", "accepted", "asked", "done", "failed"}]
    /\ got \in [Jobs -> Results \cup {NoResult}]
    /\ posts \subseteq Post /\ expired \subseteq Jobs /\ copies \in 0..MaxCopies
    /\ at \in [Workers -> {"idle", "check", "make", "extract", "prepare", "run", "wait",
                        "store", "clean"}]
    /\ serves \in [Workers -> Post \cup {NoPost}]
    /\ ended \in [Workers -> Statuses \cup {"none"}]
    /\ jobs \in [Jobs -> Results \cup {NoResult}]
    /\ dirs \in [Jobs -> {"absent", "prepared", "run"}]
    /\ tries \in [Jobs -> Nat]
    /\ orphans \subseteq Jobs /\ finished \subseteq Jobs
    /\ crashes \in 0..MaxCrashes

\* A job directory has one user at a time: a single worker or a simulator left over by
\* the dead service works in it, it is there while it is used, and outside a use it
\* holds a result unless the service has died, so that a refused job may be sent again.
DirectoriesAreOwned ==
    \A j \in Jobs :
        /\ Cardinality(Working(j)) + (IF j \in orphans THEN 1 ELSE 0) <= 1
        /\ Working(j) # {} \/ j \in orphans => dirs[j] # "absent"
        /\ jobs[j] # NoResult => dirs[j] = "run"
        /\ dirs[j] # "absent" => Working(j) # {} \/ jobs[j] # NoResult \/ crashes > 0

\* A job that has had a result is never simulated again, however often it is sent and
\* whether the service was restarted in between.
NeverRunAgain == [][\A j \in finished : tries'[j] = tries[j]]_vars

\* A call that returns a result returns the one of the last simulation of its job.
CallsReturnTheLastRun ==
    \A j \in Jobs :
        client[j] = "done" => j \in finished /\ got[j].try = tries[j] /\ tries[j] > 0
=============================================================================
