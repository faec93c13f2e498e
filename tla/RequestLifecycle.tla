-------------------------- MODULE RequestLifecycle --------------------------
(***************************************************************************)
(* A simulation request from the prompt to the evidence bundle: the control*)
(* service (control/service.py) over the request store (control/store.py), *)
(* the hash-chained ledger (events/ledger.py), the compiler's workspace,   *)
(* the runner and the bundle writer (bundles/writer.py).                   *)
(*                                                                         *)
(* A handler is a server thread.  The body of an operation is a script: the*)
(* appends, transitions and calls still to be made, in the order of the    *)
(* code.  Each is a step; an append is two, since the ledger is read and   *)
(* verified before the row is written.  A branch of the code replaces the  *)
(* script, an exception drops it.  The client is any number of windows and *)
(* scripts that know the identifier of the request.                        *)
(***************************************************************************)
EXTENDS Naturals, Sequences, FiniteSets

CONSTANTS
    Requests,      \* request identifiers, each used at most once
    Fields,        \* questions the clarification gate may ask
    Plans,         \* specifications the model may propose that a backend supports
    Handlers,      \* server threads
    MaxRevision,   \* bound: no answer is sent at this revision
    MaxCrashes,    \* bound: crashes of the service process
    NoPlan, NoRequest

ASSUME ConstantsAssumption ==
    /\ NoPlan \notin Plans /\ NoRequest \notin Requests
    /\ MaxRevision \in Nat /\ MaxCrashes \in Nat

VARIABLES
    rows,      \* the requests table
    needs,     \* fields the prompt of a request leaves open
    known,     \* requests whose identifier a client has been told
    ledger,    \* events.jsonl of a request
    compiled,  \* what the directory compiled/ of a request holds
    ran,       \* the plans the runner was given, for each request
    bundles,   \* the bundle directory of a request's run
    req,       \* the request a handler serves
    rec,       \* its local copy of the row
    script,    \* what it has still to do
    lines,     \* rows of the ledger it has verified, in an append
    lost,      \* requests a handler left with an exception or a crash
    crashes

disk == <<rows, needs, ledger, compiled, bundles>>
local == <<req, rec, script, lines>>
vars == <<rows, needs, known, ledger, compiled, ran, bundles, req, rec, script, lines,
          lost, crashes>>

States == {"requested", "needs_clarification", "spec_drafted", "spec_validated",
           "user_confirmation_required", "compiled", "running", "validating",
           "completed", "failed"}
Kinds == {"requested", "clarification_required", "spec_drafted", "validated", "approved",
          "compiled", "started", "completed", "failed"}

\* Mutant: an answer that leaves questions open is not a transition.
LegalTransitionsNoLoop ==
    [ requested |-> {"needs_clarification", "spec_drafted", "failed"},
      needs_clarification |-> {"spec_drafted", "failed"},
      spec_drafted |-> {"needs_clarification", "spec_validated", "failed"},
      spec_validated |-> {"user_confirmation_required", "failed"},
      user_confirmation_required |-> {"compiled", "failed"},
      compiled |-> {"running", "failed"},
      running |-> {"validating", "failed"},
      validating |-> {"completed", "failed"},
      completed |-> {},
      failed |-> {} ]

LegalTransitions ==
    [ requested |-> {"needs_clarification", "spec_drafted", "failed"},
      needs_clarification |-> {"needs_clarification", "spec_drafted", "failed"},
      spec_drafted |-> {"needs_clarification", "spec_validated", "failed"},
      spec_validated |-> {"user_confirmation_required", "failed"},
      user_confirmation_required |-> {"compiled", "failed"},
      compiled |-> {"running", "failed"},
      running |-> {"validating", "failed"},
      validating |-> {"completed", "failed"},
      completed |-> {},
      failed |-> {} ]

\* A row; its data keeps the answers, the spec, the digest the user must repeat, the
\* compiled job and whether bundle_path is set.  Before create there is no row.
NoRow == [state |-> "none", revision |-> 0, answers |-> {}, spec |-> NoPlan,
          digest |-> NoPlan, job |-> NoPlan, bundle |-> FALSE]
Row == [state : States \cup {"none"}, revision : Nat, answers : SUBSET Fields,
        spec : Plans \cup {NoPlan}, digest : Plans \cup {NoPlan},
        job : Plans \cup {NoPlan}, bundle : BOOLEAN]

\* The bundle's directory: ".staging" or the final one, the ledger copied into it, and
\* whether everything is there.
NoBundle == [place |-> "none", events |-> <<>>, whole |-> FALSE]

\* Steps of a script.
Log(kind) == [do |-> "log", what |-> kind]
Move(state, data) == [do |-> "move", what |-> state, data |-> data]
Do(call) == [do |-> call]
Propose(attempt) == [do |-> "propose", what |-> attempt]

Idle(h) == req[h] = NoRequest
At(h, step) == script[h] # <<>> /\ Head(script[h]).do = step

\* The rest of the script, or another one; after the last step the request is
\* answered and the client learns its identifier.
Continue(h, todo) ==
    IF todo = <<>>
      THEN /\ req' = [req EXCEPT ![h] = NoRequest]
           /\ rec' = [rec EXCEPT ![h] = NoRow]
           /\ script' = [script EXCEPT ![h] = <<>>]
           /\ known' = known \cup {req[h]}
      ELSE /\ script' = [script EXCEPT ![h] = todo]
           /\ UNCHANGED <<req, rec, known>>

Begin(h, q, row, todo) ==
    /\ req' = [req EXCEPT ![h] = q]
    /\ rec' = [rec EXCEPT ![h] = row]
    /\ script' = [script EXCEPT ![h] = todo]
    /\ UNCHANGED lines

----------------------------------------------------------------------------
(* The operations *)

\* submit: the row, then the questions of the gate or a proposal of the model.
Submit(h, q) ==
    /\ Idle(h) /\ rows[q].state = "none"
    /\ \E open \in SUBSET Fields :
        LET row == [NoRow EXCEPT !.state = "requested"] IN
        /\ needs' = [needs EXCEPT ![q] = open]
        /\ rows' = [rows EXCEPT ![q] = row]
        /\ Begin(h, q, row,
             IF open # {}
               THEN << Log("requested"), Move("needs_clarification", <<>>),
                       Log("clarification_required") >>
               ELSE << Log("requested"), Move("spec_drafted", <<>>), Propose(1) >>)
    /\ UNCHANGED <<known, ledger, compiled, ran, bundles, lost, crashes>>

\* required_questions: what the prompt leaves open and no answer settles.
Questions(q, answers) == needs[q] \ answers

\* answer: keep the answers; ask again while the gate has questions.  Every other
\* operation that finds the row in a wrong state answers without a step.
Answer(h, q, answers) ==
    LET row == rows[q]
        kept == [answers |-> row.answers \cup answers]
    IN  /\ Idle(h) /\ q \in known
        /\ row.state = "needs_clarification" /\ row.revision < MaxRevision
        /\ Begin(h, q, row,
             IF Questions(q, kept.answers) # {}
               THEN << Move("needs_clarification", kept) >>
               ELSE << Move("spec_drafted", kept), Propose(1) >>)
        /\ UNCHANGED <<disk, known, ran, lost, crashes>>

\* approve: only the digest of the plan the user was shown is accepted.
Approve(h, q, digest) ==
    /\ Idle(h) /\ q \in known
    /\ rows[q].digest # NoPlan /\ digest = rows[q].digest
    /\ rows[q].state = "user_confirmation_required"
    /\ Begin(h, q, rows[q], << Do("compile"), Log("approved"), Log("compiled"),
                               Move("compiled", [job |-> rows[q].spec]) >>)
    /\ UNCHANGED <<disk, known, ran, lost, crashes>>

\* execute: the winner of the transition to running calls the runner.
Execute(h, q) ==
    /\ Idle(h) /\ q \in known /\ rows[q].state = "compiled"
    /\ Begin(h, q, rows[q], << Move("running", <<>>), Log("started"), Do("run") >>)
    /\ UNCHANGED <<disk, known, ran, lost, crashes>>

----------------------------------------------------------------------------
(* The store and the ledger *)

\* Mutant: an exception is answered, and the operation goes on.
RaiseOn(h) ==
    /\ req' = [req EXCEPT ![h] = NoRequest]
    /\ rec' = [rec EXCEPT ![h] = NoRow]
    /\ script' = [script EXCEPT ![h] = Tail(@)]
    /\ lines' = [lines EXCEPT ![h] = 0]
    /\ UNCHANGED <<known, ran, lost, crashes>>

\* An exception ends the request with an error.
Raise(h) ==
    /\ lost' = lost \cup {req[h]}
    /\ req' = [req EXCEPT ![h] = NoRequest]
    /\ rec' = [rec EXCEPT ![h] = NoRow]
    /\ script' = [script EXCEPT ![h] = <<>>]
    /\ lines' = [lines EXCEPT ![h] = 0]
    /\ UNCHANGED <<known, ran, crashes>>

\* The row with the data of a transition in the place of what it held.
Merge(row, data) == [f \in DOMAIN row |-> IF f \in DOMAIN data THEN data[f] ELSE row[f]]

\* Mutant: the state is checked, the revision is not.
TransitionStale(h) ==
    LET q == req[h]
        step == Head(script[h])
        new == Merge([rec[h] EXCEPT !.state = step.what,
                                    !.revision = rows[q].revision + 1], step.data)
    IN  /\ At(h, "move")
        /\ IF step.what \in LegalTransitions[rows[q].state]
             THEN /\ rows' = [rows EXCEPT ![q] = new]
                  /\ rec' = [rec EXCEPT ![h] = IF Tail(script[h]) = <<>> THEN NoRow ELSE new]
                  /\ script' = [script EXCEPT ![h] = Tail(@)]
                  /\ req' = [req EXCEPT ![h] = IF Tail(script[h]) = <<>> THEN NoRequest ELSE @]
                  /\ UNCHANGED <<known, lines, lost, ran, crashes>>
             ELSE Raise(h) /\ UNCHANGED rows
        /\ UNCHANGED <<needs, ledger, compiled, bundles>>

\* Mutant: the row is updated whatever it has become.
TransitionUnchecked(h) ==
    LET q == req[h]
        step == Head(script[h])
        new == Merge([rows[q] EXCEPT !.state = step.what, !.revision = @ + 1], step.data)
    IN  /\ At(h, "move")
        /\ rows' = [rows EXCEPT ![q] = new]
        /\ rec' = [rec EXCEPT ![h] = IF Tail(script[h]) = <<>> THEN NoRow ELSE new]
        /\ script' = [script EXCEPT ![h] = Tail(@)]
        /\ req' = [req EXCEPT ![h] = IF Tail(script[h]) = <<>> THEN NoRequest ELSE @]
        /\ UNCHANGED <<needs, known, ledger, compiled, bundles, lines, lost, ran, crashes>>

\* transition: one transaction.  It wants the revision the caller has read, and a legal
\* target; the data is merged.  execute turns a lost race into an answer.  The row is read
\* again after the commit: while a script goes on nobody else may move it.
Transition(h) ==
    LET q == req[h]
        step == Head(script[h])
        fresh == rows[q].revision = rec[h].revision
        rest == Tail(script[h])
        new == Merge([rows[q] EXCEPT !.state = step.what, !.revision = @ + 1], step.data)
    IN  /\ At(h, "move")
        /\ CASE fresh /\ step.what \in LegalTransitions[rows[q].state] ->
                  /\ rows' = [rows EXCEPT ![q] = new]
                  /\ rec' = [rec EXCEPT ![h] = IF rest = <<>> THEN NoRow ELSE new]
                  /\ script' = [script EXCEPT ![h] = rest]
                  /\ req' = [req EXCEPT ![h] = IF rest = <<>> THEN NoRequest ELSE @]
                  /\ known' = IF rest = <<>> THEN known \cup {q} ELSE known
                  /\ UNCHANGED <<lines, lost, ran, crashes>>
             [] ~fresh /\ step.what = "running" ->
                  Continue(h, <<>>) /\ UNCHANGED <<rows, lines, lost, ran, crashes>>
             [] OTHER -> Raise(h) /\ UNCHANGED rows
        /\ UNCHANGED <<needs, ledger, compiled, bundles>>

\* verify: the rows are numbered without a gap.  A row's previous_hash was computed
\* from the same reading as its number, so that without tampering both fail together.
Verifies(log) == \A i \in 1..Len(log) : log[i].sequence = i /\ log[i].kind # "torn"

\* append, first half: the ledger is verified.
LogRead(h) ==
    /\ At(h, "log") /\ lines[h] = 0
    /\ IF Verifies(ledger[req[h]])
         THEN /\ lines' = [lines EXCEPT ![h] = Len(ledger[req[h]]) + 1]
              /\ UNCHANGED <<known, ran, req, rec, script, lost, crashes>>
         ELSE Raise(h)
    /\ UNCHANGED disk

\* append, second half: the row is written and synced.
LogWrite(h) ==
    /\ At(h, "log") /\ lines[h] > 0
    /\ ledger' = [ledger EXCEPT ![req[h]] = Append(@,
          [kind |-> Head(script[h]).what, sequence |-> lines[h], plan |-> rec[h].spec])]
    /\ lines' = [lines EXCEPT ![h] = 0]
    /\ Continue(h, Tail(script[h]))
    /\ UNCHANGED <<rows, needs, compiled, ran, bundles, lost, crashes>>

----------------------------------------------------------------------------
(* The model, the compiler, the runner and the bundle *)

\* _apply_proposal, for the answers of the model: a refusal or a specification that does
\* not validate or is not supported; questions; a supported specification.
Outcomes ==
    { << Move("failed", <<>>), Log("failed") >>, << Move("needs_clarification", <<>>) >> }
    \cup { << Move("spec_validated", [spec |-> p]), Log("spec_drafted"), Log("validated"),
              Move("user_confirmation_required", [digest |-> p]) >> : p \in Plans }

\* The gateway asks the model once more when the first reply does not parse.
AskModel(h) ==
    /\ At(h, "propose")
    /\ \/ \E todo \in Outcomes : Continue(h, todo)
       \/ Head(script[h]).what = 1 /\ Continue(h, << Propose(2) >>)
    /\ UNCHANGED <<disk, lines, lost, ran, crashes>>

\* Mutant: the compiler writes into a directory that is there.
CompileOver(h) ==
    /\ At(h, "compile")
    /\ compiled' = [compiled EXCEPT ![req[h]] = rec[h].spec]
    /\ Continue(h, Tail(script[h]))
    /\ UNCHANGED <<rows, needs, ledger, ran, bundles, lines, lost, crashes>>

\* compile: the directory must be new; an error after mkdir leaves it behind.
Compile(h) ==
    /\ At(h, "compile")
    /\ \/ /\ compiled[req[h]] = NoPlan
          /\ compiled' = [compiled EXCEPT ![req[h]] = rec[h].spec]
          /\ \/ Continue(h, Tail(script[h])) /\ UNCHANGED <<ran, lines, lost, crashes>>
             \/ Raise(h)
       \/ compiled[req[h]] # NoPlan /\ Raise(h) /\ UNCHANGED compiled
    /\ UNCHANGED <<rows, needs, ledger, bundles>>

Unrun == << Log("failed"), Move("failed", <<>>) >>

Finish(verdict) ==
    << Move("validating", <<>>), Log(verdict), Do("stage"), Do("collect"), Do("publish"),
       Move(verdict, [bundle |-> TRUE]) >>

\* Mutant: a failure of the transport is answered but not recorded in the row.
RunForgets(h) ==
    /\ At(h, "run")
    /\ ran' = [ran EXCEPT ![req[h]] = Append(@, compiled[req[h]])]
    /\ \/ Continue(h, << Log("failed") >>)
       \/ \E verdict \in {"completed", "failed"} : Continue(h, Finish(verdict))
    /\ UNCHANGED <<disk, lines, lost, crashes>>

\* The runner is not configured or the transport fails, with an exception execute expects;
\* or there is a native result, which is normalized, validated and bundled.
Run(h) ==
    /\ At(h, "run")
    /\ ran' = [ran EXCEPT ![req[h]] = Append(@, compiled[req[h]])]
    /\ \/ Continue(h, Unrun)
       \/ \E verdict \in {"completed", "failed"} : Continue(h, Finish(verdict))
    /\ UNCHANGED <<disk, lines, lost, crashes>>

\* Mutant: the bundle is assembled where it is read.
StageInPlace(h) ==
    /\ At(h, "stage")
    /\ bundles' = [bundles EXCEPT ![req[h]].place = "final"]
    /\ Continue(h, Tail(script[h]))
    /\ UNCHANGED <<rows, needs, ledger, compiled, ran, lines, lost, crashes>>

\* BundleWriter.write: neither directory may exist.
Stage(h) ==
    /\ At(h, "stage")
    /\ IF bundles[req[h]].place = "none"
         THEN /\ bundles' = [bundles EXCEPT ![req[h]].place = "staging"]
              /\ Continue(h, Tail(script[h]))
              /\ UNCHANGED <<ran, lines, lost, crashes>>
         ELSE Raise(h) /\ UNCHANGED bundles
    /\ UNCHANGED <<rows, needs, ledger, compiled>>

Collect(h) ==
    /\ At(h, "collect")
    /\ bundles' = [bundles EXCEPT ![req[h]].events = ledger[req[h]], ![req[h]].whole = TRUE]
    /\ Continue(h, Tail(script[h]))
    /\ UNCHANGED <<rows, needs, ledger, compiled, ran, lines, lost, crashes>>

Publish(h) ==
    /\ At(h, "publish")
    /\ bundles' = [bundles EXCEPT ![req[h]].place = "final"]
    /\ Continue(h, Tail(script[h]))
    /\ UNCHANGED <<rows, needs, ledger, compiled, ran, lines, lost, crashes>>

----------------------------------------------------------------------------
(* Faults *)

\* Half a row reaches the disk when the process dies or the disk is full.
Tear(h) ==
    \/ UNCHANGED ledger
    \/ /\ lines[h] > 0
       /\ ledger' = [ledger EXCEPT ![req[h]] =
             Append(@, [kind |-> "torn", sequence |-> lines[h], plan |-> NoPlan])]

\* Any call may raise: the model, the disk, a locked database, the transport with an
\* error that execute does not expect (those of httpx are no OSError).
Break(h) ==
    /\ ~Idle(h)
    /\ Raise(h) /\ Tear(h)
    /\ UNCHANGED <<rows, needs, compiled, bundles>>

\* The process dies and is started again: rows and files stay, handlers are gone.
Crash ==
    /\ crashes < MaxCrashes
    /\ crashes' = crashes + 1
    /\ lost' = lost \cup ({req[h] : h \in Handlers} \ {NoRequest})
    /\ req' = [h \in Handlers |-> NoRequest]
    /\ rec' = [h \in Handlers |-> NoRow]
    /\ script' = [h \in Handlers |-> <<>>]
    /\ lines' = [h \in Handlers |-> 0]
    /\ UNCHANGED ledger \/ \E h \in Handlers : Tear(h)
    /\ UNCHANGED <<rows, needs, known, compiled, ran, bundles>>

----------------------------------------------------------------------------

Init ==
    /\ rows = [q \in Requests |-> NoRow]
    /\ needs = [q \in Requests |-> {}]
    /\ known = {}
    /\ ledger = [q \in Requests |-> <<>>]
    /\ compiled = [q \in Requests |-> NoPlan]
    /\ ran = [q \in Requests |-> <<>>]
    /\ bundles = [q \in Requests |-> NoBundle]
    /\ req = [h \in Handlers |-> NoRequest]
    /\ rec = [h \in Handlers |-> NoRow]
    /\ script = [h \in Handlers |-> <<>>]
    /\ lines = [h \in Handlers |-> 0]
    /\ lost = {} /\ crashes = 0

Serve(h) ==
    \/ Transition(h) \/ LogRead(h) \/ LogWrite(h) \/ AskModel(h)
    \/ Compile(h) \/ Run(h) \/ Stage(h) \/ Collect(h) \/ Publish(h)

Call(h) ==
    \E q \in Requests :
        \/ Submit(h, q) \/ Execute(h, q)
        \/ \E answers \in SUBSET Fields : Answer(h, q, answers)
        \/ \E digest \in Plans : Approve(h, q, digest)

Next == (\E h \in Handlers : Call(h) \/ Serve(h) \/ Break(h)) \/ Crash

Spec == Init /\ [][Next]_vars

\* Server threads are scheduled; the model, the simulator and the disk answer.
Fairness == \A h \in Handlers : WF_vars(Serve(h))

FairSpec == Spec /\ Fairness

----------------------------------------------------------------------------
(* Properties *)

\* Every variable keeps its type.
TypeOK ==
    /\ rows \in [Requests -> Row]
    /\ needs \in [Requests -> SUBSET Fields]
    /\ known \subseteq Requests /\ lost \subseteq Requests
    /\ \A q \in Requests : \A i \in 1..Len(ledger[q]) :
          /\ ledger[q][i].kind \in Kinds \cup {"torn"}
          /\ ledger[q][i].plan \in Plans \cup {NoPlan}
    /\ compiled \in [Requests -> Plans \cup {NoPlan}]
    /\ \A q \in Requests : bundles[q].place \in {"none", "staging", "final"}
    /\ req \in [Handlers -> Requests \cup {NoRequest}]
    /\ rec \in [Handlers -> Row]
    /\ lines \in [Handlers -> Nat]
    /\ \A h \in Handlers : Idle(h) <=> script[h] = <<>>
    /\ crashes \in 0..MaxCrashes

\* The service never asks for a transition the store's table forbids: whoever
\* else works on a request, a handler whose copy of the row is current asks for a legal
\* one, and IllegalTransitionError is not raised.
NoIllegalTransition ==
    \A h \in Handlers :
        At(h, "move") /\ rows[req[h]].revision = rec[h].revision
            => Head(script[h]).what \in LegalTransitions[rows[req[h]].state]

\* No two handlers append to one ledger at a time, although append takes no lock: only a
\* torn row makes verify fail.
LedgerIsChained ==
    \A q \in Requests : \A i \in 1..Len(ledger[q]) : ledger[q][i].sequence = i

\* What runs is what the user approved, and it runs at most once: the runner is
\* called for a request at most once, whatever is sent twice, raced or crashed, with the
\* plan whose approval is the only one in the ledger.
Approvals(q) == {i \in 1..Len(ledger[q]) : ledger[q][i].kind = "approved"}
RunsWhatWasApproved ==
    \A q \in Requests :
        ran[q] # <<>> =>
            /\ Len(ran[q]) = 1
            /\ Cardinality(Approvals(q)) = 1
            /\ \A i \in Approvals(q) :
                  ledger[q][i].plan = ran[q][1] /\ rows[q].digest = ran[q][1]

\* A bundle at its place is whole and final: it holds the ledger to the last row, and
\* a row that names a bundle agrees with the verdict in that ledger.
EvidenceIsWhole ==
    \A q \in Requests :
        LET b == bundles[q] IN
        /\ rows[q].state = "completed" => rows[q].bundle
        /\ rows[q].bundle => b.place = "final"
        /\ b.place = "final" => b.whole /\ b.events = ledger[q]
        /\ rows[q].bundle => b.events[Len(b.events)].kind = rows[q].state

\* An answer that was taken is never lost, whatever answers race with it.
AnswersAreKept == [][\A q \in Requests : rows[q].answers \subseteq rows'[q].answers]_vars

\* A run that begins comes to an end in the row: completed or failed, unless an
\* error that execute does not expect or a crash leaves it.
RunsAreSettled ==
    \A q \in Requests :
        rows[q].state \in {"running", "validating"}
            ~> rows[q].state \in {"completed", "failed"} \/ q \in lost
=============================================================================
