---------------------- MODULE RequestLifecycleProofs ----------------------
(***************************************************************************)
(* Proofs about RequestLifecycle, for any requests, questions, plans,      *)
(* server threads and crashes: what runs is what was approved, once, the   *)
(* ledger is a chain, and a published bundle is whole.                     *)
(***************************************************************************)
EXTENDS RequestLifecycle, FiniteSetTheorems, TLAPS

----------------------------------------------------------------------------
(* The inductive invariant *)

Event == [kind : Kinds \cup {"torn"}, sequence : Nat, plan : Plans \cup {NoPlan}]
Bundle == [place : {"none", "staging", "final"}, events : Seq(Event), whole : BOOLEAN]

\* Every variable keeps its type; an idle handler has nothing to do.
Types ==
    /\ rows \in [Requests -> Row] /\ rec \in [Handlers -> Row]
    /\ needs \in [Requests -> SUBSET Fields]
    /\ known \subseteq Requests /\ lost \subseteq Requests
    /\ ledger \in [Requests -> Seq(Event)]
    /\ compiled \in [Requests -> Plans \cup {NoPlan}]
    /\ ran \in [Requests -> Seq(Plans \cup {NoPlan})]
    /\ bundles \in [Requests -> Bundle]
    /\ req \in [Handlers -> Requests \cup {NoRequest}]
    /\ script = [h \in Handlers |-> script[h]]
    /\ lines \in [Handlers -> Nat] /\ crashes \in 0 .. MaxCrashes
    /\ \A h \in Handlers : Idle(h) <=> script[h] = <<>>

\* What the last row of a ledger says, and that the bundle has not been begun.
LastIs(q, kind) == ledger[q] # <<>> /\ ledger[q][Len(ledger[q])].kind = kind
Unbundled(q) == bundles[q].place = "none"

\* A handler that owns request q: where its script is, and what is then true of q.
\* A request that is being submitted has an identifier no client knows.
Submitting(q, todo) ==
    /\ rows[q].state = "requested" /\ q \notin known
    /\ todo \in { << Log("requested"), Move("needs_clarification", <<>>),
                     Log("clarification_required") >>,
                  << Move("needs_clarification", <<>>), Log("clarification_required") >>,
                  << Log("requested"), Move("spec_drafted", <<>>), Propose(1) >>,
                  << Move("spec_drafted", <<>>), Propose(1) >> }

Asking(q, todo) ==
    /\ rows[q].state = "needs_clarification" /\ q \notin known
    /\ todo = << Log("clarification_required") >>

Proposing(q, todo) ==
    /\ rows[q].state = "spec_drafted"
    /\ todo \in { << Propose(1) >>, << Propose(2) >> } \cup Outcomes

Refusing(q, todo) ==
    /\ rows[q].state = "failed" /\ Unbundled(q)
    /\ todo = << Log("failed") >>

Drafting(q, todo) ==
    /\ rows[q].state = "spec_validated"
    /\ LET shown == Move("user_confirmation_required", [digest |-> rows[q].spec]) IN
       todo \in { << Log("spec_drafted"), Log("validated"), shown >>,
                  << Log("validated"), shown >>, << shown >> }

\* The ledger has one approval, of the plan of the row.
ApprovedOnce(q) == \E i \in 1 .. Len(ledger[q]) :
    Approvals(q) = {i} /\ ledger[q][i].plan = rows[q].spec

Approving(q, todo) ==
    /\ rows[q].state = "user_confirmation_required" /\ compiled[q] # NoPlan
    /\ LET done == Move("compiled", [job |-> rows[q].spec]) IN
       \/ Approvals(q) = {} /\ todo = << Log("approved"), Log("compiled"), done >>
       \/ ApprovedOnce(q) /\ todo \in { << Log("compiled"), done >>, << done >> }

Running(q, todo) ==
    /\ rows[q].state = "running"
    /\ \/ /\ ran[q] = <<>>
          /\ todo \in { << Log("started"), Do("run") >>, << Do("run") >> }
       \/ todo \in { Unrun, << Move("failed", <<>>) >> }
       \/ \E verdict \in {"completed", "failed"} : todo = Finish(verdict)

Bundling(q, todo) ==
    /\ rows[q].state = "validating"
    /\ \E verdict \in {"completed", "failed"} :
       LET last == Move(verdict, [bundle |-> TRUE]) IN
       \/ /\ Unbundled(q)
          /\ todo = << Log(verdict), Do("stage"), Do("collect"), Do("publish"), last >>
       \/ /\ LastIs(q, verdict)
          /\ \/ /\ Unbundled(q)
                /\ todo = << Do("stage"), Do("collect"), Do("publish"), last >>
             \/ /\ bundles[q].place = "staging"
                /\ todo = << Do("collect"), Do("publish"), last >>
             \/ /\ bundles[q].place = "staging"
                /\ bundles[q].whole /\ bundles[q].events = ledger[q]
                /\ todo = << Do("publish"), last >>
             \/ bundles[q].place = "final" /\ todo = << last >>

Owns(q, todo) ==
    \/ Submitting(q, todo) \/ Asking(q, todo) \/ Proposing(q, todo) \/ Refusing(q, todo)
    \/ Drafting(q, todo) \/ Approving(q, todo) \/ Running(q, todo) \/ Bundling(q, todo)

Owner(h) == req[h] \in Requests /\ rec[h] = rows[req[h]] /\ Owns(req[h], script[h])

\* A handler that is about to try for a known request, by its copy of the row.
Tries(row, todo) ==
    \/ /\ row.state = "needs_clarification"
       /\ \E kept \in SUBSET Fields :
             /\ row.answers \subseteq kept
             /\ todo \in { << Move("needs_clarification", [answers |-> kept]) >>,
                           << Move("spec_drafted", [answers |-> kept]), Propose(1) >> }
    \/ /\ row.state = "compiled"
       /\ todo = << Move("running", <<>>), Log("started"), Do("run") >>
    \/ /\ row.state = "user_confirmation_required"
       /\ todo = << Do("compile"), Log("approved"), Log("compiled"),
                    Move("compiled", [job |-> row.spec]) >>

Racer(h) ==
    LET q == req[h] IN
    /\ q \in known /\ Tries(rec[h], script[h])
    /\ rec[h].revision <= rows[q].revision
    /\ rec[h].revision = rows[q].revision => rec[h] = rows[q]
    /\ rec[h].state = "user_confirmation_required" => rec[h] = rows[q] \/ compiled[q] # NoPlan

\* Every handler owns its request or tries for it, and a request has one owner.
HandlersStand == \A h \in Handlers : ~ Idle(h) => Owner(h) \/ Racer(h)
OneOwner == \A g, h \in Handlers :
    g # h /\ ~ Idle(g) /\ ~ Idle(h) /\ req[g] = req[h] => Racer(g) \/ Racer(h)

\* A handler in the middle of an append has read the whole ledger.
Current(h) == lines[h] > 0 => At(h, "log") /\ lines[h] = Len(ledger[req[h]]) + 1
ReadersAreCurrent == \A h \in Handlers : Current(h)

Chained(q) == \A i \in 1 .. Len(ledger[q]) : ledger[q][i].sequence = i

\* The digest shown is that of the specification, and only that is compiled.
DigestAgrees(q) ==
    /\ rows[q].state \in {"none", "requested", "needs_clarification", "spec_drafted",
                          "spec_validated"} => rows[q].digest = NoPlan
    /\ rows[q].state = "spec_validated" => rows[q].spec \in Plans
    /\ rows[q].state \in {"user_confirmation_required", "compiled", "running",
                          "validating", "completed"} => rows[q].digest # NoPlan
    /\ rows[q].digest # NoPlan => rows[q].digest = rows[q].spec
    /\ compiled[q] # NoPlan => compiled[q] = rows[q].digest

\* An approval follows the directory of the compiler, and a run follows an approval.
ApprovalComesFirst(q) ==
    /\ compiled[q] = NoPlan => Approvals(q) = {}
    /\ rows[q].state \in {"compiled", "running", "validating", "completed"} \/ ran[q] # <<>> =>
          compiled[q] # NoPlan /\ ApprovedOnce(q)
    /\ rows[q].state \in {"user_confirmation_required", "compiled"} => ran[q] = <<>>
    /\ ran[q] # <<>> => Len(ran[q]) = 1 /\ ran[q][1] = compiled[q]

\* A bundle is begun while its request is validated, and published before it is named.
BundleComesLast(q) ==
    /\ ~ Unbundled(q) => rows[q].state \in {"validating", "completed", "failed"}
    /\ bundles[q].place = "final" => bundles[q].whole /\ bundles[q].events = ledger[q]
    /\ rows[q].state = "completed" => rows[q].bundle
    /\ rows[q].bundle => /\ bundles[q].place = "final" /\ LastIs(q, rows[q].state)
                         /\ rows[q].state \in {"completed", "failed"}

\* What holds of a request, whoever works on it; before there is a row nobody knows it,
\* and there are no answers.
Sound(q) ==
    /\ rows[q].state = "none" => q \notin known /\ rows[q].answers = {}
    /\ Chained(q)
    /\ DigestAgrees(q)
    /\ ApprovalComesFirst(q)
    /\ BundleComesLast(q)

IInv ==
    /\ Types
    /\ HandlersStand
    /\ OneOwner
    /\ ReadersAreCurrent
    /\ \A q \in Requests : Sound(q)

----------------------------------------------------------------------------
(* Scripts *)

\* The kinds of a script's steps.
LEMMA StepKinds ==
    /\ \A kind : Log(kind).do = "log" /\ Log(kind).what = kind
    /\ \A state, data : /\ Move(state, data).do = "move" /\ Move(state, data).what = state
                        /\ Move(state, data).data = data
    /\ \A call : Do(call).do = call
    /\ \A attempt : Propose(attempt).do = "propose" /\ Propose(attempt).what = attempt
  BY DEF Log, Move, Do, Propose

\* What a racer does next: it moves the row, or compiles.
RacerMove(row, step, rest) ==
    \/ /\ row.state = "needs_clarification"
       /\ \E kept \in SUBSET Fields :
             /\ row.answers \subseteq kept
             /\ \/ step = Move("needs_clarification", [answers |-> kept]) /\ rest = <<>>
                \/ /\ step = Move("spec_drafted", [answers |-> kept])
                   /\ rest = << Propose(1) >>
    \/ /\ row.state = "compiled"
       /\ step = Move("running", <<>>) /\ rest = << Log("started"), Do("run") >>

RacerCompile(row, step, rest) ==
    /\ row.state = "user_confirmation_required" /\ step = Do("compile")
    /\ rest = << Log("approved"), Log("compiled"), Move("compiled", [job |-> row.spec]) >>

\* A racer has a step to make, and it is one of these.
LEMMA RacersTry ==
    ASSUME NEW h \in Handlers, Racer(h)
    PROVE  /\ script[h] # <<>>
           /\ \/ At(h, "move") /\ RacerMove(rec[h], Head(script[h]), Tail(script[h]))
              \/ At(h, "compile") /\ RacerCompile(rec[h], Head(script[h]), Tail(script[h]))
           /\ Head(script[h]).do \in {"move", "compile"}
<1> USE StepKinds DEF At
<1>1. CASE /\ rec[h].state = "compiled"
           /\ script[h] = << Move("running", <<>>), Log("started"), Do("run") >>
  BY <1>1 DEF RacerMove
<1>2. CASE /\ rec[h].state = "user_confirmation_required"
           /\ script[h] = << Do("compile"), Log("approved"), Log("compiled"),
                             Move("compiled", [job |-> rec[h].spec]) >>
  BY <1>2 DEF RacerCompile
<1>3. ASSUME rec[h].state = "needs_clarification", NEW kept \in SUBSET Fields,
             rec[h].answers \subseteq kept,
             script[h] = << Move("needs_clarification", [answers |-> kept]) >>
      PROVE  At(h, "move") /\ RacerMove(rec[h], Head(script[h]), Tail(script[h]))
  <2>1. /\ Head(script[h]) = Move("needs_clarification", [answers |-> kept])
        /\ Tail(script[h]) = <<>> /\ script[h] # <<>>
    BY <1>3
  <2>2. At(h, "move")
    BY <2>1
  <2>3. RacerMove(rec[h], Move("needs_clarification", [answers |-> kept]), <<>>)
    BY <1>3 DEF RacerMove
  <2>4. QED
    BY <2>1, <2>2, <2>3
<1>4. ASSUME rec[h].state = "needs_clarification", NEW kept \in SUBSET Fields,
             rec[h].answers \subseteq kept,
             script[h] = << Move("spec_drafted", [answers |-> kept]), Propose(1) >>
      PROVE  At(h, "move") /\ RacerMove(rec[h], Head(script[h]), Tail(script[h]))
  <2>1. /\ Head(script[h]) = Move("spec_drafted", [answers |-> kept])
        /\ Tail(script[h]) = << Propose(1) >> /\ script[h] # <<>>
    BY <1>4
  <2>2. QED
    BY <1>4, <2>1 DEF RacerMove
<1>5. QED
  BY <1>1, <1>2, <1>3, <1>4 DEF Racer, Tries

\* What an owner does next, by its request: it moves the row,
OwnerMove(q, step, rest) ==
    \/ /\ rows[q].state = "requested" /\ q \notin known
       /\ \/ /\ step = Move("needs_clarification", <<>>)
             /\ rest = << Log("clarification_required") >>
          \/ step = Move("spec_drafted", <<>>) /\ rest = << Propose(1) >>
    \/ /\ rows[q].state = "spec_drafted"
       /\ \/ step = Move("failed", <<>>) /\ rest = << Log("failed") >>
          \/ step = Move("needs_clarification", <<>>) /\ rest = <<>>
          \/ \E p \in Plans :
                /\ step = Move("spec_validated", [spec |-> p])
                /\ rest = << Log("spec_drafted"), Log("validated"),
                             Move("user_confirmation_required", [digest |-> p]) >>
    \/ /\ rows[q].state = "spec_validated"
       /\ step = Move("user_confirmation_required", [digest |-> rows[q].spec]) /\ rest = <<>>
    \/ /\ rows[q].state = "user_confirmation_required" /\ compiled[q] # NoPlan
       /\ ApprovedOnce(q) /\ step = Move("compiled", [job |-> rows[q].spec]) /\ rest = <<>>
    \/ /\ rows[q].state = "running"
       /\ \/ step = Move("failed", <<>>) /\ rest = <<>>
          \/ \E verdict \in {"completed", "failed"} :
                /\ step = Move("validating", <<>>)
                /\ rest = << Log(verdict), Do("stage"), Do("collect"), Do("publish"),
                             Move(verdict, [bundle |-> TRUE]) >>
    \/ /\ rows[q].state = "validating" /\ bundles[q].place = "final" /\ rest = <<>>
       /\ \E verdict \in {"completed", "failed"} :
             LastIs(q, verdict) /\ step = Move(verdict, [bundle |-> TRUE])

\* appends to the ledger,
OwnerLog(q, step, rest) ==
    \/ \E kind \in Kinds \ {"approved"} :
          /\ step = Log(kind)
          /\ \/ rows[q].state \in {"needs_clarification", "failed"} /\ rest = <<>>
             \/ rows[q].state # "validating" /\ Owns(q, rest)
          /\ rows[q].state = "failed" => Unbundled(q)
    \/ /\ step = Log("approved")
       /\ rows[q].state = "user_confirmation_required" /\ compiled[q] # NoPlan
       /\ Approvals(q) = {}
       /\ rest = << Log("compiled"), Move("compiled", [job |-> rows[q].spec]) >>
    \/ \E verdict \in {"completed", "failed"} :
          /\ step = Log(verdict)
          /\ rows[q].state = "validating" /\ Unbundled(q)
          /\ rest = << Do("stage"), Do("collect"), Do("publish"),
                       Move(verdict, [bundle |-> TRUE]) >>

\* calls the runner, or writes the bundle.
OwnerRun(q, rest) == rows[q].state = "running" /\ ran[q] = <<>> /\ rest = <<>>

OwnerBundle(q, step, rest) ==
    /\ rows[q].state = "validating"
    /\ \E verdict \in {"completed", "failed"} :
       LET last == Move(verdict, [bundle |-> TRUE]) IN
       /\ LastIs(q, verdict)
       /\ \/ /\ step = Do("stage") /\ Unbundled(q)
             /\ rest = << Do("collect"), Do("publish"), last >>
          \/ /\ step = Do("collect") /\ bundles[q].place = "staging"
             /\ rest = << Do("publish"), last >>
          \/ /\ step = Do("publish") /\ bundles[q].place = "staging"
             /\ bundles[q].whole /\ bundles[q].events = ledger[q] /\ rest = << last >>

OwnerAct(q, todo) ==
    /\ todo # <<>>
    /\ \/ Head(todo).do = "move" /\ OwnerMove(q, Head(todo), Tail(todo))
       \/ Head(todo).do = "log" /\ OwnerLog(q, Head(todo), Tail(todo))
       \/ Head(todo).do = "propose" /\ rows[q].state = "spec_drafted"
       \/ Head(todo).do = "run" /\ OwnerRun(q, Tail(todo))
       \/ /\ Head(todo).do \in {"stage", "collect", "publish"}
          /\ OwnerBundle(q, Head(todo), Tail(todo))

\* The scripts of submitting.
LEMMA SubmittingActs ==
    ASSUME NEW q \in Requests, NEW todo, Submitting(q, todo)
    PROVE  OwnerAct(q, todo)
<1> USE StepKinds
<1>1. CASE todo = << Log("requested"), Move("needs_clarification", <<>>),
                     Log("clarification_required") >>
  <2>1. /\ Head(todo) = Log("requested")
        /\ Tail(todo) = << Move("needs_clarification", <<>>),
                           Log("clarification_required") >> /\ todo # <<>>
    BY <1>1
  <2>2. Submitting(q, Tail(todo))
    BY <1>1, <2>1 DEF Submitting
  <2>3. Owns(q, Tail(todo)) /\ rows[q].state \notin {"validating", "failed"}
    BY <2>2 DEF Owns, Submitting
  <2>4. QED
    BY <2>1, <2>3 DEF OwnerAct, OwnerLog, Kinds
<1>2. CASE todo = << Move("needs_clarification", <<>>), Log("clarification_required") >>
  <2>1. /\ Head(todo) = Move("needs_clarification", <<>>)
        /\ Tail(todo) = << Log("clarification_required") >> /\ todo # <<>>
    BY <1>2
  <2>2. OwnerMove(q, Head(todo), Tail(todo))
    BY <1>2, <2>1 DEF Submitting, OwnerMove
  <2>3. QED
    BY <2>1, <2>2 DEF OwnerAct
<1>3. CASE todo = << Log("requested"), Move("spec_drafted", <<>>), Propose(1) >>
  <2>1. /\ Head(todo) = Log("requested")
        /\ Tail(todo) = << Move("spec_drafted", <<>>), Propose(1) >> /\ todo # <<>>
    BY <1>3
  <2>2. Submitting(q, Tail(todo))
    BY <1>3, <2>1 DEF Submitting
  <2>3. Owns(q, Tail(todo)) /\ rows[q].state \notin {"validating", "failed"}
    BY <2>2 DEF Owns, Submitting
  <2>4. QED
    BY <2>1, <2>3 DEF OwnerAct, OwnerLog, Kinds
<1>4. CASE todo = << Move("spec_drafted", <<>>), Propose(1) >>
  <2>1. /\ Head(todo) = Move("spec_drafted", <<>>)
        /\ Tail(todo) = << Propose(1) >> /\ todo # <<>>
    BY <1>4
  <2>2. OwnerMove(q, Head(todo), Tail(todo))
    BY <1>4, <2>1 DEF Submitting, OwnerMove
  <2>3. QED
    BY <2>1, <2>2 DEF OwnerAct
<1>5. QED
  BY <1>1, <1>2, <1>3, <1>4 DEF Submitting

\* The scripts of asking.
LEMMA AskingActs ==
    ASSUME NEW q \in Requests, NEW todo, Asking(q, todo)
    PROVE  OwnerAct(q, todo)
<1> USE StepKinds
<1>1. CASE todo = << Log("clarification_required") >>
  <2>1. /\ Head(todo) = Log("clarification_required")
        /\ Tail(todo) = <<>> /\ todo # <<>>
    BY <1>1
  <2>2. OwnerLog(q, Head(todo), Tail(todo))
    BY <1>1, <2>1 DEF Asking, OwnerLog, Kinds
  <2>3. QED
    BY <2>1, <2>2 DEF OwnerAct
<1>2. QED
  BY <1>1 DEF Asking

\* The scripts of proposing.
LEMMA ProposingActs ==
    ASSUME NEW q \in Requests, NEW todo, Proposing(q, todo)
    PROVE  OwnerAct(q, todo)
<1> USE StepKinds
<1>1. CASE todo = << Propose(1) >>
  <2>1. /\ Head(todo) = Propose(1)
        /\ Tail(todo) = <<>> /\ todo # <<>>
    BY <1>1
  <2>2. QED
    BY <2>1 DEF OwnerAct, Proposing
<1>2. CASE todo = << Propose(2) >>
  <2>1. /\ Head(todo) = Propose(2)
        /\ Tail(todo) = <<>> /\ todo # <<>>
    BY <1>2
  <2>2. QED
    BY <2>1 DEF OwnerAct, Proposing
<1>3. CASE todo = << Move("failed", <<>>), Log("failed") >>
  <2>1. /\ Head(todo) = Move("failed", <<>>)
        /\ Tail(todo) = << Log("failed") >> /\ todo # <<>>
    BY <1>3
  <2>2. OwnerMove(q, Head(todo), Tail(todo))
    BY <1>3, <2>1 DEF Proposing, OwnerMove
  <2>3. QED
    BY <2>1, <2>2 DEF OwnerAct
<1>4. CASE todo = << Move("needs_clarification", <<>>) >>
  <2>1. /\ Head(todo) = Move("needs_clarification", <<>>)
        /\ Tail(todo) = <<>> /\ todo # <<>>
    BY <1>4
  <2>2. OwnerMove(q, Head(todo), Tail(todo))
    BY <1>4, <2>1 DEF Proposing, OwnerMove
  <2>3. QED
    BY <2>1, <2>2 DEF OwnerAct
<1>5. ASSUME NEW p \in Plans,
             todo = << Move("spec_validated", [spec |-> p]), Log("spec_drafted"),
                       Log("validated"),
                       Move("user_confirmation_required", [digest |-> p]) >>
      PROVE  OwnerAct(q, todo)
  <2>1. /\ Head(todo) = Move("spec_validated", [spec |-> p])
        /\ Tail(todo) = << Log("spec_drafted"), Log("validated"),
                           Move("user_confirmation_required", [digest |-> p]) >> /\ todo # <<>>
    BY <1>5
  <2>2. OwnerMove(q, Head(todo), Tail(todo))
    BY <1>5, <2>1 DEF Proposing, OwnerMove
  <2>3. QED
    BY <2>1, <2>2 DEF OwnerAct
<1>6. QED
  BY <1>1, <1>2, <1>3, <1>4, <1>5 DEF Proposing, Outcomes

\* The scripts of refusing.
LEMMA RefusingActs ==
    ASSUME NEW q \in Requests, NEW todo, Refusing(q, todo)
    PROVE  OwnerAct(q, todo)
<1> USE StepKinds
<1>1. CASE todo = << Log("failed") >>
  <2>1. /\ Head(todo) = Log("failed")
        /\ Tail(todo) = <<>> /\ todo # <<>>
    BY <1>1
  <2>2. OwnerLog(q, Head(todo), Tail(todo))
    BY <1>1, <2>1 DEF Refusing, OwnerLog, Kinds
  <2>3. QED
    BY <2>1, <2>2 DEF OwnerAct
<1>2. QED
  BY <1>1 DEF Refusing

\* The scripts of drafting.
LEMMA DraftingActs ==
    ASSUME NEW q \in Requests, NEW todo, Drafting(q, todo)
    PROVE  OwnerAct(q, todo)
<1> USE StepKinds
<1>1. CASE todo = << Log("spec_drafted"), Log("validated"), Move("user_confirmation_required",
                     [digest |-> rows[q].spec]) >>
  <2>1. /\ Head(todo) = Log("spec_drafted")
        /\ Tail(todo) = << Log("validated"), Move("user_confirmation_required",
                           [digest |-> rows[q].spec]) >> /\ todo # <<>>
    BY <1>1
  <2>2. Drafting(q, Tail(todo))
    BY <1>1, <2>1 DEF Drafting
  <2>3. Owns(q, Tail(todo)) /\ rows[q].state \notin {"validating", "failed"}
    BY <2>2 DEF Owns, Drafting
  <2>4. QED
    BY <2>1, <2>3 DEF OwnerAct, OwnerLog, Kinds
<1>2. CASE todo = << Log("validated"), Move("user_confirmation_required",
                     [digest |-> rows[q].spec]) >>
  <2>1. /\ Head(todo) = Log("validated")
        /\ Tail(todo) = << Move("user_confirmation_required",
                           [digest |-> rows[q].spec]) >> /\ todo # <<>>
    BY <1>2
  <2>2. Drafting(q, Tail(todo))
    BY <1>2, <2>1 DEF Drafting
  <2>3. Owns(q, Tail(todo)) /\ rows[q].state \notin {"validating", "failed"}
    BY <2>2 DEF Owns, Drafting
  <2>4. QED
    BY <2>1, <2>3 DEF OwnerAct, OwnerLog, Kinds
<1>3. CASE todo = << Move("user_confirmation_required", [digest |-> rows[q].spec]) >>
  <2>1. /\ Head(todo) = Move("user_confirmation_required", [digest |-> rows[q].spec])
        /\ Tail(todo) = <<>> /\ todo # <<>>
    BY <1>3
  <2>2. OwnerMove(q, Head(todo), Tail(todo))
    BY <1>3, <2>1 DEF Drafting, OwnerMove
  <2>3. QED
    BY <2>1, <2>2 DEF OwnerAct
<1>4. QED
  BY <1>1, <1>2, <1>3 DEF Drafting

\* The scripts of approving.
LEMMA ApprovingActs ==
    ASSUME NEW q \in Requests, NEW todo, Approving(q, todo)
    PROVE  OwnerAct(q, todo)
<1> USE StepKinds
<1>1. CASE todo = << Log("approved"), Log("compiled"), Move("compiled",
                     [job |-> rows[q].spec]) >>
  <2>1. /\ Head(todo) = Log("approved")
        /\ Tail(todo) = << Log("compiled"), Move("compiled",
                           [job |-> rows[q].spec]) >> /\ todo # <<>>
    BY <1>1
  <2>2. OwnerLog(q, Head(todo), Tail(todo))
    BY <1>1, <2>1 DEF Approving, OwnerLog, Kinds
  <2>3. QED
    BY <2>1, <2>2 DEF OwnerAct
<1>2. CASE todo = << Log("compiled"), Move("compiled", [job |-> rows[q].spec]) >>
  <2>1. /\ Head(todo) = Log("compiled")
        /\ Tail(todo) = << Move("compiled", [job |-> rows[q].spec]) >> /\ todo # <<>>
    BY <1>2
  <2>2. Approving(q, Tail(todo))
    BY <1>2, <2>1 DEF Approving
  <2>3. Owns(q, Tail(todo)) /\ rows[q].state \notin {"validating", "failed"}
    BY <2>2 DEF Owns, Approving
  <2>4. QED
    BY <2>1, <2>3 DEF OwnerAct, OwnerLog, Kinds
<1>3. CASE todo = << Move("compiled", [job |-> rows[q].spec]) >>
  <2>1. /\ Head(todo) = Move("compiled", [job |-> rows[q].spec])
        /\ Tail(todo) = <<>> /\ todo # <<>>
    BY <1>3
  <2>2. OwnerMove(q, Head(todo), Tail(todo))
    BY <1>3, <2>1 DEF Approving, OwnerMove
  <2>3. QED
    BY <2>1, <2>2 DEF OwnerAct
<1>4. QED
  BY <1>1, <1>2, <1>3 DEF Approving

\* The scripts of running.
LEMMA RunningActs ==
    ASSUME NEW q \in Requests, NEW todo, Running(q, todo)
    PROVE  OwnerAct(q, todo)
<1> USE StepKinds
<1>1. CASE ran[q] = <<>> /\ todo = << Log("started"), Do("run") >>
  <2>1. /\ Head(todo) = Log("started")
        /\ Tail(todo) = << Do("run") >> /\ todo # <<>>
    BY <1>1
  <2>2. Running(q, Tail(todo))
    BY <1>1, <2>1 DEF Running, Unrun
  <2>3. Owns(q, Tail(todo)) /\ rows[q].state \notin {"validating", "failed"}
    BY <2>2 DEF Owns, Running
  <2>4. QED
    BY <2>1, <2>3 DEF OwnerAct, OwnerLog, Kinds
<1>2. CASE ran[q] = <<>> /\ todo = << Do("run") >>
  <2>1. /\ Head(todo) = Do("run")
        /\ Tail(todo) = <<>> /\ todo # <<>>
    BY <1>2
  <2>2. OwnerRun(q, Tail(todo))
    BY <1>2, <2>1 DEF Running, OwnerRun
  <2>3. QED
    BY <2>1, <2>2 DEF OwnerAct
<1>3. CASE todo = << Log("failed"), Move("failed", <<>>) >>
  <2>1. /\ Head(todo) = Log("failed")
        /\ Tail(todo) = << Move("failed", <<>>) >> /\ todo # <<>>
    BY <1>3
  <2>2. Running(q, Tail(todo))
    BY <1>3, <2>1 DEF Running, Unrun
  <2>3. Owns(q, Tail(todo)) /\ rows[q].state \notin {"validating", "failed"}
    BY <2>2 DEF Owns, Running
  <2>4. QED
    BY <2>1, <2>3 DEF OwnerAct, OwnerLog, Kinds
<1>4. CASE todo = << Move("failed", <<>>) >>
  <2>1. /\ Head(todo) = Move("failed", <<>>)
        /\ Tail(todo) = <<>> /\ todo # <<>>
    BY <1>4
  <2>2. OwnerMove(q, Head(todo), Tail(todo))
    BY <1>4, <2>1 DEF Running, OwnerMove
  <2>3. QED
    BY <2>1, <2>2 DEF OwnerAct
<1>5. ASSUME NEW v \in {"completed", "failed"},
             todo = << Move("validating", <<>>), Log(v), Do("stage"), Do("collect"),
                       Do("publish"), Move(v, [bundle |-> TRUE]) >>
      PROVE  OwnerAct(q, todo)
  <2>1. /\ Head(todo) = Move("validating", <<>>)
        /\ Tail(todo) = << Log(v), Do("stage"), Do("collect"), Do("publish"), Move(v,
                           [bundle |-> TRUE]) >> /\ todo # <<>>
    BY <1>5
  <2>2. OwnerMove(q, Head(todo), Tail(todo))
    BY <1>5, <2>1 DEF Running, OwnerMove
  <2>3. QED
    BY <2>1, <2>2 DEF OwnerAct
<1>6. QED
  BY <1>1, <1>2, <1>3, <1>4, <1>5 DEF Running, Finish, Unrun

\* The scripts of bundling.
LEMMA BundlingActs ==
    ASSUME NEW q \in Requests, NEW todo, Bundling(q, todo)
    PROVE  OwnerAct(q, todo)
<1> USE StepKinds
<1>1. ASSUME NEW v \in {"completed", "failed"},
             todo = << Log(v), Do("stage"), Do("collect"), Do("publish"),
                       Move(v, [bundle |-> TRUE]) >>
      PROVE  OwnerAct(q, todo)
  <2>1. /\ Head(todo) = Log(v)
        /\ Tail(todo) = << Do("stage"), Do("collect"), Do("publish"), Move(v,
                           [bundle |-> TRUE]) >> /\ todo # <<>>
    BY <1>1
  <2>2. OwnerLog(q, Head(todo), Tail(todo))
    BY <1>1, <2>1 DEF Bundling, OwnerLog, Kinds
  <2>3. QED
    BY <2>1, <2>2 DEF OwnerAct
<1>2. ASSUME NEW v \in {"completed", "failed"},
             todo = << Do("stage"), Do("collect"), Do("publish"),
                       Move(v, [bundle |-> TRUE]) >>
      PROVE  OwnerAct(q, todo)
  <2>1. /\ Head(todo) = Do("stage")
        /\ Tail(todo) = << Do("collect"), Do("publish"), Move(v,
                           [bundle |-> TRUE]) >> /\ todo # <<>>
    BY <1>2
  <2>2. OwnerBundle(q, Head(todo), Tail(todo))
    BY <1>2, <2>1 DEF Bundling, OwnerBundle
  <2>3. QED
    BY <2>1, <2>2 DEF OwnerAct
<1>3. ASSUME NEW v \in {"completed", "failed"},
             todo = << Do("collect"), Do("publish"), Move(v, [bundle |-> TRUE]) >>
      PROVE  OwnerAct(q, todo)
  <2>1. /\ Head(todo) = Do("collect")
        /\ Tail(todo) = << Do("publish"), Move(v, [bundle |-> TRUE]) >> /\ todo # <<>>
    BY <1>3
  <2>2. OwnerBundle(q, Head(todo), Tail(todo))
    BY <1>3, <2>1 DEF Bundling, OwnerBundle
  <2>3. QED
    BY <2>1, <2>2 DEF OwnerAct
<1>4. ASSUME NEW v \in {"completed", "failed"},
             todo = << Do("publish"), Move(v, [bundle |-> TRUE]) >>
      PROVE  OwnerAct(q, todo)
  <2>1. /\ Head(todo) = Do("publish")
        /\ Tail(todo) = << Move(v, [bundle |-> TRUE]) >> /\ todo # <<>>
    BY <1>4
  <2>2. OwnerBundle(q, Head(todo), Tail(todo))
    BY <1>4, <2>1 DEF Bundling, OwnerBundle
  <2>3. QED
    BY <2>1, <2>2 DEF OwnerAct
<1>5. ASSUME NEW v \in {"completed", "failed"},
             todo = << Move(v, [bundle |-> TRUE]) >>
      PROVE  OwnerAct(q, todo)
  <2>1. /\ Head(todo) = Move(v, [bundle |-> TRUE])
        /\ Tail(todo) = <<>> /\ todo # <<>>
    BY <1>5
  <2>2. OwnerMove(q, Head(todo), Tail(todo))
    BY <1>5, <2>1 DEF Bundling, OwnerMove
  <2>3. QED
    BY <2>1, <2>2 DEF OwnerAct
<1>6. QED
  BY <1>1, <1>2, <1>3, <1>4, <1>5 DEF Bundling

\* What an owner does next.
LEMMA OwnersAct ==
    ASSUME NEW h \in Handlers, Owner(h)
    PROVE  OwnerAct(req[h], script[h])
  BY SubmittingActs, AskingActs, ProposingActs, RefusingActs, DraftingActs, ApprovingActs,
     RunningActs, BundlingActs DEF Owner, Owns

----------------------------------------------------------------------------
(* Steps of a handler and the rest of the system *)

\* A step that leaves a request, or a handler, as it is.
Untouched(q) ==
    /\ rows'[q] = rows[q] /\ ledger'[q] = ledger[q] /\ compiled'[q] = compiled[q]
    /\ ran'[q] = ran[q] /\ bundles'[q] = bundles[q] /\ (q \in known' <=> q \in known)
SameScript(g) == req'[g] = req[g] /\ rec'[g] = rec[g] /\ script'[g] = script[g]
Kept(g) == SameScript(g) /\ lines'[g] = lines[g]

\* A step that changes a row takes its next revision; past the approval it is compiled.
MovesOn(q) ==
    /\ q \in known => q \in known'
    /\ compiled[q] # NoPlan => compiled'[q] # NoPlan
    /\ \/ rows'[q] = rows[q]
       \/ /\ rows'[q].revision > rows[q].revision
          /\ rows[q].state = "user_confirmation_required" => compiled'[q] # NoPlan

\* What holds of a request goes on when nothing touches it.
LEMMA UntouchedSound ==
    ASSUME NEW q \in Requests, Sound(q), Untouched(q)
    PROVE  Sound(q)'
<1> USE DEF Untouched
<1>1. (rows[q].state = "none" => q \notin known /\ rows[q].answers = {})'
  BY DEF Sound
<1>2. Chained(q)'
  BY DEF Sound, Chained
<1>3. DigestAgrees(q)'
  BY DEF Sound, DigestAgrees
<1>4. ApprovalComesFirst(q)'
  BY DEF Sound, ApprovalComesFirst, ApprovedOnce, Approvals
<1>5. BundleComesLast(q)'
  BY DEF Sound, BundleComesLast, LastIs, Unbundled
<1>6. QED
  BY <1>1, <1>2, <1>3, <1>4, <1>5 DEF Sound

\* An owner still owns an untouched request.
LEMMA OwnerStays ==
    ASSUME NEW g \in Handlers, Owner(g), SameScript(g), Untouched(req[g])
    PROVE  Owner(g)'
<1>1. PICK q \in Requests : q = req[g]
  BY DEF Owner
<1>2. PICK todo : todo = script[g]
  OBVIOUS
<1>3. req'[g] = q /\ rec'[g] = rows'[q] /\ script'[g] = todo
  BY <1>1, <1>2 DEF Owner, SameScript, Untouched
<1>4. Owns(q, todo)
  BY <1>1, <1>2 DEF Owner
<1>5. /\ rows'[q] = rows[q] /\ (q \in known' <=> q \in known) /\ compiled'[q] = compiled[q]
      /\ ran'[q] = ran[q] /\ bundles'[q] = bundles[q] /\ ledger'[q] = ledger[q]
  BY <1>1 DEF Untouched
<1>6. Approvals(q)' = Approvals(q) /\ (ApprovedOnce(q)' <=> ApprovedOnce(q))
  BY <1>5 DEF Approvals, ApprovedOnce
<1>7. CASE Submitting(q, todo)
  <2>1. Submitting(req[g], script[g])'
    BY <1>3, <1>5, <1>7 DEF Submitting
  <2>2. QED
    BY <1>1, <1>3, <2>1 DEF Owner, Owns
<1>8. CASE Asking(q, todo)
  <2>1. Asking(req[g], script[g])'
    BY <1>3, <1>5, <1>8 DEF Asking
  <2>2. QED
    BY <1>1, <1>3, <2>1 DEF Owner, Owns
<1>9. CASE Proposing(q, todo)
  <2>1. Proposing(req[g], script[g])'
    BY <1>3, <1>5, <1>9 DEF Proposing
  <2>2. QED
    BY <1>1, <1>3, <2>1 DEF Owner, Owns
<1>10. CASE Refusing(q, todo)
  <2>1. Refusing(req[g], script[g])'
    BY <1>3, <1>5, <1>10 DEF Refusing, Unbundled
  <2>2. QED
    BY <1>1, <1>3, <2>1 DEF Owner, Owns
<1>11. CASE Drafting(q, todo)
  <2>1. Drafting(req[g], script[g])'
    BY <1>3, <1>5, <1>11 DEF Drafting
  <2>2. QED
    BY <1>1, <1>3, <2>1 DEF Owner, Owns
<1>12. CASE Approving(q, todo)
  <2>1. Approving(req[g], script[g])'
    BY <1>3, <1>5, <1>12 DEF Approving, ApprovedOnce, Approvals
  <2>2. QED
    BY <1>1, <1>3, <2>1 DEF Owner, Owns
<1>13. CASE Running(q, todo)
  <2>1. Running(req[g], script[g])'
    BY <1>3, <1>5, <1>13 DEF Running
  <2>2. QED
    BY <1>1, <1>3, <2>1 DEF Owner, Owns
<1>14. CASE Bundling(q, todo)
  <2>1. Bundling(req[g], script[g])'
    BY <1>3, <1>5, <1>14 DEF Bundling, LastIs, Unbundled
  <2>2. QED
    BY <1>1, <1>3, <2>1 DEF Owner, Owns
<1>15. QED
  BY <1>4, <1>7, <1>8, <1>9, <1>10, <1>11, <1>12, <1>13, <1>14 DEF Owns

\* A handler that tries for a request still does while others work on it.
LEMMA RacerStays ==
    ASSUME Types, Types', NEW g \in Handlers, Racer(g), SameScript(g), MovesOn(req[g])
    PROVE  Racer(g)'
<1> DEFINE q == req[g]
<1>1. q \in Requests /\ q \in known /\ q \in known'
  BY DEF Racer, MovesOn, Types
<1>2. rows[q].revision \in Nat /\ rows'[q].revision \in Nat /\ rec[g].revision \in Nat
  BY <1>1 DEF Types, Row
<1>3. rec'[g] = rec[g] /\ req'[g] = q /\ script'[g] = script[g]
  BY DEF SameScript
<1>4. Tries(rec[g], script[g])'
  BY <1>3 DEF Racer, Tries
<1>5. /\ rec[g].revision <= rows'[q].revision
      /\ rec[g].revision = rows'[q].revision => rec[g] = rows'[q]
  BY <1>2 DEF Racer, MovesOn
<1>6. rec[g].state = "user_confirmation_required" => rec[g] = rows'[q] \/ compiled'[q] # NoPlan
  BY DEF Racer, MovesOn
<1>7. QED
  BY <1>1, <1>3, <1>4, <1>5, <1>6 DEF Racer

\* A step of one handler on a request no other one owns.
LEMMA RequestStep ==
    ASSUME IInv, Types', NEW h \in Handlers, NEW q \in Requests,
           \A g \in Handlers \ {h} : Kept(g) /\ (~ Idle(g) /\ req[g] = q => Racer(g)),
           \A p \in Requests \ {q} : Untouched(p),
           MovesOn(q) \/ q \notin known, Sound(q)', Current(h)',
           Idle(h)' \/ (req'[h] = q /\ Owner(h)')
    PROVE  IInv'
<1>1. \A p \in Requests : Sound(p)'
  BY UntouchedSound DEF IInv
<1>2. \A g \in Handlers \ {h} : Idle(g)' <=> Idle(g)
  BY DEF Kept, SameScript, Idle
<1>3. \A p \in known : MovesOn(p)
  BY DEF MovesOn, Untouched, IInv, Types
<1>4. \A g \in Handlers \ {h} : Racer(g) => Racer(g)'
  <2>1. SUFFICES ASSUME NEW g \in Handlers \ {h}, Racer(g)  PROVE Racer(g)'
    OBVIOUS
  <2>2. req[g] \in known
    BY <2>1 DEF Racer
  <2>3. QED
    BY <2>1, <2>2, <1>3, RacerStays DEF IInv, Kept
<1>5. \A g \in Handlers \ {h} : ~ Idle(g) => Owner(g)' \/ Racer(g)'
  <2>1. SUFFICES ASSUME NEW g \in Handlers \ {h}, ~ Idle(g), ~ Racer(g)  PROVE Owner(g)'
    BY <1>4
  <2>2. Owner(g) /\ req[g] \in Requests \ {q}
    BY <2>1 DEF IInv, HandlersStand, Owner
  <2>3. QED
    BY <2>2, OwnerStays DEF Kept
<1>6. HandlersStand'
  BY <1>2, <1>5 DEF HandlersStand
<1>7. OneOwner'
  <2>1. SUFFICES ASSUME NEW g \in Handlers, NEW k \in Handlers, g # k, ~ Idle(g)', ~ Idle(k)',
                        req'[g] = req'[k]
                 PROVE  Racer(g)' \/ Racer(k)'
    BY DEF OneOwner
  <2>2. CASE g # h /\ k # h
    BY <2>1, <2>2, <1>2, <1>4 DEF IInv, OneOwner, Kept, SameScript
  <2>3. CASE g = h
    BY <2>1, <2>3, <1>2, <1>4 DEF Kept, SameScript
  <2>4. CASE k = h
    BY <2>1, <2>4, <1>2, <1>4 DEF Kept, SameScript
  <2>5. QED
    BY <2>2, <2>3, <2>4
<1>8. ReadersAreCurrent'
  <2>1. SUFFICES ASSUME NEW g \in Handlers \ {h}  PROVE Current(g)'
    BY DEF ReadersAreCurrent
  <2>2. CASE lines[g] = 0
    BY <2>2 DEF Current, Kept
  <2>3. CASE lines[g] > 0
    <3>1. At(g, "log") /\ lines[g] = Len(ledger[req[g]]) + 1 /\ ~ Idle(g)
      BY <2>3 DEF IInv, ReadersAreCurrent, Current, At, Types
    <3>2. ~ Racer(g)
      BY <3>1, RacersTry DEF At
    <3>3. req[g] \in Requests \ {q}
      BY <3>1, <3>2 DEF IInv, HandlersStand, Owner
    <3>4. ledger'[req[g]] = ledger[req[g]]
      BY <3>3 DEF Untouched
    <3>5. QED
      BY <3>1, <3>4 DEF Current, Kept, SameScript, At
  <2>4. QED
    BY <2>2, <2>3 DEF IInv, Types
<1>9. QED
  BY <1>1, <1>6, <1>7, <1>8 DEF IInv

\* A step of one handler that touches no request: it answers, fails or begins to try.
LEMMA QuietStep ==
    ASSUME IInv, Types', NEW h \in Handlers, \A g \in Handlers \ {h} : Kept(g),
           UNCHANGED <<rows, ledger, compiled, ran, bundles, known>>,
           Idle(h)' \/ Racer(h)', lines'[h] = 0
    PROVE  IInv'
<1>1. \A p \in Requests : Untouched(p) /\ MovesOn(p)
  BY DEF Untouched, MovesOn
<1>2. \A p \in Requests : Sound(p)'
  BY <1>1, UntouchedSound DEF IInv
<1>3. \A g \in Handlers \ {h} : Idle(g)' <=> Idle(g)
  BY DEF Kept, SameScript, Idle
<1>4. \A g \in Handlers \ {h} : Racer(g) => Racer(g)'
  <2>1. SUFFICES ASSUME NEW g \in Handlers \ {h}, Racer(g)  PROVE Racer(g)'
    OBVIOUS
  <2>2. req[g] \in Requests
    BY <2>1 DEF Racer, IInv, Types
  <2>3. QED
    BY <2>1, <2>2, <1>1, RacerStays DEF IInv, Kept
<1>5. \A g \in Handlers \ {h} : Owner(g) => Owner(g)'
  <2>1. SUFFICES ASSUME NEW g \in Handlers \ {h}, Owner(g)  PROVE Owner(g)'
    OBVIOUS
  <2>2. req[g] \in Requests
    BY <2>1 DEF Owner
  <2>3. QED
    BY <2>1, <2>2, <1>1, OwnerStays DEF Kept
<1>6. HandlersStand'
  BY <1>3, <1>4, <1>5 DEF HandlersStand, IInv
<1>7. OneOwner'
  BY <1>3, <1>4 DEF OneOwner, IInv, Kept, SameScript
<1>8. ReadersAreCurrent'
  BY DEF ReadersAreCurrent, IInv, Current, Kept, SameScript, At
<1>9. QED
  BY <1>2, <1>6, <1>7, <1>8 DEF IInv

----------------------------------------------------------------------------
(* What a step does to its handler *)

\* The types of handlers, and of what they leave behind.
HandlersOK ==
    /\ known \subseteq Requests /\ lost \subseteq Requests
    /\ rec \in [Handlers -> Row] /\ req \in [Handlers -> Requests \cup {NoRequest}]
    /\ script = [h \in Handlers |-> script[h]]
    /\ lines \in [Handlers -> Nat] /\ crashes \in 0 .. MaxCrashes
    /\ \A h \in Handlers : Idle(h) <=> script[h] = <<>>

\* Every field of a row that is not there yet has its type.
LEMMA NoRowIsRow == NoRow \in Row
  BY DEF NoRow, Row

\* A handler begins with its copy of a row.
LEMMA BeginEffect ==
    ASSUME IInv, NEW h \in Handlers, NEW q \in Requests, NEW row \in Row, NEW todo,
           todo # <<>>, Begin(h, q, row, todo), UNCHANGED <<known, lost, crashes>>
    PROVE  /\ HandlersOK' /\ \A g \in Handlers \ {h} : Kept(g)
           /\ req'[h] = q /\ rec'[h] = row /\ script'[h] = todo /\ lines'[h] = lines[h]
           /\ ~ Idle(h)'
<1>1. Types
  BY DEF IInv
<1>2. /\ \A g \in Handlers \ {h} : Kept(g)
      /\ req'[h] = q /\ rec'[h] = row /\ script'[h] = todo /\ lines'[h] = lines[h]
  BY <1>1 DEF Types, Begin, Kept, SameScript
<1>3. ~ Idle(h)'
  BY <1>2, ConstantsAssumption DEF Idle
<1>4. \A g \in Handlers : Idle(g)' <=> script'[g] = <<>>
  BY <1>1, <1>2, <1>3 DEF Types, Idle, Kept, SameScript
<1>5. script' = [g \in Handlers |-> script'[g]]
  BY <1>1 DEF Types, Begin
<1>6. QED
  BY <1>1, <1>2, <1>3, <1>4, <1>5 DEF Types, Begin, HandlersOK

\* A handler goes on, or answers when nothing is left.
LEMMA ContinueEffect ==
    ASSUME IInv, NEW h \in Handlers, req[h] \in Requests, NEW todo, Continue(h, todo),
           lines' \in [Handlers -> Nat], \A g \in Handlers \ {h} : lines'[g] = lines[g],
           UNCHANGED <<lost, crashes>>
    PROVE  /\ HandlersOK' /\ \A g \in Handlers \ {h} : Kept(g)
           /\ todo = <<>> => Idle(h)' /\ known' = known \cup {req[h]}
           /\ todo # <<>> => /\ req'[h] = req[h] /\ rec'[h] = rec[h] /\ script'[h] = todo
                             /\ ~ Idle(h)' /\ known' = known
<1>1. Types
  BY DEF IInv
<1>2. CASE todo = <<>>
  <2>1. /\ req' = [req EXCEPT ![h] = NoRequest] /\ rec' = [rec EXCEPT ![h] = NoRow]
        /\ script' = [script EXCEPT ![h] = <<>>] /\ known' = known \cup {req[h]}
    BY <1>2 DEF Continue
  <2>2. /\ \A g \in Handlers \ {h} : Kept(g)
        /\ req'[h] = NoRequest /\ script'[h] = <<>>
    BY <1>1, <2>1 DEF Types, Kept, SameScript
  <2>3. \A g \in Handlers : Idle(g)' <=> script'[g] = <<>>
    BY <1>1, <2>2 DEF Types, Idle, Kept, SameScript
  <2>4. script' = [g \in Handlers |-> script'[g]] /\ Idle(h)'
    BY <1>1, <2>1, <2>2 DEF Types, Idle
  <2>5. QED
    BY <1>1, <1>2, <2>1, <2>2, <2>3, <2>4, NoRowIsRow DEF Types, HandlersOK
<1>3. CASE todo # <<>>
  <2>1. script' = [script EXCEPT ![h] = todo] /\ UNCHANGED <<req, rec, known>>
    BY <1>3 DEF Continue
  <2>2. /\ \A g \in Handlers \ {h} : Kept(g)
        /\ req'[h] = req[h] /\ rec'[h] = rec[h] /\ script'[h] = todo
    BY <1>1, <2>1 DEF Types, Kept, SameScript
  <2>3. ~ Idle(h)'
    BY <2>2, ConstantsAssumption DEF Idle
  <2>4. \A g \in Handlers : Idle(g)' <=> script'[g] = <<>>
    BY <1>1, <1>3, <2>2, <2>3 DEF Types, Idle, Kept, SameScript
  <2>5. script' = [g \in Handlers |-> script'[g]]
    BY <1>1, <2>1 DEF Types
  <2>6. QED
    BY <1>1, <1>3, <2>1, <2>2, <2>3, <2>4, <2>5 DEF Types, HandlersOK
<1>4. QED
  BY <1>2, <1>3

\* An exception leaves the request to itself.
LEMMA RaiseEffect ==
    ASSUME IInv, NEW h \in Handlers, req[h] \in Requests, Raise(h)
    PROVE  /\ HandlersOK' /\ \A g \in Handlers \ {h} : Kept(g)
           /\ Idle(h)' /\ lines'[h] = 0 /\ UNCHANGED <<known, ran>>
<1>1. Types
  BY DEF IInv
<1>2. /\ \A g \in Handlers \ {h} : Kept(g)
      /\ req'[h] = NoRequest /\ script'[h] = <<>> /\ lines'[h] = 0
  BY <1>1 DEF Types, Kept, SameScript, Raise
<1>3. \A g \in Handlers : Idle(g)' <=> script'[g] = <<>>
  BY <1>1, <1>2 DEF Types, Idle, Kept, SameScript
<1>4. script' = [g \in Handlers |-> script'[g]] /\ Idle(h)'
  BY <1>1, <1>2 DEF Types, Idle, Raise
<1>5. QED
  BY <1>1, <1>2, <1>3, <1>4, NoRowIsRow DEF Types, HandlersOK, Raise

\* An owner owns alone.
LEMMA OthersRace ==
    ASSUME IInv, NEW h \in Handlers, ~ Idle(h), ~ Racer(h)
    PROVE  /\ Owner(h) /\ req[h] \in Requests
           /\ \A g \in Handlers \ {h} : ~ Idle(g) /\ req[g] = req[h] => Racer(g)
<1>1. Owner(h)
  BY DEF IInv, HandlersStand
<1>2. QED
  BY <1>1 DEF IInv, OneOwner, Owner

\* Whoever has a step to make has a request.
LEMMA BusyHasRequest ==
    ASSUME IInv, NEW h \in Handlers, ~ Idle(h) \/ script[h] # <<>>
    PROVE  req[h] \in Requests /\ ~ Idle(h)
  BY DEF IInv, Types, Idle

----------------------------------------------------------------------------
(* Steps that touch no request *)

\* A handler begins to try for a known request, with a fresh copy of its row.
LEMMA BeginStep ==
    ASSUME IInv, NEW h \in Handlers, NEW q \in known, NEW todo, Idle(h),
           Begin(h, q, rows[q], todo), Tries(rows[q], todo), todo # <<>>,
           UNCHANGED <<disk, known, ran, lost, crashes>>
    PROVE  IInv'
<1>1. q \in Requests /\ rows[q] \in Row
  BY DEF IInv, Types
<1>2. /\ HandlersOK' /\ \A g \in Handlers \ {h} : Kept(g)
      /\ req'[h] = q /\ rec'[h] = rows[q] /\ script'[h] = todo /\ lines'[h] = lines[h]
  BY <1>1, BeginEffect
<1>3. Types'
  BY <1>2 DEF IInv, Types, HandlersOK, disk
<1>4. Racer(h)'
  <2>1. rows'[q] = rows[q] /\ q \in known' /\ rows[q].revision \in Nat
    BY <1>1 DEF disk, Row
  <2>2. Tries(rec[h], script[h])'
    BY <1>2 DEF Tries
  <2>3. QED
    BY <1>2, <2>1, <2>2 DEF Racer
<1>5. lines'[h] = 0
  <2>1. lines[h] = 0
    BY DEF IInv, Types, ReadersAreCurrent, Current, At
  <2>2. QED
    BY <1>2, <2>1
<1>6. QED
  BY <1>2, <1>3, <1>4, <1>5, QuietStep DEF disk

\* An answer begins to try.
LEMMA AnswerStep ==
    ASSUME IInv, NEW h \in Handlers, NEW q \in Requests, NEW answers \in SUBSET Fields,
           Answer(h, q, answers)
    PROVE  IInv'
<1> DEFINE kept == rows[q].answers \cup answers
           todo == IF Questions(q, kept) # {}
                     THEN << Move("needs_clarification", [answers |-> kept]) >>
                     ELSE << Move("spec_drafted", [answers |-> kept]), Propose(1) >>
<1>1. /\ Idle(h) /\ q \in known /\ rows[q].state = "needs_clarification"
      /\ Begin(h, q, rows[q], todo) /\ UNCHANGED <<disk, known, ran, lost, crashes>>
  BY DEF Answer
<1>2. kept \in SUBSET Fields
  BY DEF IInv, Types, Row
<1> HIDE DEF kept
<1>3. rows[q].answers \subseteq kept
  BY DEF kept
<1>4. /\ todo # <<>>
      /\ todo \in { << Move("needs_clarification", [answers |-> kept]) >>,
                    << Move("spec_drafted", [answers |-> kept]), Propose(1) >> }
  OBVIOUS
<1> HIDE DEF todo
<1>5. Tries(rows[q], todo)
  BY <1>1, <1>2, <1>3, <1>4 DEF Tries
<1>6. QED
  BY <1>1, <1>4, <1>5, BeginStep

\* So does an approval,
LEMMA ApproveStep ==
    ASSUME IInv, NEW h \in Handlers, NEW q \in Requests, NEW digest \in Plans,
           Approve(h, q, digest)
    PROVE  IInv'
<1> DEFINE todo == << Do("compile"), Log("approved"), Log("compiled"),
                      Move("compiled", [job |-> rows[q].spec]) >>
<1>1. /\ Idle(h) /\ q \in known /\ rows[q].state = "user_confirmation_required"
      /\ Begin(h, q, rows[q], todo) /\ UNCHANGED <<disk, known, ran, lost, crashes>>
  BY DEF Approve
<1>2. Tries(rows[q], todo) /\ todo # <<>>
  BY <1>1 DEF Tries
<1> HIDE DEF todo
<1>3. QED
  BY <1>1, <1>2, BeginStep

\* and an execution.
LEMMA ExecuteStep ==
    ASSUME IInv, NEW h \in Handlers, NEW q \in Requests, Execute(h, q)
    PROVE  IInv'
<1> DEFINE todo == << Move("running", <<>>), Log("started"), Do("run") >>
<1>1. /\ Idle(h) /\ q \in known /\ rows[q].state = "compiled"
      /\ Begin(h, q, rows[q], todo) /\ UNCHANGED <<disk, known, ran, lost, crashes>>
  BY DEF Execute
<1>2. Tries(rows[q], todo) /\ todo # <<>>
  BY <1>1 DEF Tries
<1> HIDE DEF todo
<1>3. QED
  BY <1>1, <1>2, BeginStep

\* An exception that leaves the disk alone.
LEMMA RaiseStep ==
    ASSUME IInv, NEW h \in Handlers, ~ Idle(h), Raise(h),
           UNCHANGED <<rows, needs, ledger, compiled, bundles>>
    PROVE  IInv'
<1>1. req[h] \in Requests
  BY BusyHasRequest
<1>2. /\ HandlersOK' /\ \A g \in Handlers \ {h} : Kept(g)
      /\ Idle(h)' /\ lines'[h] = 0 /\ UNCHANGED <<known, ran>>
  BY <1>1, RaiseEffect
<1>3. Types'
  BY <1>2 DEF IInv, Types, HandlersOK
<1>4. QED
  BY <1>2, <1>3, QuietStep

----------------------------------------------------------------------------
(* Transitions *)

\* The row a transition writes.
Moved(row, state, data) == Merge([row EXCEPT !.state = state, !.revision = @ + 1], data)

\* A transition sets the state, counts the revision and overwrites what its data names.
LEMMA MovedRow ==
    ASSUME NEW row \in Row, NEW state \in States, NEW data,
           "state" \notin DOMAIN data, "revision" \notin DOMAIN data
    PROVE  LET new == Moved(row, state, data) IN
           /\ new.state = state /\ new.revision = row.revision + 1
           /\ new.answers = IF "answers" \in DOMAIN data THEN data.answers ELSE row.answers
           /\ new.spec = IF "spec" \in DOMAIN data THEN data.spec ELSE row.spec
           /\ new.digest = IF "digest" \in DOMAIN data THEN data.digest ELSE row.digest
           /\ new.job = IF "job" \in DOMAIN data THEN data.job ELSE row.job
           /\ new.bundle = IF "bundle" \in DOMAIN data THEN data.bundle ELSE row.bundle
           /\ (new.answers \in SUBSET Fields /\ new.spec \in Plans \cup {NoPlan}
               /\ new.digest \in Plans \cup {NoPlan} /\ new.job \in Plans \cup {NoPlan}
               /\ new.bundle \in BOOLEAN) => new \in Row
<1> DEFINE old == [row EXCEPT !.state = state, !.revision = @ + 1]
           new == Moved(row, state, data)
           names == {"state", "revision", "answers", "spec", "digest", "job", "bundle"}
<1>1. /\ DOMAIN old = names /\ old.state = state /\ old.revision = row.revision + 1
      /\ old.answers = row.answers /\ old.spec = row.spec /\ old.digest = row.digest
      /\ old.job = row.job /\ old.bundle = row.bundle
  BY DEF Row
<1>2. new = [f \in names |-> IF f \in DOMAIN data THEN data[f] ELSE old[f]]
  BY <1>1 DEF Moved, Merge
<1> HIDE DEF old, new
<1>3. /\ new.state = state /\ new.revision = row.revision + 1
      /\ new.answers = IF "answers" \in DOMAIN data THEN data.answers ELSE row.answers
      /\ new.spec = IF "spec" \in DOMAIN data THEN data.spec ELSE row.spec
      /\ new.digest = IF "digest" \in DOMAIN data THEN data.digest ELSE row.digest
      /\ new.job = IF "job" \in DOMAIN data THEN data.job ELSE row.job
  BY <1>1, <1>2
<1>4. new.bundle = IF "bundle" \in DOMAIN data THEN data.bundle ELSE row.bundle
  BY <1>1, <1>2
<1>5. ASSUME new.answers \in SUBSET Fields, new.spec \in Plans \cup {NoPlan},
             new.digest \in Plans \cup {NoPlan}, new.job \in Plans \cup {NoPlan},
             new.bundle \in BOOLEAN
      PROVE  new \in Row
  <2>1. new.state \in States \cup {"none"} /\ new.revision \in Nat
    BY <1>3 DEF Row
  <2>2. DOMAIN new = names /\ new = [f \in names |-> new[f]]
    BY <1>2
  <2>3. QED
    BY <1>5, <2>1, <2>2 DEF Row
<1>6. QED
  BY <1>3, <1>4, <1>5 DEF new

\* The data of the transitions.
LEMMA MovesData ==
    ASSUME NEW row \in Row, NEW state \in States
    PROVE  /\ LET new == Moved(row, state, <<>>) IN
              /\ new \in Row /\ new.state = state /\ new.revision = row.revision + 1
              /\ new.answers = row.answers /\ new.spec = row.spec /\ new.digest = row.digest
              /\ (new.bundle <=> row.bundle)
           /\ \A kept \in SUBSET Fields :
              LET new == Moved(row, state, [answers |-> kept]) IN
              /\ new \in Row /\ new.state = state /\ new.revision = row.revision + 1
              /\ new.answers = kept /\ new.spec = row.spec /\ new.digest = row.digest
              /\ (new.bundle <=> row.bundle)
           /\ \A p \in Plans \cup {NoPlan} :
              LET new == Moved(row, state, [spec |-> p]) IN
              /\ new \in Row /\ new.state = state /\ new.revision = row.revision + 1
              /\ new.answers = row.answers /\ new.spec = p /\ new.digest = row.digest
              /\ (new.bundle <=> row.bundle)
           /\ \A p \in Plans \cup {NoPlan} :
              LET new == Moved(row, state, [digest |-> p]) IN
              /\ new \in Row /\ new.state = state /\ new.revision = row.revision + 1
              /\ new.answers = row.answers /\ new.spec = row.spec /\ new.digest = p
              /\ (new.bundle <=> row.bundle)
           /\ \A p \in Plans \cup {NoPlan} :
              LET new == Moved(row, state, [job |-> p]) IN
              /\ new \in Row /\ new.state = state /\ new.revision = row.revision + 1
              /\ new.answers = row.answers /\ new.spec = row.spec /\ new.digest = row.digest
              /\ (new.bundle <=> row.bundle)
           /\ LET new == Moved(row, state, [bundle |-> TRUE]) IN
              /\ new \in Row /\ new.state = state /\ new.revision = row.revision + 1
              /\ new.answers = row.answers /\ new.spec = row.spec /\ new.digest = row.digest
              /\ new.bundle
<1>0. /\ row.answers \in SUBSET Fields /\ row.spec \in Plans \cup {NoPlan}
      /\ row.digest \in Plans \cup {NoPlan} /\ row.job \in Plans \cup {NoPlan}
      /\ row.bundle \in BOOLEAN
  BY DEF Row
<1>1. DOMAIN <<>> = {}
  OBVIOUS
<1>2. LET new == Moved(row, state, <<>>) IN
      /\ new \in Row /\ new.state = state /\ new.revision = row.revision + 1
      /\ new.answers = row.answers /\ new.spec = row.spec /\ new.digest = row.digest
      /\ (new.bundle <=> row.bundle)
  BY <1>0, <1>1, MovedRow
<1>3. ASSUME NEW kept \in SUBSET Fields
      PROVE  LET new == Moved(row, state, [answers |-> kept]) IN
      /\ new \in Row /\ new.state = state /\ new.revision = row.revision + 1
      /\ new.answers = kept /\ new.spec = row.spec /\ new.digest = row.digest
      /\ (new.bundle <=> row.bundle)
  <2>1. DOMAIN [answers |-> kept] = {"answers"} /\ [answers |-> kept].answers = kept
    OBVIOUS
  <2>2. QED
    BY <1>0, <2>1, MovedRow
<1>4. ASSUME NEW p \in Plans \cup {NoPlan}
      PROVE  LET new == Moved(row, state, [spec |-> p]) IN
      /\ new \in Row /\ new.state = state /\ new.revision = row.revision + 1
      /\ new.answers = row.answers /\ new.spec = p /\ new.digest = row.digest
      /\ (new.bundle <=> row.bundle)
  <2>1. DOMAIN [spec |-> p] = {"spec"} /\ [spec |-> p].spec = p
    OBVIOUS
  <2>2. QED
    BY <1>0, <2>1, MovedRow
<1>5. ASSUME NEW p \in Plans \cup {NoPlan}
      PROVE  LET new == Moved(row, state, [digest |-> p]) IN
      /\ new \in Row /\ new.state = state /\ new.revision = row.revision + 1
      /\ new.answers = row.answers /\ new.spec = row.spec /\ new.digest = p
      /\ (new.bundle <=> row.bundle)
  <2>1. DOMAIN [digest |-> p] = {"digest"} /\ [digest |-> p].digest = p
    OBVIOUS
  <2>2. QED
    BY <1>0, <2>1, MovedRow
<1>6. ASSUME NEW p \in Plans \cup {NoPlan}
      PROVE  LET new == Moved(row, state, [job |-> p]) IN
      /\ new \in Row /\ new.state = state /\ new.revision = row.revision + 1
      /\ new.answers = row.answers /\ new.spec = row.spec /\ new.digest = row.digest
      /\ (new.bundle <=> row.bundle)
  <2>1. DOMAIN [job |-> p] = {"job"} /\ [job |-> p].job = p
    OBVIOUS
  <2>2. QED
    BY <1>0, <2>1, MovedRow
<1>7. LET new == Moved(row, state, [bundle |-> TRUE]) IN
      /\ new \in Row /\ new.state = state /\ new.revision = row.revision + 1
      /\ new.answers = row.answers /\ new.spec = row.spec /\ new.digest = row.digest
      /\ new.bundle
  <2> DEFINE data == [bundle |-> TRUE]
             new == Moved(row, state, data)
  <2>1. DOMAIN data = {"bundle"} /\ data.bundle
    OBVIOUS
  <2>2. "state" \notin DOMAIN data /\ "revision" \notin DOMAIN data
    BY <2>1
  <2> HIDE DEF data
  <2>3. /\ new.state = state /\ new.revision = row.revision + 1
        /\ new.answers = row.answers /\ new.spec = row.spec /\ new.digest = row.digest
        /\ new.job = row.job
    BY <2>1, <2>2, MovedRow
  <2>4. new.bundle = data.bundle
    BY <2>1, <2>2, MovedRow
  <2>5. new.bundle \in BOOLEAN /\ new.bundle
    BY <2>1, <2>4
  <2>6. new \in Row
    BY <1>0, <2>2, <2>3, <2>5, MovedRow
  <2>7. QED
    BY <2>3, <2>5, <2>6 DEF data
<1>8. QED
  BY <1>2, <1>3, <1>4, <1>5, <1>6, <1>7

----------------------------------------------------------------------------
(* The transitions an owner or a racer asks for *)

\* Such a transition is legal, keeps the answers, and leaves a request that is as sound.
Advances(q, step, rest) ==
    /\ step.what \in LegalTransitions[rows[q].state]
    /\ rows'[q] \in Row /\ rows'[q].revision = rows[q].revision + 1
    /\ rows[q].answers \subseteq rows'[q].answers
    /\ Sound(q)' /\ (rest # <<>> => Owns(q, rest)')

\* What owners and racers ask for advances their request.
LEMMA MovesAdvance ==
    ASSUME IInv, NEW q \in Requests, NEW step, NEW rest,
           OwnerMove(q, step, rest) \/ (q \in known /\ RacerMove(rows[q], step, rest)),
           rows'[q] = Moved(rows[q], step.what, step.data),
           UNCHANGED <<ledger, compiled, ran, bundles>>,
           known' = IF rest = <<>> THEN known \cup {q} ELSE known
    PROVE  Advances(q, step, rest)
<1> DEFINE r == rows'[q]
<1>0. /\ rows[q] \in Row /\ bundles[q] \in Bundle /\ ledger[q] \in Seq(Event)
      /\ ran[q] \in Seq(Plans \cup {NoPlan}) /\ compiled[q] \in Plans \cup {NoPlan}
      /\ Sound(q) /\ rows[q].spec \in Plans \cup {NoPlan}
  BY DEF IInv, Types, Row
<1> USE ConstantsAssumption
<1>1. ASSUME rows[q].state = "requested", q \notin known,
             step = Move("needs_clarification", <<>>),
             rest = << Log("clarification_required") >>
      PROVE  Advances(q, step, rest)
  <2>1. /\ step.what = "needs_clarification"
        /\ step.data = <<>>
        /\ "needs_clarification" \in States
    BY <1>1, StepKinds DEF States
  <2>2. /\ r \in Row /\ r.state = "needs_clarification" /\ r.revision = rows[q].revision + 1
        /\ r.answers = rows[q].answers /\ r.spec = rows[q].spec /\ r.digest = rows[q].digest
        /\ (r.bundle <=> rows[q].bundle)
    BY <1>0, <1>1, <2>1, MovesData
  <2>3. step.what \in LegalTransitions[rows[q].state] /\ rows[q].answers \subseteq r.answers
    BY <1>1, <2>1, <2>2 DEF LegalTransitions
  <2>4. Chained(q)' /\ r.state # "none"
    BY <1>0, <1>1, <2>2 DEF Sound, Chained
  <2>5. DigestAgrees(q)'
    BY <1>0, <1>1, <2>2 DEF Sound, DigestAgrees
  <2>6. ApprovalComesFirst(q)'
    BY <1>0, <1>1, <2>2 DEF Sound, DigestAgrees, ApprovalComesFirst, ApprovedOnce, Approvals
  <2>7. BundleComesLast(q)'
    BY <1>0, <1>1, <2>2 DEF Sound, BundleComesLast, LastIs, Unbundled, Bundle
  <2>8. Asking(q, rest)'
    BY <1>0, <1>1, <2>2 DEF Asking
  <2>9. Owns(q, rest)'
    BY <2>8 DEF Owns
  <2>10. QED
    BY <1>1, <2>2, <2>3, <2>4, <2>5, <2>6, <2>7, <2>9 DEF Advances, Sound
<1>2. ASSUME rows[q].state = "requested", q \notin known,
             step = Move("spec_drafted", <<>>),
             rest = << Propose(1) >>
      PROVE  Advances(q, step, rest)
  <2>1. step.what = "spec_drafted" /\ step.data = <<>> /\ "spec_drafted" \in States
    BY <1>2, StepKinds DEF States
  <2>2. /\ r \in Row /\ r.state = "spec_drafted" /\ r.revision = rows[q].revision + 1
        /\ r.answers = rows[q].answers /\ r.spec = rows[q].spec /\ r.digest = rows[q].digest
        /\ (r.bundle <=> rows[q].bundle)
    BY <1>0, <1>2, <2>1, MovesData
  <2>3. step.what \in LegalTransitions[rows[q].state] /\ rows[q].answers \subseteq r.answers
    BY <1>2, <2>1, <2>2 DEF LegalTransitions
  <2>4. Chained(q)' /\ r.state # "none"
    BY <1>0, <1>2, <2>2 DEF Sound, Chained
  <2>5. DigestAgrees(q)'
    BY <1>0, <1>2, <2>2 DEF Sound, DigestAgrees
  <2>6. ApprovalComesFirst(q)'
    BY <1>0, <1>2, <2>2 DEF Sound, DigestAgrees, ApprovalComesFirst, ApprovedOnce, Approvals
  <2>7. BundleComesLast(q)'
    BY <1>0, <1>2, <2>2 DEF Sound, BundleComesLast, LastIs, Unbundled, Bundle
  <2>8. Proposing(q, rest)'
    BY <1>0, <1>2, <2>2 DEF Proposing
  <2>9. Owns(q, rest)'
    BY <2>8 DEF Owns
  <2>10. QED
    BY <1>2, <2>2, <2>3, <2>4, <2>5, <2>6, <2>7, <2>9 DEF Advances, Sound
<1>3. ASSUME rows[q].state = "spec_drafted",
             step = Move("failed", <<>>),
             rest = << Log("failed") >>
      PROVE  Advances(q, step, rest)
  <2>1. step.what = "failed" /\ step.data = <<>> /\ "failed" \in States
    BY <1>3, StepKinds DEF States
  <2>2. /\ r \in Row /\ r.state = "failed" /\ r.revision = rows[q].revision + 1
        /\ r.answers = rows[q].answers /\ r.spec = rows[q].spec /\ r.digest = rows[q].digest
        /\ (r.bundle <=> rows[q].bundle)
    BY <1>0, <1>3, <2>1, MovesData
  <2>3. step.what \in LegalTransitions[rows[q].state] /\ rows[q].answers \subseteq r.answers
    BY <1>3, <2>1, <2>2 DEF LegalTransitions
  <2>4. Chained(q)' /\ r.state # "none"
    BY <1>0, <1>3, <2>2 DEF Sound, Chained
  <2>5. DigestAgrees(q)'
    BY <1>0, <1>3, <2>2 DEF Sound, DigestAgrees
  <2>6. ApprovalComesFirst(q)'
    BY <1>0, <1>3, <2>2 DEF Sound, DigestAgrees, ApprovalComesFirst, ApprovedOnce, Approvals
  <2>7. BundleComesLast(q)'
    BY <1>0, <1>3, <2>2 DEF Sound, BundleComesLast, LastIs, Unbundled, Bundle
  <2>8. Refusing(q, rest)'
    BY <1>0, <1>3, <2>2 DEF Refusing, BundleComesLast, Sound, Unbundled
  <2>9. Owns(q, rest)'
    BY <2>8 DEF Owns
  <2>10. QED
    BY <1>3, <2>2, <2>3, <2>4, <2>5, <2>6, <2>7, <2>9 DEF Advances, Sound
<1>4. ASSUME rows[q].state = "spec_drafted",
             step = Move("needs_clarification", <<>>),
             rest = <<>>
      PROVE  Advances(q, step, rest)
  <2>1. /\ step.what = "needs_clarification"
        /\ step.data = <<>>
        /\ "needs_clarification" \in States
    BY <1>4, StepKinds DEF States
  <2>2. /\ r \in Row /\ r.state = "needs_clarification" /\ r.revision = rows[q].revision + 1
        /\ r.answers = rows[q].answers /\ r.spec = rows[q].spec /\ r.digest = rows[q].digest
        /\ (r.bundle <=> rows[q].bundle)
    BY <1>0, <1>4, <2>1, MovesData
  <2>3. step.what \in LegalTransitions[rows[q].state] /\ rows[q].answers \subseteq r.answers
    BY <1>4, <2>1, <2>2 DEF LegalTransitions
  <2>4. Chained(q)' /\ r.state # "none"
    BY <1>0, <1>4, <2>2 DEF Sound, Chained
  <2>5. DigestAgrees(q)'
    BY <1>0, <1>4, <2>2 DEF Sound, DigestAgrees
  <2>6. ApprovalComesFirst(q)'
    BY <1>0, <1>4, <2>2 DEF Sound, DigestAgrees, ApprovalComesFirst, ApprovedOnce, Approvals
  <2>7. BundleComesLast(q)'
    BY <1>0, <1>4, <2>2 DEF Sound, BundleComesLast, LastIs, Unbundled, Bundle
  <2>8. QED
    BY <1>4, <2>2, <2>3, <2>4, <2>5, <2>6, <2>7 DEF Advances, Sound
<1>5. ASSUME NEW p \in Plans, rows[q].state = "spec_drafted",
             step = Move("spec_validated", [spec |-> p]),
             rest = << Log("spec_drafted"), Log("validated"),
             Move("user_confirmation_required", [digest |-> p]) >>
      PROVE  Advances(q, step, rest)
  <2>1. step.what = "spec_validated" /\ step.data = [spec |-> p] /\ "spec_validated" \in States
    BY <1>5, StepKinds DEF States
  <2>2. /\ r \in Row /\ r.state = "spec_validated" /\ r.revision = rows[q].revision + 1
        /\ r.answers = rows[q].answers /\ r.spec = p /\ r.digest = rows[q].digest
        /\ (r.bundle <=> rows[q].bundle)
    <3>1. p \in Plans \cup {NoPlan} /\ r = Moved(rows[q], "spec_validated", [spec |-> p])
      BY <1>5, <2>1
    <3>2. QED
      BY <1>0, <2>1, <3>1, MovesData
  <2>3. step.what \in LegalTransitions[rows[q].state] /\ rows[q].answers \subseteq r.answers
    BY <1>5, <2>1, <2>2 DEF LegalTransitions
  <2>4. Chained(q)' /\ r.state # "none"
    BY <1>0, <1>5, <2>2 DEF Sound, Chained
  <2>5. DigestAgrees(q)'
    BY <1>0, <1>5, <2>2 DEF Sound, DigestAgrees
  <2>6. ApprovalComesFirst(q)'
    BY <1>0, <1>5, <2>2 DEF Sound, DigestAgrees, ApprovalComesFirst, ApprovedOnce, Approvals
  <2>7. BundleComesLast(q)'
    BY <1>0, <1>5, <2>2 DEF Sound, BundleComesLast, LastIs, Unbundled, Bundle
  <2>8. Drafting(q, rest)'
    BY <1>0, <1>5, <2>2 DEF Drafting
  <2>9. Owns(q, rest)'
    BY <2>8 DEF Owns
  <2>10. QED
    BY <1>5, <2>2, <2>3, <2>4, <2>5, <2>6, <2>7, <2>9 DEF Advances, Sound
<1>6. ASSUME rows[q].state = "spec_validated",
             step = Move("user_confirmation_required", [digest |-> rows[q].spec]),
             rest = <<>>
      PROVE  Advances(q, step, rest)
  <2>1. /\ step.what = "user_confirmation_required"
        /\ step.data = [digest |-> rows[q].spec]
        /\ "user_confirmation_required" \in States
    BY <1>6, StepKinds DEF States
  <2>2. /\ r \in Row /\ r.state = "user_confirmation_required"
        /\ r.revision = rows[q].revision + 1
        /\ r.answers = rows[q].answers /\ r.spec = rows[q].spec /\ r.digest = rows[q].spec
        /\ (r.bundle <=> rows[q].bundle)
    BY SMTT(30), <1>0, <1>6, <2>1, MovesData
  <2>3. step.what \in LegalTransitions[rows[q].state] /\ rows[q].answers \subseteq r.answers
    BY <1>6, <2>1, <2>2 DEF LegalTransitions
  <2>4. Chained(q)' /\ r.state # "none"
    BY <1>0, <1>6, <2>2 DEF Sound, Chained
  <2>5. DigestAgrees(q)'
    BY <1>0, <1>6, <2>2 DEF Sound, DigestAgrees
  <2>6. ApprovalComesFirst(q)'
    BY <1>0, <1>6, <2>2 DEF Sound, DigestAgrees, ApprovalComesFirst, ApprovedOnce, Approvals
  <2>7. BundleComesLast(q)'
    BY <1>0, <1>6, <2>2 DEF Sound, BundleComesLast, LastIs, Unbundled, Bundle
  <2>8. QED
    BY <1>6, <2>2, <2>3, <2>4, <2>5, <2>6, <2>7 DEF Advances, Sound
<1>7. ASSUME rows[q].state = "user_confirmation_required", compiled[q] # NoPlan, ApprovedOnce(q),
             step = Move("compiled", [job |-> rows[q].spec]),
             rest = <<>>
      PROVE  Advances(q, step, rest)
  <2>1. step.what = "compiled" /\ step.data = [job |-> rows[q].spec] /\ "compiled" \in States
    BY <1>7, StepKinds DEF States
  <2>2. /\ r \in Row /\ r.state = "compiled" /\ r.revision = rows[q].revision + 1
        /\ r.answers = rows[q].answers /\ r.spec = rows[q].spec /\ r.digest = rows[q].digest
        /\ (r.bundle <=> rows[q].bundle)
    BY SMTT(30), <1>0, <1>7, <2>1, MovesData
  <2>3. step.what \in LegalTransitions[rows[q].state] /\ rows[q].answers \subseteq r.answers
    BY <1>7, <2>1, <2>2 DEF LegalTransitions
  <2>4. Chained(q)' /\ r.state # "none"
    BY <1>0, <1>7, <2>2 DEF Sound, Chained
  <2>5. DigestAgrees(q)'
    BY <1>0, <1>7, <2>2 DEF Sound, DigestAgrees
  <2>6. ApprovalComesFirst(q)'
    BY <1>0, <1>7, <2>2 DEF Sound, DigestAgrees, ApprovalComesFirst, ApprovedOnce, Approvals
  <2>7. BundleComesLast(q)'
    BY <1>0, <1>7, <2>2 DEF Sound, BundleComesLast, LastIs, Unbundled, Bundle
  <2>8. QED
    BY <1>7, <2>2, <2>3, <2>4, <2>5, <2>6, <2>7 DEF Advances, Sound
<1>8. ASSUME rows[q].state = "running",
             step = Move("failed", <<>>),
             rest = <<>>
      PROVE  Advances(q, step, rest)
  <2>1. step.what = "failed" /\ step.data = <<>> /\ "failed" \in States
    BY <1>8, StepKinds DEF States
  <2>2. /\ r \in Row /\ r.state = "failed" /\ r.revision = rows[q].revision + 1
        /\ r.answers = rows[q].answers /\ r.spec = rows[q].spec /\ r.digest = rows[q].digest
        /\ (r.bundle <=> rows[q].bundle)
    BY <1>0, <1>8, <2>1, MovesData
  <2>3. step.what \in LegalTransitions[rows[q].state] /\ rows[q].answers \subseteq r.answers
    BY <1>8, <2>1, <2>2 DEF LegalTransitions
  <2>4. Chained(q)' /\ r.state # "none"
    BY <1>0, <1>8, <2>2 DEF Sound, Chained
  <2>5. DigestAgrees(q)'
    BY <1>0, <1>8, <2>2 DEF Sound, DigestAgrees
  <2>6. ApprovalComesFirst(q)'
    BY <1>0, <1>8, <2>2 DEF Sound, DigestAgrees, ApprovalComesFirst, ApprovedOnce, Approvals
  <2>7. BundleComesLast(q)'
    BY <1>0, <1>8, <2>2 DEF Sound, BundleComesLast, LastIs, Unbundled, Bundle
  <2>8. QED
    BY <1>8, <2>2, <2>3, <2>4, <2>5, <2>6, <2>7 DEF Advances, Sound
<1>9. ASSUME NEW v \in {"completed", "failed"}, rows[q].state = "running",
             step = Move("validating", <<>>),
             rest = << Log(v), Do("stage"), Do("collect"), Do("publish"), Move(v,
             [bundle |-> TRUE]) >>
      PROVE  Advances(q, step, rest)
  <2>1. step.what = "validating" /\ step.data = <<>> /\ "validating" \in States
    BY <1>9, StepKinds DEF States
  <2>2. /\ r \in Row /\ r.state = "validating" /\ r.revision = rows[q].revision + 1
        /\ r.answers = rows[q].answers /\ r.spec = rows[q].spec /\ r.digest = rows[q].digest
        /\ (r.bundle <=> rows[q].bundle)
    BY <1>0, <1>9, <2>1, MovesData
  <2>3. step.what \in LegalTransitions[rows[q].state] /\ rows[q].answers \subseteq r.answers
    BY <1>9, <2>1, <2>2 DEF LegalTransitions
  <2>4. Chained(q)' /\ r.state # "none"
    BY <1>0, <1>9, <2>2 DEF Sound, Chained
  <2>5. DigestAgrees(q)'
    BY <1>0, <1>9, <2>2 DEF Sound, DigestAgrees
  <2>6. ApprovalComesFirst(q)'
    BY <1>0, <1>9, <2>2 DEF Sound, DigestAgrees, ApprovalComesFirst, ApprovedOnce, Approvals
  <2>7. BundleComesLast(q)'
    BY <1>0, <1>9, <2>2 DEF Sound, BundleComesLast, LastIs, Unbundled, Bundle
  <2>8. Bundling(q, rest)'
    BY <1>0, <1>9, <2>2 DEF Bundling, BundleComesLast, Sound, Unbundled
  <2>9. Owns(q, rest)'
    BY <2>8 DEF Owns
  <2>10. QED
    BY <1>9, <2>2, <2>3, <2>4, <2>5, <2>6, <2>7, <2>9 DEF Advances, Sound
<1>10. ASSUME NEW v \in {"completed", "failed"},
             rows[q].state = "validating", bundles[q].place = "final", LastIs(q, v),
             step = Move(v, [bundle |-> TRUE]),
             rest = <<>>
      PROVE  Advances(q, step, rest)
  <2>1. step.what = v /\ step.data = [bundle |-> TRUE] /\ v \in States
    BY <1>10, StepKinds DEF States
  <2>2. /\ r \in Row /\ r.state = v /\ r.revision = rows[q].revision + 1
        /\ r.answers = rows[q].answers /\ r.spec = rows[q].spec /\ r.digest = rows[q].digest
        /\ r.bundle
    BY SMTT(30), <1>0, <1>10, <2>1, MovesData
  <2>3. step.what \in LegalTransitions[rows[q].state] /\ rows[q].answers \subseteq r.answers
    BY <1>10, <2>1, <2>2 DEF LegalTransitions
  <2>4. Chained(q)' /\ r.state # "none"
    BY <1>0, <1>10, <2>2 DEF Sound, Chained
  <2>5. DigestAgrees(q)'
    BY <1>0, <1>10, <2>2 DEF Sound, DigestAgrees
  <2>6. ApprovalComesFirst(q)'
    BY <1>0, <1>10, <2>2 DEF Sound, DigestAgrees, ApprovalComesFirst, ApprovedOnce, Approvals
  <2>7. BundleComesLast(q)'
    BY <1>0, <1>10, <2>2 DEF Sound, BundleComesLast, LastIs, Unbundled, Bundle
  <2>8. QED
    BY <1>10, <2>2, <2>3, <2>4, <2>5, <2>6, <2>7 DEF Advances, Sound
<1>11. ASSUME NEW kept \in SUBSET Fields,
             rows[q].state = "needs_clarification", rows[q].answers \subseteq kept,
             step = Move("needs_clarification", [answers |-> kept]),
             rest = <<>>
      PROVE  Advances(q, step, rest)
  <2>1. /\ step.what = "needs_clarification"
        /\ step.data = [answers |-> kept]
        /\ "needs_clarification" \in States
    BY <1>11, StepKinds DEF States
  <2>2. /\ r \in Row /\ r.state = "needs_clarification" /\ r.revision = rows[q].revision + 1
        /\ r.answers = kept /\ r.spec = rows[q].spec /\ r.digest = rows[q].digest
        /\ (r.bundle <=> rows[q].bundle)
    BY <1>0, <1>11, <2>1, MovesData
  <2>3. step.what \in LegalTransitions[rows[q].state] /\ rows[q].answers \subseteq r.answers
    BY <1>11, <2>1, <2>2 DEF LegalTransitions
  <2>4. Chained(q)' /\ r.state # "none"
    BY <1>0, <1>11, <2>2 DEF Sound, Chained
  <2>5. DigestAgrees(q)'
    BY <1>0, <1>11, <2>2 DEF Sound, DigestAgrees
  <2>6. ApprovalComesFirst(q)'
    BY <1>0, <1>11, <2>2 DEF Sound, DigestAgrees, ApprovalComesFirst, ApprovedOnce, Approvals
  <2>7. BundleComesLast(q)'
    BY <1>0, <1>11, <2>2 DEF Sound, BundleComesLast, LastIs, Unbundled, Bundle
  <2>8. QED
    BY <1>11, <2>2, <2>3, <2>4, <2>5, <2>6, <2>7 DEF Advances, Sound
<1>12. ASSUME NEW kept \in SUBSET Fields,
             rows[q].state = "needs_clarification", rows[q].answers \subseteq kept,
             step = Move("spec_drafted", [answers |-> kept]),
             rest = << Propose(1) >>
      PROVE  Advances(q, step, rest)
  <2>1. /\ step.what = "spec_drafted"
        /\ step.data = [answers |-> kept]
        /\ "spec_drafted" \in States
    BY <1>12, StepKinds DEF States
  <2>2. /\ r \in Row /\ r.state = "spec_drafted" /\ r.revision = rows[q].revision + 1
        /\ r.answers = kept /\ r.spec = rows[q].spec /\ r.digest = rows[q].digest
        /\ (r.bundle <=> rows[q].bundle)
    BY <1>0, <1>12, <2>1, MovesData
  <2>3. step.what \in LegalTransitions[rows[q].state] /\ rows[q].answers \subseteq r.answers
    BY <1>12, <2>1, <2>2 DEF LegalTransitions
  <2>4. Chained(q)' /\ r.state # "none"
    BY <1>0, <1>12, <2>2 DEF Sound, Chained
  <2>5. DigestAgrees(q)'
    BY <1>0, <1>12, <2>2 DEF Sound, DigestAgrees
  <2>6. ApprovalComesFirst(q)'
    BY <1>0, <1>12, <2>2 DEF Sound, DigestAgrees, ApprovalComesFirst, ApprovedOnce, Approvals
  <2>7. BundleComesLast(q)'
    BY <1>0, <1>12, <2>2 DEF Sound, BundleComesLast, LastIs, Unbundled, Bundle
  <2>8. Proposing(q, rest)'
    BY <1>0, <1>12, <2>2 DEF Proposing
  <2>9. Owns(q, rest)'
    BY <2>8 DEF Owns
  <2>10. QED
    BY <1>12, <2>2, <2>3, <2>4, <2>5, <2>6, <2>7, <2>9 DEF Advances, Sound
<1>13. ASSUME rows[q].state = "compiled",
             step = Move("running", <<>>),
             rest = << Log("started"), Do("run") >>
      PROVE  Advances(q, step, rest)
  <2>1. step.what = "running" /\ step.data = <<>> /\ "running" \in States
    BY <1>13, StepKinds DEF States
  <2>2. /\ r \in Row /\ r.state = "running" /\ r.revision = rows[q].revision + 1
        /\ r.answers = rows[q].answers /\ r.spec = rows[q].spec /\ r.digest = rows[q].digest
        /\ (r.bundle <=> rows[q].bundle)
    BY <1>0, <1>13, <2>1, MovesData
  <2>3. step.what \in LegalTransitions[rows[q].state] /\ rows[q].answers \subseteq r.answers
    BY <1>13, <2>1, <2>2 DEF LegalTransitions
  <2>4. Chained(q)' /\ r.state # "none"
    BY <1>0, <1>13, <2>2 DEF Sound, Chained
  <2>5. DigestAgrees(q)'
    BY <1>0, <1>13, <2>2 DEF Sound, DigestAgrees
  <2>6. ApprovalComesFirst(q)'
    BY <1>0, <1>13, <2>2 DEF Sound, DigestAgrees, ApprovalComesFirst, ApprovedOnce, Approvals
  <2>7. BundleComesLast(q)'
    BY <1>0, <1>13, <2>2 DEF Sound, BundleComesLast, LastIs, Unbundled, Bundle
  <2>8. Running(q, rest)'
    BY <1>0, <1>13, <2>2 DEF Running, ApprovalComesFirst, Sound
  <2>9. Owns(q, rest)'
    BY <2>8 DEF Owns
  <2>10. QED
    BY <1>13, <2>2, <2>3, <2>4, <2>5, <2>6, <2>7, <2>9 DEF Advances, Sound
<1>14. QED
  BY <1>1, <1>2, <1>3, <1>4, <1>5, <1>6, <1>7, <1>8, <1>9, <1>10, <1>11, <1>12, <1>13
     DEF OwnerMove, RacerMove

\* A handler that is not in an append has read nothing.
LEMMA NoLines ==
    ASSUME IInv, NEW h \in Handlers, ~ At(h, "log")
    PROVE  lines[h] = 0
  BY DEF IInv, Types, ReadersAreCurrent, Current

\* What owners and racers ask for is in the store's table.
LEMMA LegalMoves ==
    ASSUME NEW q, NEW step, NEW rest,
           OwnerMove(q, step, rest) \/ RacerMove(rows[q], step, rest)
    PROVE  step.what \in LegalTransitions[rows[q].state]
<1> USE StepKinds
<1>1. CASE OwnerMove(q, step, rest)
  <2>1. CASE rows[q].state = "requested"
    <3>1. step.what \in {"needs_clarification", "spec_drafted"}
      BY <1>1, <2>1 DEF OwnerMove
    <3>2. QED
      BY <2>1, <3>1 DEF LegalTransitions
  <2>2. CASE rows[q].state = "spec_drafted"
    <3>1. step.what \in {"failed", "needs_clarification", "spec_validated"}
      <4>1. \/ step \in {Move("failed", <<>>), Move("needs_clarification", <<>>)}
            \/ \E p \in Plans : step = Move("spec_validated", [spec |-> p])
        BY <1>1, <2>2 DEF OwnerMove
      <4>2. ASSUME NEW p \in Plans, step = Move("spec_validated", [spec |-> p])
            PROVE  step.what = "spec_validated"
        BY <4>2
      <4>3. CASE step \in {Move("failed", <<>>), Move("needs_clarification", <<>>)}
        BY <4>3
      <4>4. CASE \E p \in Plans : step = Move("spec_validated", [spec |-> p])
        <5>1. step.what = "spec_validated"
          BY <4>2, <4>4
        <5>2. QED
          BY <5>1
      <4>5. QED
        BY <4>1, <4>3, <4>4
    <3>2. QED
      BY <2>2, <3>1 DEF LegalTransitions
  <2>3. CASE rows[q].state = "spec_validated"
    <3>1. step.what \in {"user_confirmation_required"}
      BY <1>1, <2>3 DEF OwnerMove
    <3>2. QED
      BY <2>3, <3>1 DEF LegalTransitions
  <2>4. CASE rows[q].state = "user_confirmation_required"
    <3>1. step.what \in {"compiled"}
      BY <1>1, <2>4 DEF OwnerMove
    <3>2. QED
      BY <2>4, <3>1 DEF LegalTransitions
  <2>5. CASE rows[q].state = "running"
    <3>1. step.what \in {"failed", "validating"}
      BY <1>1, <2>5 DEF OwnerMove
    <3>2. QED
      BY <2>5, <3>1 DEF LegalTransitions
  <2>6. CASE rows[q].state = "validating"
    <3>1. step.what \in {"completed", "failed"}
      BY <1>1, <2>6 DEF OwnerMove
    <3>2. QED
      BY <2>6, <3>1 DEF LegalTransitions
  <2>7. QED
    BY <1>1, <2>1, <2>2, <2>3, <2>4, <2>5, <2>6 DEF OwnerMove
<1>2. CASE RacerMove(rows[q], step, rest)
  <2>1. CASE rows[q].state = "needs_clarification"
    <3>1. step.what \in {"needs_clarification", "spec_drafted"}
      <4>1. PICK kept : \/ step = Move("needs_clarification", [answers |-> kept])
                        \/ step = Move("spec_drafted", [answers |-> kept])
        BY <1>2, <2>1 DEF RacerMove
      <4>2. QED
        BY <4>1
    <3>2. QED
      BY <2>1, <3>1 DEF LegalTransitions
  <2>2. CASE rows[q].state = "compiled"
    <3>1. step.what \in {"running"}
      BY <1>2, <2>2 DEF RacerMove
    <3>2. QED
      BY <2>2, <3>1 DEF LegalTransitions
  <2>3. QED
    BY <1>2, <2>1, <2>2 DEF RacerMove
<1>3. QED
  BY <1>1, <1>2

\* A racer whose copy of the row is current may move it: the request has no owner.
LEMMA FreshRacer ==
    ASSUME IInv, NEW h \in Handlers, Racer(h), At(h, "move"), rec[h] = rows[req[h]]
    PROVE  \A g \in Handlers \ {h} : ~ Idle(g) /\ req[g] = req[h] => Racer(g)
<1> SUFFICES ASSUME NEW g \in Handlers \ {h}, ~ Idle(g), req[g] = req[h], ~ Racer(g)
             PROVE  FALSE
  OBVIOUS
<1>1. Owns(req[h], script[g])
  BY DEF IInv, HandlersStand, Owner
<1>2. RacerMove(rows[req[h]], Head(script[h]), Tail(script[h])) /\ req[h] \in known
  BY RacersTry, StepKinds DEF At, RacerCompile, Racer
<1>3. rows[req[h]].state \in {"needs_clarification", "compiled"}
  BY <1>2 DEF RacerMove
<1>4. QED
  BY <1>1, <1>2, <1>3 DEF Owns, Submitting, Asking, Proposing, Refusing, Drafting, Approving,
     Running, Bundling

\* A handler whose copy is current asks for a transition its request is ready for.
LEMMA MoversAreReady ==
    ASSUME IInv, NEW h \in Handlers, At(h, "move"),
           rows[req[h]].revision = rec[h].revision
    PROVE  /\ req[h] \in Requests /\ ~ Idle(h) /\ rec[h] = rows[req[h]]
           /\ \/ OwnerMove(req[h], Head(script[h]), Tail(script[h]))
              \/ /\ req[h] \in known
                 /\ RacerMove(rows[req[h]], Head(script[h]), Tail(script[h]))
           /\ \A g \in Handlers \ {h} : ~ Idle(g) /\ req[g] = req[h] => Racer(g)
<1>1. req[h] \in Requests /\ ~ Idle(h)
  BY BusyHasRequest DEF At
<1>2. CASE Racer(h)
  <2>1. rec[h] = rows[req[h]] /\ req[h] \in known
    BY <1>2 DEF Racer
  <2>2. RacerMove(rec[h], Head(script[h]), Tail(script[h]))
    BY <1>2, RacersTry DEF At
  <2>3. QED
    BY <1>1, <1>2, <2>1, <2>2, FreshRacer
<1>3. CASE ~ Racer(h)
  <2>1. Owner(h) /\ rec[h] = rows[req[h]]
    BY <1>1, <1>3, OthersRace DEF Owner
  <2>2. OwnerAct(req[h], script[h])
    BY <2>1, OwnersAct
  <2>3. OwnerMove(req[h], Head(script[h]), Tail(script[h]))
    BY <2>2 DEF OwnerAct, At
  <2>4. QED
    BY <1>1, <1>3, <2>1, <2>3, OthersRace
<1>4. QED
  BY <1>2, <1>3

\* The transition of a handler whose copy is current.
LEMMA MoveStep ==
    ASSUME IInv, NEW h \in Handlers, At(h, "move"),
           rows[req[h]].revision = rec[h].revision, Transition(h)
    PROVE  /\ IInv'
           /\ \A q \in Requests : rows[q].answers \subseteq rows'[q].answers
<1>1. PICK q : q = req[h]
  OBVIOUS
<1>2. PICK step, rest : step = Head(script[h]) /\ rest = Tail(script[h])
  OBVIOUS
<1>3. /\ q \in Requests /\ ~ Idle(h) /\ rec[h] = rows[q]
      /\ OwnerMove(q, step, rest) \/ (q \in known /\ RacerMove(rows[q], step, rest))
      /\ \A g \in Handlers \ {h} : ~ Idle(g) /\ req[g] = q => Racer(g)
  BY <1>1, <1>2, MoversAreReady
<1>4. PICK new : new = Moved(rows[q], step.what, step.data)
  OBVIOUS
<1>5. Types /\ lines[h] = 0
  BY NoLines, StepKinds DEF IInv, At
<1>6. step.what \in LegalTransitions[rows[q].state]
  BY <1>3, LegalMoves
<1>7. /\ rows' = [rows EXCEPT ![q] = new]
      /\ rec' = [rec EXCEPT ![h] = IF rest = <<>> THEN NoRow ELSE new]
      /\ script' = [script EXCEPT ![h] = rest]
      /\ req' = [req EXCEPT ![h] = IF rest = <<>> THEN NoRequest ELSE @]
      /\ known' = IF rest = <<>> THEN known \cup {q} ELSE known
      /\ UNCHANGED <<lines, lost, ran, crashes, needs, ledger, compiled, bundles>>
  BY <1>1, <1>2, <1>4, <1>6 DEF Transition, Moved
<1>8. rows'[q] = new /\ \A p \in Requests \ {q} : rows'[p] = rows[p]
  BY <1>3, <1>5, <1>7 DEF Types
<1>9. Advances(q, step, rest)
  BY <1>3, <1>4, <1>7, <1>8, MovesAdvance
<1>10. new \in Row /\ new.revision = rows[q].revision + 1 /\ rows[q].revision \in Nat
  BY <1>3, <1>5, <1>8, <1>9 DEF Advances, Types, Row
<1>11. \A g \in Handlers \ {h} : Kept(g)
  BY <1>5, <1>7 DEF Types, Kept, SameScript
<1>12. /\ req'[h] = (IF rest = <<>> THEN NoRequest ELSE q) /\ script'[h] = rest
       /\ rec'[h] = (IF rest = <<>> THEN NoRow ELSE new) /\ lines'[h] = 0
  BY <1>1, <1>5, <1>7 DEF Types
<1>13. \A g \in Handlers : Idle(g)' <=> script'[g] = <<>>
  BY <1>3, <1>5, <1>11, <1>12, ConstantsAssumption DEF Types, Idle, Kept, SameScript
<1>14. Types'
  <2>1. rows' \in [Requests -> Row] /\ known' \subseteq Requests
    BY <1>3, <1>5, <1>7, <1>10 DEF Types
  <2>2. /\ rec' \in [Handlers -> Row] /\ req' \in [Handlers -> Requests \cup {NoRequest}]
        /\ script' = [g \in Handlers |-> script'[g]]
    BY <1>1, <1>3, <1>5, <1>7, <1>10, NoRowIsRow DEF Types
  <2>3. QED
    BY <1>5, <1>7, <1>13, <2>1, <2>2 DEF Types
<1>15. \A p \in Requests \ {q} : Untouched(p)
  BY <1>3, <1>7, <1>8 DEF Untouched
<1>16. MovesOn(q)
  <2>1. rows[q].state = "user_confirmation_required" => compiled[q] # NoPlan
    BY <1>3 DEF OwnerMove, RacerMove
  <2>2. QED
    BY <2>1, <1>7, <1>8, <1>10 DEF MovesOn
<1>17. Idle(h)' \/ (req'[h] = q /\ Owner(h)')
  <2>1. CASE rest = <<>>
    BY <2>1, <1>12 DEF Idle
  <2>2. CASE rest # <<>>
    <3>1. Owns(q, rest)' /\ req'[h] = q /\ script'[h] = rest /\ rec'[h] = rows'[q]
      BY <2>2, <1>8, <1>9, <1>12 DEF Advances
    <3>2. Owns(req[h], script[h])'
      BY <3>1
    <3>3. QED
      BY <1>3, <3>1, <3>2 DEF Owner
  <2>3. QED
    BY <2>1, <2>2
<1>18. Current(h)' /\ Sound(q)'
  BY <1>9, <1>12 DEF Current, Advances
<1>19. IInv'
  BY <1>3, <1>11, <1>14, <1>15, <1>16, <1>17, <1>18, RequestStep
<1>20. \A p \in Requests : rows[p].answers \subseteq rows'[p].answers
  BY <1>8, <1>9 DEF Advances
<1>21. QED
  BY <1>19, <1>20

\* A transition that comes too late is answered, or fails.
LEMMA LateStep ==
    ASSUME IInv, NEW h \in Handlers, At(h, "move"),
           rows[req[h]].revision # rec[h].revision, Transition(h)
    PROVE  IInv' /\ UNCHANGED rows
<1>1. req[h] \in Requests /\ ~ Idle(h)
  BY BusyHasRequest DEF At
<1>2. Racer(h)
  BY <1>1, OthersRace DEF Owner
<1>3. \/ /\ Continue(h, <<>>) /\ UNCHANGED <<rows, lines, lost, ran, crashes>>
         /\ UNCHANGED <<needs, ledger, compiled, bundles>>
      \/ Raise(h) /\ UNCHANGED <<rows, needs, ledger, compiled, bundles>>
  BY DEF Transition
<1>4. CASE /\ Continue(h, <<>>) /\ UNCHANGED <<rows, lines, lost, ran, crashes>>
           /\ UNCHANGED <<needs, ledger, compiled, bundles>>
  <2>1. lines[h] = 0
    BY NoLines DEF At
  <2>2. lines' \in [Handlers -> Nat] /\ \A g \in Handlers \ {h} : lines'[g] = lines[g]
    BY <1>4 DEF IInv, Types
  <2>3. /\ HandlersOK' /\ \A g \in Handlers \ {h} : Kept(g)
        /\ Idle(h)' /\ known' = known \cup {req[h]}
    BY <1>1, <1>4, <2>2, ContinueEffect
  <2>4. known' = known
    BY <1>2, <2>3 DEF Racer
  <2>5. Types'
    BY <1>4, <2>3 DEF IInv, Types, HandlersOK
  <2>6. QED
    BY <1>4, <2>1, <2>3, <2>4, <2>5, QuietStep
<1>5. CASE Raise(h) /\ UNCHANGED <<rows, needs, ledger, compiled, bundles>>
  BY <1>1, <1>5, RaiseStep
<1>6. QED
  BY <1>3, <1>4, <1>5

\* A transition.
LEMMA TransitionStep ==
    ASSUME IInv, NEW h \in Handlers, Transition(h)
    PROVE  /\ IInv'
           /\ \A q \in Requests : rows[q].answers \subseteq rows'[q].answers
<1>1. At(h, "move")
  BY DEF Transition
<1>2. CASE rows[req[h]].revision = rec[h].revision
  BY <1>1, <1>2, MoveStep
<1>3. CASE rows[req[h]].revision # rec[h].revision
  BY <1>1, <1>3, LateStep
<1>4. QED
  BY <1>2, <1>3

----------------------------------------------------------------------------
(* The ledger *)

\* A row appended to a ledger.
LEMMA AppendedRow ==
    ASSUME NEW q \in Requests, ledger[q] \in Seq(Event), NEW event \in Event,
           ledger'[q] = Append(ledger[q], event), rows'[q] = rows[q]
    PROVE  /\ LastIs(q, event.kind)'
           /\ Chained(q) /\ event.sequence = Len(ledger[q]) + 1 => Chained(q)'
           /\ event.kind # "approved" => /\ Approvals(q)' = Approvals(q)
                                         /\ ApprovedOnce(q)' <=> ApprovedOnce(q)
           /\ Approvals(q) = {} /\ event.kind = "approved" /\ event.plan = rows[q].spec =>
                 ApprovedOnce(q)'
<1> DEFINE n == Len(ledger[q])
<1>1. /\ n \in Nat /\ Len(ledger'[q]) = n + 1 /\ ledger'[q][n + 1] = event
      /\ \A i \in 1 .. n : ledger'[q][i] = ledger[q][i]
  OBVIOUS
<1>2. LastIs(q, event.kind)'
  <2>1. ledger'[q] # <<>>
    OBVIOUS
  <2>2. ledger'[q][Len(ledger'[q])].kind = event.kind
    BY <1>1
  <2>3. QED
    BY <2>1, <2>2 DEF LastIs
<1>3. Chained(q) /\ event.sequence = n + 1 => Chained(q)'
  BY <1>1 DEF Chained
<1>4. ASSUME event.kind # "approved"
      PROVE  Approvals(q)' = Approvals(q) /\ (ApprovedOnce(q)' <=> ApprovedOnce(q))
  <2>1. Approvals(q)' = Approvals(q)
    BY <1>1, <1>4 DEF Approvals
  <2>2. \A i \in Approvals(q) : i \in 1 .. n /\ i \in 1 .. (n + 1)
    BY <1>1 DEF Approvals
  <2>3. QED
    BY <1>1, <2>1, <2>2 DEF ApprovedOnce
<1>5. ASSUME Approvals(q) = {}, event.kind = "approved", event.plan = rows[q].spec
      PROVE  ApprovedOnce(q)'
  <2>1. Approvals(q)' = {n + 1}
    BY <1>1, <1>5 DEF Approvals
  <2>2. QED
    BY <1>1, <1>5, <2>1 DEF ApprovedOnce
<1>6. QED
  BY <1>2, <1>3, <1>4, <1>5

\* Whoever appends owns its request, and the bundle has not been begun.
LEMMA LoggersOwn ==
    ASSUME IInv, NEW h \in Handlers, At(h, "log")
    PROVE  /\ req[h] \in Requests /\ ~ Idle(h) /\ Owner(h)
           /\ OwnerLog(req[h], Head(script[h]), Tail(script[h]))
           /\ \A g \in Handlers \ {h} : ~ Idle(g) /\ req[g] = req[h] => Racer(g)
           /\ Unbundled(req[h]) /\ rows[req[h]].state # "none"
<1>1. ~ Idle(h) /\ req[h] \in Requests
  BY BusyHasRequest DEF At
<1>2. ~ Racer(h)
  BY RacersTry DEF At
<1>3. /\ Owner(h)
      /\ \A g \in Handlers \ {h} : ~ Idle(g) /\ req[g] = req[h] => Racer(g)
  BY <1>1, <1>2, OthersRace
<1>4. OwnerLog(req[h], Head(script[h]), Tail(script[h]))
  BY <1>3, OwnersAct DEF OwnerAct, At
<1>5. BundleComesLast(req[h])
  BY <1>1 DEF IInv, Sound
<1>6. Owns(req[h], script[h])
  BY <1>3 DEF Owner
<1>7. rows[req[h]].state \notin {"none", "completed"}
  BY <1>6 DEF Owns, Submitting, Asking, Proposing, Refusing, Drafting, Approving, Running,
     Bundling
<1>8. rows[req[h]].state = "validating" => Unbundled(req[h])
  BY <1>4 DEF OwnerLog
<1>9. rows[req[h]].state = "failed" => Unbundled(req[h])
  BY <1>6 DEF Owns, Submitting, Asking, Proposing, Refusing, Drafting, Approving, Running,
     Bundling
<1>10. QED
  BY <1>1, <1>3, <1>4, <1>5, <1>7, <1>8, <1>9 DEF BundleComesLast

\* A request is as sound after an append, be it whole or torn.
LEMMA LogSound ==
    ASSUME IInv, NEW h \in Handlers, At(h, "log"), NEW q \in Requests, q = req[h],
           NEW event \in Event, ledger'[q] = Append(ledger[q], event),
           event.sequence = Len(ledger[q]) + 1,
           \/ event.kind = "torn"
           \/ event.kind = Head(script[h]).what /\ event.plan = rows[q].spec,
           rows'[q] = rows[q], compiled'[q] = compiled[q], ran'[q] = ran[q],
           bundles'[q] = bundles[q]
    PROVE  Sound(q)'
<1>1. /\ OwnerLog(q, Head(script[h]), Tail(script[h])) /\ Unbundled(q)
      /\ rows[q].state # "none"
  BY LoggersOwn
<1>2. Sound(q) /\ ledger[q] \in Seq(Event)
  BY DEF IInv, Types
<1>3. Chained(q)'
  BY <1>2, AppendedRow DEF Sound
<1>4. DigestAgrees(q)'
  BY <1>2 DEF Sound, DigestAgrees
<1>5. ApprovalComesFirst(q)'
  <2>1. CASE event.kind # "approved"
    BY <1>2, <2>1, AppendedRow DEF Sound, ApprovalComesFirst
  <2>2. CASE event.kind = "approved"
    <3>1. Head(script[h]).what = "approved" /\ event.plan = rows[q].spec
      BY <2>2
    <3>2. compiled[q] # NoPlan /\ Approvals(q) = {}
      BY <1>1, <3>1, StepKinds DEF OwnerLog
    <3>3. ApprovedOnce(q)'
      BY <1>2, <2>2, <3>1, <3>2, AppendedRow
    <3>4. QED
      BY <1>2, <3>2, <3>3 DEF Sound, ApprovalComesFirst
  <2>3. QED
    BY <2>1, <2>2
<1>6. BundleComesLast(q)'
  BY <1>1, <1>2 DEF Sound, BundleComesLast, Unbundled
<1>7. QED
  BY <1>1, <1>3, <1>4, <1>5, <1>6 DEF Sound

\* The owner of a request still owns it after its append.
LEMMA LogOwns ==
    ASSUME NEW q \in Requests, NEW step, NEW rest, OwnerLog(q, step, rest), rest # <<>>,
           ledger[q] \in Seq(Event), Unbundled(q),
           NEW event \in Event, ledger'[q] = Append(ledger[q], event),
           event.kind = step.what, event.plan = rows[q].spec,
           rows'[q] = rows[q], compiled'[q] = compiled[q], ran'[q] = ran[q],
           bundles'[q] = bundles[q], known' = known
    PROVE  Owns(q, rest)'
<1> USE StepKinds
<1>1. CASE event.kind = "approved"
  <2>1. /\ rows[q].state = "user_confirmation_required" /\ compiled[q] # NoPlan
        /\ Approvals(q) = {}
        /\ rest = << Log("compiled"), Move("compiled", [job |-> rows[q].spec]) >>
    BY ZenonT(60), <1>1 DEF OwnerLog
  <2>2. ApprovedOnce(q)'
    BY <1>1, <2>1, AppendedRow
  <2>3. Approving(q, rest)'
    BY <2>1, <2>2 DEF Approving
  <2>4. QED
    BY <2>3 DEF Owns
<1>2. CASE event.kind # "approved" /\ rows[q].state = "validating"
  <2>1. PICK verdict \in {"completed", "failed"} :
           /\ step = Log(verdict)
           /\ rest = << Do("stage"), Do("collect"), Do("publish"),
                        Move(verdict, [bundle |-> TRUE]) >>
    BY <1>2 DEF OwnerLog
  <2>2. LastIs(q, verdict)'
    BY <2>1, AppendedRow
  <2>3. Bundling(q, rest)'
    BY <1>2, <2>1, <2>2 DEF Bundling, Unbundled
  <2>4. QED
    BY <2>3 DEF Owns
<1>3. CASE event.kind # "approved" /\ rows[q].state # "validating"
  <2>1. Owns(q, rest)
    BY <1>3 DEF OwnerLog
  <2>2. ApprovedOnce(q)' <=> ApprovedOnce(q)
    BY <1>3, AppendedRow
  <2>3. Approvals(q)' = Approvals(q)
    BY <1>3, AppendedRow
  <2>4. ~ Bundling(q, rest)
    BY <1>3 DEF Bundling
  <2>5. Submitting(q, rest) => Submitting(q, rest)'
    BY DEF Submitting
  <2>6. Asking(q, rest) => Asking(q, rest)'
    BY DEF Asking
  <2>7. Proposing(q, rest) => Proposing(q, rest)'
    BY DEF Proposing
  <2>8. Refusing(q, rest) => Refusing(q, rest)'
    BY DEF Refusing, Unbundled
  <2>9. Drafting(q, rest) => Drafting(q, rest)'
    BY DEF Drafting
  <2>10. Approving(q, rest) => Approving(q, rest)'
    BY <2>2, <2>3 DEF Approving
  <2>11. Running(q, rest) => Running(q, rest)'
    BY DEF Running
  <2>12. QED
    BY <2>1, <2>4, <2>5, <2>6, <2>7, <2>8, <2>9, <2>10, <2>11 DEF Owns
<1>4. QED
  BY <1>1, <1>2, <1>3

\* The first half of an append.
LEMMA LogReadStep ==
    ASSUME IInv, NEW h \in Handlers, LogRead(h)
    PROVE  IInv' /\ UNCHANGED rows
<1>1. At(h, "log") /\ UNCHANGED <<rows, needs, ledger, compiled, bundles>>
  BY DEF LogRead, disk
<1>2. PICK q \in Requests : q = req[h]
  BY <1>1, LoggersOwn
<1>3. CASE /\ lines' = [lines EXCEPT ![h] = Len(ledger[req[h]]) + 1]
           /\ UNCHANGED <<known, ran, req, rec, script, lost, crashes>>
  <2>1. Types /\ ledger[q] \in Seq(Event)
    BY DEF IInv, Types
  <2>2. Types'
    BY <1>1, <1>2, <1>3, <2>1 DEF Types, Idle
  <2>3. SameScript(h) /\ Untouched(q) /\ \A p \in Requests : Untouched(p)
    BY <1>1, <1>3 DEF SameScript, Untouched
  <2>4. Owner(h)' /\ req'[h] = q
    BY <1>1, <1>2, <1>3, <2>3, LoggersOwn, OwnerStays
  <2>5. Current(h)'
    BY <1>1, <1>3, <2>1 DEF Current, At, Types
  <2>6. \A g \in Handlers \ {h} : Kept(g) /\ (~ Idle(g) /\ req[g] = q => Racer(g))
    BY <1>1, <1>2, <1>3, <2>1, LoggersOwn DEF Kept, SameScript, Types
  <2>7. Sound(q)' /\ MovesOn(q)
    BY <2>3, UntouchedSound DEF IInv, MovesOn, Untouched
  <2>8. QED
    BY <1>1, <2>2, <2>3, <2>4, <2>5, <2>6, <2>7, RequestStep
<1>4. CASE Raise(h)
  BY <1>1, <1>4, RaiseStep, LoggersOwn
<1>5. QED
  BY <1>3, <1>4 DEF LogRead

\* The second half: the handler has read the whole ledger.
LEMMA LogWriteStep ==
    ASSUME IInv, NEW h \in Handlers, LogWrite(h)
    PROVE  IInv' /\ UNCHANGED rows
<1>1. /\ At(h, "log") /\ lines[h] > 0 /\ Continue(h, Tail(script[h]))
      /\ UNCHANGED <<rows, needs, compiled, ran, bundles, lost, crashes>>
      /\ lines' = [lines EXCEPT ![h] = 0]
  BY DEF LogWrite
<1>2. PICK q \in Requests : q = req[h]
  BY <1>1, LoggersOwn
<1>3. PICK step, rest : step = Head(script[h]) /\ rest = Tail(script[h])
  OBVIOUS
<1>4. PICK event : event = [kind |-> step.what, sequence |-> lines[h], plan |-> rec[h].spec]
  OBVIOUS
<1>5. /\ Owner(h) /\ OwnerLog(q, step, rest) /\ Unbundled(q) /\ rec[h] = rows[q]
      /\ \A g \in Handlers \ {h} : ~ Idle(g) /\ req[g] = q => Racer(g)
  BY <1>1, <1>2, <1>3, LoggersOwn DEF Owner
<1>6. Types /\ ledger[q] \in Seq(Event) /\ rows[q] \in Row /\ rows[q].spec \in Plans \cup {NoPlan}
  BY DEF IInv, Types, Row
<1>7. lines[h] = Len(ledger[q]) + 1 /\ lines[h] \in Nat
  BY <1>1, <1>2, <1>6 DEF IInv, ReadersAreCurrent, Current, Types
<1>8. step.what \in Kinds
  BY <1>5, StepKinds DEF OwnerLog, Kinds
<1>9. /\ event \in Event /\ event.kind = step.what /\ event.sequence = Len(ledger[q]) + 1
      /\ event.plan = rows[q].spec
  BY <1>4, <1>5, <1>6, <1>7, <1>8 DEF Event
<1>10. ledger' = [ledger EXCEPT ![q] = Append(@, event)]
  BY <1>2, <1>3, <1>4 DEF LogWrite
<1>11. /\ ledger'[q] = Append(ledger[q], event)
       /\ \A p \in Requests \ {q} : ledger'[p] = ledger[p]
       /\ ledger' \in [Requests -> Seq(Event)]
  BY <1>6, <1>9, <1>10 DEF Types
<1>12. /\ HandlersOK' /\ \A g \in Handlers \ {h} : Kept(g)
       /\ rest = <<>> => Idle(h)' /\ known' = known \cup {q}
       /\ rest # <<>> => /\ req'[h] = q /\ rec'[h] = rec[h] /\ script'[h] = rest
                         /\ ~ Idle(h)' /\ known' = known
  <2>1. lines' \in [Handlers -> Nat] /\ \A g \in Handlers \ {h} : lines'[g] = lines[g]
    BY <1>1, <1>6 DEF Types
  <2>2. Continue(h, rest) /\ UNCHANGED <<lost, crashes>> /\ req[h] \in Requests
    BY <1>1, <1>2, <1>3
  <2>3. /\ HandlersOK' /\ \A g \in Handlers \ {h} : Kept(g)
        /\ rest = <<>> => Idle(h)' /\ known' = known \cup {req[h]}
        /\ rest # <<>> => /\ req'[h] = req[h] /\ rec'[h] = rec[h] /\ script'[h] = rest
                          /\ ~ Idle(h)' /\ known' = known
    BY <2>1, <2>2, ContinueEffect
  <2>4. QED
    BY <1>2, <2>3
<1>13. Types'
  BY <1>1, <1>6, <1>11, <1>12 DEF Types, HandlersOK
<1>14. Sound(q)'
  BY <1>1, <1>2, <1>3, <1>9, <1>11, LogSound
<1>15. Idle(h)' \/ (req'[h] = q /\ Owner(h)')
  <2>1. CASE rest # <<>>
    <3>1. Owns(q, rest)'
      BY <1>1, <1>5, <1>6, <1>9, <1>11, <1>12, <2>1, LogOwns
    <3>2. Owns(req[h], script[h])'
      BY <1>12, <2>1, <3>1
    <3>3. QED
      BY <1>1, <1>5, <1>12, <2>1, <3>2 DEF Owner
  <2>2. QED
    BY <1>12, <2>1
<1>16. \A p \in Requests \ {q} : Untouched(p)
  BY <1>1, <1>11, <1>12 DEF Untouched
<1>17. MovesOn(q)
  BY <1>1, <1>12 DEF MovesOn
<1>18. Current(h)'
  BY <1>1, <1>6 DEF Current, Types
<1>19. QED
  BY <1>1, <1>5, <1>12, <1>13, <1>14, <1>15, <1>16, <1>17, <1>18, RequestStep

----------------------------------------------------------------------------
(* The model, the compiler, the runner and the bundle *)

\* The request of a handler is worked on, and the handler goes on as its owner.
LEMMA OwnerGoesOn ==
    ASSUME IInv, NEW h \in Handlers, NEW q \in Requests, q = req[h], ~ At(h, "log"),
           rec[h] = rows[q], NEW todo, todo # <<>>, Continue(h, todo), Owns(q, todo)',
           \A g \in Handlers \ {h} : ~ Idle(g) /\ req[g] = q => Racer(g),
           \A p \in Requests \ {q} : /\ ledger'[p] = ledger[p] /\ compiled'[p] = compiled[p]
                                     /\ ran'[p] = ran[p] /\ bundles'[p] = bundles[p],
           ledger' \in [Requests -> Seq(Event)],
           compiled' \in [Requests -> Plans \cup {NoPlan}],
           ran' \in [Requests -> Seq(Plans \cup {NoPlan})], bundles' \in [Requests -> Bundle],
           compiled[q] # NoPlan => compiled'[q] # NoPlan, Sound(q)',
           UNCHANGED <<rows, needs, lines, lost, crashes>>
    PROVE  IInv'
<1>1. Types /\ lines[h] = 0
  BY NoLines DEF IInv
<1>2. lines' \in [Handlers -> Nat] /\ \A g \in Handlers \ {h} : lines'[g] = lines[g]
  BY <1>1 DEF Types
<1>3. req[h] \in Requests
  OBVIOUS
<1>4. /\ HandlersOK' /\ \A g \in Handlers \ {h} : Kept(g)
      /\ req'[h] = req[h] /\ rec'[h] = rec[h] /\ script'[h] = todo
      /\ known' = known
  BY <1>2, <1>3, ContinueEffect
<1>5. Types'
  BY <1>1, <1>4 DEF Types, HandlersOK
<1>6. Owns(req[h], script[h])'
  BY <1>4
<1>7. Owner(h)' /\ req'[h] = q
  BY <1>4, <1>6 DEF Owner
<1>8. (\A p \in Requests \ {q} : Untouched(p)) /\ MovesOn(q)
  BY <1>4 DEF Untouched, MovesOn
<1>9. Current(h)'
  BY <1>1 DEF Current
<1>10. QED
  BY <1>4, <1>5, <1>7, <1>8, <1>9, RequestStep

\* Whoever calls the model, the runner or the bundle writer owns its request.
LEMMA CallersOwn ==
    ASSUME IInv, NEW h \in Handlers, script[h] # <<>>,
           Head(script[h]).do \in {"propose", "run", "stage", "collect", "publish"}
    PROVE  /\ req[h] \in Requests /\ ~ Idle(h) /\ rec[h] = rows[req[h]]
           /\ \A g \in Handlers \ {h} : ~ Idle(g) /\ req[g] = req[h] => Racer(g)
           /\ ~ At(h, "log") /\ OwnerAct(req[h], script[h])
<1>1. req[h] \in Requests /\ ~ Idle(h) /\ ~ Racer(h)
  BY BusyHasRequest, RacersTry
<1>2. QED
  BY <1>1, OthersRace, OwnersAct DEF Owner, At

\* The answers of the model.
LEMMA AskModelStep ==
    ASSUME IInv, NEW h \in Handlers, AskModel(h)
    PROVE  IInv' /\ UNCHANGED rows
<1>1. /\ script[h] # <<>> /\ Head(script[h]).do = "propose"
      /\ UNCHANGED <<rows, needs, ledger, compiled, bundles, lines, lost, ran, crashes>>
  BY DEF AskModel, At, disk
<1>2. PICK q \in Requests : q = req[h]
  BY <1>1, CallersOwn
<1>3. /\ rec[h] = rows[q] /\ ~ At(h, "log") /\ rows[q].state = "spec_drafted"
      /\ \A g \in Handlers \ {h} : ~ Idle(g) /\ req[g] = q => Racer(g)
  BY <1>1, <1>2, CallersOwn DEF OwnerAct
<1>4. PICK todo \in Outcomes \cup { << Propose(2) >> } : Continue(h, todo)
  BY DEF AskModel
<1>5. todo # <<>>
  <2>1. CASE \E p \in Plans :
               todo = << Move("spec_validated", [spec |-> p]), Log("spec_drafted"),
                         Log("validated"), Move("user_confirmation_required", [digest |-> p]) >>
    <3>1. PICK p \in Plans :
             todo = << Move("spec_validated", [spec |-> p]), Log("spec_drafted"),
                       Log("validated"), Move("user_confirmation_required", [digest |-> p]) >>
      BY <2>1
    <3>2. QED
      BY <3>1
  <2>2. CASE todo \in { << Move("failed", <<>>), Log("failed") >>,
                        << Move("needs_clarification", <<>>) >>, << Propose(2) >> }
    BY <2>2
  <2>3. QED
    BY <1>4, <2>1, <2>2 DEF Outcomes
<1>6. Proposing(q, todo)'
  BY <1>1, <1>3, <1>4 DEF Proposing
<1>7. Owns(q, todo)'
  BY <1>6 DEF Owns
<1>8. /\ ledger \in [Requests -> Seq(Event)] /\ compiled \in [Requests -> Plans \cup {NoPlan}]
      /\ ran \in [Requests -> Seq(Plans \cup {NoPlan})] /\ bundles \in [Requests -> Bundle]
  BY DEF IInv, Types
<1>9. Sound(q)'
  <2>1. Sound(q) /\ known' = known
    BY <1>4, <1>5 DEF IInv, Continue
  <2>2. QED
    BY <1>1, <2>1, UntouchedSound DEF Untouched
<1>10. QED
  BY <1>1, <1>2, <1>3, <1>4, <1>5, <1>7, <1>8, <1>9, OwnerGoesOn

\* The compiler: only one handler finds the directory new, and it becomes the owner.
LEMMA CompileStep ==
    ASSUME IInv, NEW h \in Handlers, Compile(h)
    PROVE  IInv' /\ UNCHANGED rows
<1>1. At(h, "compile") /\ UNCHANGED <<rows, needs, ledger, bundles>>
  BY DEF Compile
<1>2. req[h] \in Requests /\ ~ Idle(h) /\ Types
  BY <1>1, BusyHasRequest DEF At, IInv
<1>3. PICK q \in Requests : q = req[h]
  BY <1>2
<1>4. Racer(h)
  <2>1. SUFFICES ASSUME Owner(h)  PROVE FALSE
    BY <1>2, OthersRace
  <2>2. OwnerAct(q, script[h])
    BY <1>3, <2>1, OwnersAct
  <2>3. QED
    BY <1>1, <2>2 DEF OwnerAct, At
<1>5. RacerCompile(rec[h], Head(script[h]), Tail(script[h]))
  BY <1>1, <1>4, RacersTry, StepKinds DEF At
<1>6. CASE compiled[q] # NoPlan
  <2>1. Raise(h) /\ UNCHANGED compiled
    BY <1>3, <1>6 DEF Compile
  <2>2. QED
    BY <1>1, <1>2, <2>1, RaiseStep
<1>7. CASE compiled[q] = NoPlan
  <2>1. /\ compiled' = [compiled EXCEPT ![q] = rec[h].spec]
        /\ \/ Continue(h, Tail(script[h])) /\ UNCHANGED <<ran, lines, lost, crashes>>
           \/ Raise(h)
    BY <1>3, <1>7 DEF Compile
  <2>2. /\ rec[h] = rows[q] /\ q \in known
        /\ rows[q].state = "user_confirmation_required" /\ rows[q].revision \in Nat
    BY <1>2, <1>3, <1>4, <1>5, <1>7 DEF Racer, RacerCompile, Types, Row
  <2>3. ASSUME NEW g \in Handlers \ {h}, ~ Idle(g), req[g] = q
        PROVE  Racer(g)
    <3>1. ~ Owns(q, script[g])
      BY <1>7, <2>2 DEF Owns, Submitting, Asking, Proposing, Refusing, Drafting, Approving,
         Running, Bundling
    <3>2. QED
      BY <2>3, <3>1 DEF IInv, HandlersStand, Owner
  <2>4. Sound(q) /\ rows[q].spec \in Plans \cup {NoPlan} /\ rows[q].spec = rows[q].digest
        /\ rows[q].spec # NoPlan
    BY <1>2, <2>2 DEF IInv, Sound, DigestAgrees, Types, Row
  <2>5. /\ compiled' \in [Requests -> Plans \cup {NoPlan}] /\ compiled'[q] = rows[q].spec
        /\ \A p \in Requests \ {q} : compiled'[p] = compiled[p]
    BY <1>2, <2>1, <2>2, <2>4 DEF Types
  <2>6. ran[q] = <<>> /\ Approvals(q) = {}
    BY <1>7, <2>2, <2>4 DEF Sound, ApprovalComesFirst
  <2>7. ASSUME ran'[q] = ran[q]
        PROVE  Sound(q)'
    <3>1. DigestAgrees(q)'
      BY <1>1, <2>4, <2>5 DEF Sound, DigestAgrees
    <3>2. ApprovalComesFirst(q)'
      BY <1>1, <2>2, <2>4, <2>5, <2>6, <2>7 DEF ApprovalComesFirst
    <3>3. BundleComesLast(q)' /\ Chained(q)'
      BY <1>1, <2>4 DEF Sound, BundleComesLast, LastIs, Unbundled, Chained
    <3>4. QED
      BY <1>1, <2>2, <3>1, <3>2, <3>3 DEF Sound
  <2>8. CASE Continue(h, Tail(script[h])) /\ UNCHANGED <<ran, lines, lost, crashes>>
    <3>1. PICK todo : todo = Tail(script[h])
      OBVIOUS
    <3>2. /\ todo = << Log("approved"), Log("compiled"),
                       Move("compiled", [job |-> rows[q].spec]) >>
          /\ todo # <<>>
      BY <1>5, <2>2, <3>1 DEF RacerCompile
    <3>3. Approvals(q)' = {}
      BY <1>1, <2>6 DEF Approvals
    <3>4. Approving(q, todo)'
      BY <1>1, <2>2, <2>4, <2>5, <3>2, <3>3 DEF Approving
    <3>5. Owns(q, todo)'
      BY <3>4 DEF Owns
    <3>6. ~ At(h, "log")
      BY <1>1 DEF At
    <3>7. /\ ledger' \in [Requests -> Seq(Event)] /\ bundles' \in [Requests -> Bundle]
          /\ ran' \in [Requests -> Seq(Plans \cup {NoPlan})]
      BY <1>1, <1>2, <2>8 DEF Types
    <3>8. IInv'
      BY <1>1, <1>3, <1>7, <2>2, <2>3, <2>5, <2>7, <2>8, <3>1, <3>2, <3>5, <3>6, <3>7,
         OwnerGoesOn
    <3>9. QED
      BY <1>1, <3>8
  <2>9. CASE Raise(h)
    <3>1. /\ HandlersOK' /\ \A g \in Handlers \ {h} : Kept(g)
          /\ Idle(h)' /\ lines'[h] = 0 /\ UNCHANGED <<known, ran>>
      BY <1>2, <2>9, RaiseEffect
    <3>2. Types'
      BY <1>1, <1>2, <2>5, <3>1 DEF Types, HandlersOK
    <3>3. (\A p \in Requests \ {q} : Untouched(p)) /\ MovesOn(q) /\ Current(h)'
      BY <1>1, <1>7, <2>5, <3>1 DEF Untouched, MovesOn, Current
    <3>4. IInv'
      BY <2>3, <2>7, <3>1, <3>2, <3>3, RequestStep
    <3>5. QED
      BY <1>1, <3>4
  <2>10. QED
    BY <2>1, <2>8, <2>9
<1>8. QED
  BY <1>6, <1>7

\* The runner.
LEMMA RunStep ==
    ASSUME IInv, NEW h \in Handlers, Run(h)
    PROVE  IInv' /\ UNCHANGED rows
<1>1. /\ script[h] # <<>> /\ Head(script[h]).do = "run"
      /\ UNCHANGED <<rows, needs, ledger, compiled, bundles, lines, lost, crashes>>
  BY DEF Run, At, disk
<1>2. PICK q \in Requests : q = req[h]
  BY <1>1, CallersOwn
<1>3. /\ rec[h] = rows[q] /\ ~ At(h, "log") /\ rows[q].state = "running" /\ ran[q] = <<>>
      /\ \A g \in Handlers \ {h} : ~ Idle(g) /\ req[g] = q => Racer(g)
  BY <1>1, <1>2, CallersOwn DEF OwnerAct, OwnerRun
<1>4. PICK todo : /\ Continue(h, todo)
                  /\ \/ todo = Unrun
                     \/ \E verdict \in {"completed", "failed"} : todo = Finish(verdict)
  BY DEF Run
<1>5. todo # <<>>
  BY <1>4 DEF Unrun, Finish
<1>6. Running(q, todo)'
  BY <1>1, <1>3, <1>4 DEF Running
<1>7. Owns(q, todo)'
  BY <1>6 DEF Owns
<1>8. Types /\ Sound(q) /\ compiled[q] \in Plans \cup {NoPlan}
  BY DEF IInv, Types
<1>9. ran' = [ran EXCEPT ![q] = Append(@, compiled[q])]
  BY <1>2 DEF Run
<1>10. /\ ran' \in [Requests -> Seq(Plans \cup {NoPlan})]
       /\ Len(ran'[q]) = 1 /\ ran'[q][1] = compiled[q]
       /\ \A p \in Requests \ {q} : ran'[p] = ran[p]
  BY <1>3, <1>8, <1>9 DEF Types
<1>11. Sound(q)'
  <2>1. known' = known
    BY <1>4, <1>5 DEF Continue
  <2>2. DigestAgrees(q)' /\ Chained(q)' /\ BundleComesLast(q)'
    BY <1>1, <1>8 DEF Sound, DigestAgrees, Chained, BundleComesLast, LastIs, Unbundled
  <2>3. ApprovalComesFirst(q)'
    BY <1>1, <1>3, <1>8, <1>10 DEF Sound, ApprovalComesFirst, ApprovedOnce, Approvals
  <2>4. QED
    BY <1>1, <1>8, <2>1, <2>2, <2>3 DEF Sound
<1>12. /\ ledger' \in [Requests -> Seq(Event)] /\ bundles' \in [Requests -> Bundle]
       /\ compiled' \in [Requests -> Plans \cup {NoPlan}]
  BY <1>1, <1>8 DEF Types
<1>13. QED
  BY <1>1, <1>2, <1>3, <1>4, <1>5, <1>7, <1>10, <1>11, <1>12, OwnerGoesOn

\* The steps of the bundle writer.
LEMMA BundleStep ==
    ASSUME IInv, NEW h \in Handlers, Stage(h) \/ Collect(h) \/ Publish(h)
    PROVE  IInv' /\ UNCHANGED rows
<1>1. /\ script[h] # <<>> /\ Head(script[h]).do \in {"stage", "collect", "publish"}
      /\ UNCHANGED <<rows, needs, ledger, compiled>>
  BY DEF Stage, Collect, Publish, At
<1>2. PICK q \in Requests : q = req[h]
  BY <1>1, CallersOwn
<1>3. PICK step, rest : step = Head(script[h]) /\ rest = Tail(script[h])
  OBVIOUS
<1>4. /\ rec[h] = rows[q] /\ ~ At(h, "log") /\ OwnerBundle(q, step, rest) /\ ~ Idle(h)
      /\ \A g \in Handlers \ {h} : ~ Idle(g) /\ req[g] = q => Racer(g)
  BY <1>1, <1>2, <1>3, CallersOwn DEF OwnerAct
<1>5. PICK verdict \in {"completed", "failed"} :
         LET last == Move(verdict, [bundle |-> TRUE]) IN
         /\ LastIs(q, verdict)
         /\ \/ /\ step = Do("stage") /\ Unbundled(q)
               /\ rest = << Do("collect"), Do("publish"), last >>
            \/ /\ step = Do("collect") /\ bundles[q].place = "staging"
               /\ rest = << Do("publish"), last >>
            \/ /\ step = Do("publish") /\ bundles[q].place = "staging"
               /\ bundles[q].whole /\ bundles[q].events = ledger[q] /\ rest = << last >>
  BY <1>4 DEF OwnerBundle
<1>6. /\ Types /\ Sound(q) /\ rows[q].state = "validating" /\ bundles[q] \in Bundle
      /\ ledger[q] \in Seq(Event)
  BY <1>4 DEF IInv, Types, OwnerBundle
<1>7. ~ rows[q].bundle
  BY <1>6 DEF Sound, BundleComesLast
<1> DEFINE last == Move(verdict, [bundle |-> TRUE])
<1>8. ASSUME Continue(h, rest), rest # <<>>, UNCHANGED <<ran, lines, lost, crashes>>,
             bundles'[q] \in Bundle, \A p \in Requests : p # q => bundles'[p] = bundles[p],
             bundles' = [p \in Requests |-> bundles'[p]],
             Bundling(q, rest)',
             bundles'[q].place = "final" => bundles'[q].whole /\ bundles'[q].events = ledger[q]
      PROVE  IInv'
  <2>1. /\ bundles' \in [Requests -> Bundle] /\ ledger' \in [Requests -> Seq(Event)]
        /\ compiled' \in [Requests -> Plans \cup {NoPlan}]
        /\ ran' \in [Requests -> Seq(Plans \cup {NoPlan})]
    BY <1>1, <1>6, <1>8 DEF Types
  <2>2. Owns(q, rest)' /\ known' = known
    BY <1>8 DEF Owns, Continue
  <2>3. BundleComesLast(q)'
    BY <1>1, <1>6, <1>7, <1>8 DEF BundleComesLast, Unbundled
  <2>4. DigestAgrees(q)' /\ Chained(q)' /\ ApprovalComesFirst(q)'
    BY <1>1, <1>6, <1>8 DEF Sound, DigestAgrees, Chained, ApprovalComesFirst, ApprovedOnce,
       Approvals
  <2>5. Sound(q)'
    BY <1>1, <1>6, <2>2, <2>3, <2>4 DEF Sound
  <2>6. QED
    BY <1>1, <1>2, <1>4, <1>8, <2>1, <2>2, <2>5, OwnerGoesOn
<1>9. CASE Stage(h)
  <2>1. step.do = "stage"
    BY <1>3, <1>9 DEF Stage, At
  <2>2. Unbundled(q) /\ rest = << Do("collect"), Do("publish"), last >> /\ rest # <<>>
    BY <1>5, <2>1, StepKinds
  <2>3. /\ bundles' = [bundles EXCEPT ![q].place = "staging"]
        /\ Continue(h, rest) /\ UNCHANGED <<ran, lines, lost, crashes>>
    BY <1>2, <1>3, <1>9, <2>2 DEF Stage, Unbundled
  <2>4. /\ bundles'[q].place = "staging" /\ bundles'[q].events = bundles[q].events
        /\ (bundles'[q].whole <=> bundles[q].whole) /\ bundles'[q] \in Bundle
        /\ bundles' = [p \in Requests |-> bundles'[p]]
        /\ \A p \in Requests : p # q => bundles'[p] = bundles[p]
    BY <1>6, <2>3 DEF Types, Bundle
  <2>5. Bundling(q, rest)'
    BY <1>1, <1>5, <1>6, <2>2, <2>4 DEF Bundling, LastIs
  <2>6. QED
    BY <1>1, <1>8, <2>2, <2>3, <2>4, <2>5
<1>10. CASE Collect(h)
  <2>1. step.do = "collect"
    BY <1>3, <1>10 DEF Collect, At
  <2>2. bundles[q].place = "staging" /\ rest = << Do("publish"), last >> /\ rest # <<>>
    BY <1>5, <2>1, StepKinds
  <2>3. /\ bundles' = [bundles EXCEPT ![q].events = ledger[q], ![q].whole = TRUE]
        /\ Continue(h, rest) /\ UNCHANGED <<ran, lines, lost, crashes>>
    BY <1>2, <1>3, <1>10 DEF Collect
  <2>4. /\ bundles'[q].place = "staging" /\ bundles'[q].events = ledger[q]
        /\ bundles'[q].whole /\ bundles'[q] \in Bundle
        /\ bundles' = [p \in Requests |-> bundles'[p]]
        /\ \A p \in Requests : p # q => bundles'[p] = bundles[p]
    BY <1>6, <2>2, <2>3 DEF Types, Bundle
  <2>5. Bundling(q, rest)'
    BY <1>1, <1>5, <1>6, <2>2, <2>4 DEF Bundling, LastIs
  <2>6. QED
    BY <1>1, <1>8, <2>2, <2>3, <2>4, <2>5
<1>11. CASE Publish(h)
  <2>1. step.do = "publish"
    BY <1>3, <1>11 DEF Publish, At
  <2>2. /\ bundles[q].place = "staging" /\ bundles[q].whole /\ bundles[q].events = ledger[q]
        /\ rest = << last >> /\ rest # <<>>
    BY <1>5, <2>1, StepKinds
  <2>3. /\ bundles' = [bundles EXCEPT ![q].place = "final"]
        /\ Continue(h, rest) /\ UNCHANGED <<ran, lines, lost, crashes>>
    BY <1>2, <1>3, <1>11 DEF Publish
  <2>4. /\ bundles'[q].place = "final" /\ bundles'[q].events = ledger[q]
        /\ bundles'[q].whole /\ bundles'[q] \in Bundle
        /\ bundles' = [p \in Requests |-> bundles'[p]]
        /\ \A p \in Requests : p # q => bundles'[p] = bundles[p]
    BY <1>6, <2>2, <2>3 DEF Types, Bundle
  <2>5. Bundling(q, rest)'
    BY <1>1, <1>5, <1>6, <2>2, <2>4 DEF Bundling, LastIs
  <2>6. QED
    BY <1>1, <1>8, <2>2, <2>3, <2>4, <2>5
<1>12. QED
  BY <1>9, <1>10, <1>11

----------------------------------------------------------------------------
(* Submissions and faults *)

\* A submission takes an identifier nobody works on.
LEMMA SubmitStep ==
    ASSUME IInv, NEW h \in Handlers, NEW q \in Requests, Submit(h, q)
    PROVE  IInv' /\ \A p \in Requests : rows[p].answers \subseteq rows'[p].answers
<1> DEFINE row == [NoRow EXCEPT !.state = "requested"]
<1>1. /\ Idle(h) /\ rows[q].state = "none"
      /\ UNCHANGED <<known, ledger, compiled, ran, bundles, lost, crashes>>
  BY DEF Submit
<1>2. PICK open, todo :
         /\ open \in SUBSET Fields
         /\ needs' = [needs EXCEPT ![q] = open]
         /\ rows' = [rows EXCEPT ![q] = row]
         /\ Begin(h, q, row, todo)
         /\ todo \in { << Log("requested"), Move("needs_clarification", <<>>),
                          Log("clarification_required") >>,
                       << Log("requested"), Move("spec_drafted", <<>>), Propose(1) >> }
  BY DEF Submit
<1>3. Types /\ Sound(q) /\ q \notin known /\ lines[h] = 0
  <2>1. ~ At(h, "log")
    BY <1>1 DEF IInv, Types, At
  <2>2. QED
    BY <1>1, <2>1, NoLines DEF IInv, Sound
<1>4. /\ row.state = "requested" /\ row.revision = 0 /\ row.answers = {} /\ row.spec = NoPlan
      /\ row.digest = NoPlan /\ ~ row.bundle /\ row \in Row
  BY DEF NoRow, Row, States
<1> HIDE DEF row
<1>5. /\ rows'[q] = row /\ rows' \in [Requests -> Row]
      /\ \A p \in Requests \ {q} : rows'[p] = rows[p]
  BY <1>2, <1>3, <1>4 DEF Types
<1>6. todo # <<>>
  BY <1>2
<1>7. /\ HandlersOK' /\ \A g \in Handlers \ {h} : Kept(g)
      /\ req'[h] = q /\ rec'[h] = row /\ script'[h] = todo /\ lines'[h] = lines[h]
  BY <1>1, <1>2, <1>4, <1>6, BeginEffect
<1>8. Types'
  BY <1>1, <1>2, <1>3, <1>5, <1>7 DEF Types, HandlersOK
<1>9. ASSUME NEW g \in Handlers \ {h}, ~ Idle(g), req[g] = q
      PROVE  Racer(g)
  <2>1. ~ Owns(q, script[g])
    BY <1>1 DEF Owns, Submitting, Asking, Proposing, Refusing, Drafting, Approving, Running,
       Bundling
  <2>2. QED
    BY <1>9, <2>1 DEF IInv, HandlersStand, Owner
<1>10. compiled[q] = NoPlan /\ ran[q] = <<>> /\ Unbundled(q) /\ Approvals(q) = {}
  BY <1>1, <1>3 DEF Sound, DigestAgrees, ApprovalComesFirst, BundleComesLast
<1>11. Sound(q)'
  <2>1. Chained(q)' /\ DigestAgrees(q)'
    BY <1>1, <1>3, <1>4, <1>5, <1>10 DEF Sound, Chained, DigestAgrees
  <2>2. ApprovalComesFirst(q)' /\ BundleComesLast(q)'
    BY <1>1, <1>4, <1>5, <1>10 DEF ApprovalComesFirst, BundleComesLast, Approvals, Unbundled
  <2>3. QED
    BY <1>1, <1>4, <1>5, <2>1, <2>2 DEF Sound
<1>12. Owner(h)' /\ req'[h] = q
  <2>1. Submitting(q, todo)'
    BY <1>1, <1>2, <1>3, <1>4, <1>5 DEF Submitting
  <2>2. Owns(req[h], script[h])'
    BY <1>7, <2>1 DEF Owns
  <2>3. QED
    BY <1>5, <1>7, <2>2 DEF Owner
<1>13. \A p \in Requests \ {q} : Untouched(p)
  BY <1>1, <1>5 DEF Untouched
<1>14. Current(h)'
  BY <1>3, <1>7 DEF Current
<1>15. IInv'
  BY <1>3, <1>7, <1>8, <1>9, <1>11, <1>12, <1>13, <1>14, RequestStep
<1>16. rows[q].answers = {}
  BY <1>1, <1>3 DEF Sound
<1>17. QED
  BY <1>5, <1>15, <1>16

\* Half a row of an append.
LEMMA TornRow ==
    ASSUME IInv, NEW h \in Handlers, lines[h] > 0, Tear(h), ~ (UNCHANGED ledger),
           UNCHANGED <<rows, compiled, ran, bundles, known>>
    PROVE  \E q \in Requests :
              /\ q = req[h] /\ At(h, "log") /\ Sound(q)'
              /\ ledger' \in [Requests -> Seq(Event)]
              /\ \A p \in Requests \ {q} : Untouched(p)
<1>1. At(h, "log") /\ lines[h] = Len(ledger[req[h]]) + 1
  BY DEF IInv, ReadersAreCurrent, Current
<1>2. PICK q \in Requests : q = req[h]
  BY <1>1, LoggersOwn
<1>3. PICK event : event = [kind |-> "torn", sequence |-> lines[h], plan |-> NoPlan]
  OBVIOUS
<1>4. Types /\ ledger[q] \in Seq(Event) /\ lines[h] \in Nat
  BY DEF IInv, Types
<1>5. event \in Event /\ event.kind = "torn" /\ event.sequence = Len(ledger[q]) + 1
  BY <1>1, <1>2, <1>3, <1>4 DEF Event
<1>6. ledger' = [ledger EXCEPT ![q] = Append(@, event)]
  BY <1>2, <1>3 DEF Tear
<1>7. /\ ledger'[q] = Append(ledger[q], event)
      /\ \A p \in Requests \ {q} : ledger'[p] = ledger[p]
      /\ ledger' \in [Requests -> Seq(Event)]
  BY <1>4, <1>5, <1>6 DEF Types
<1>8. Sound(q)'
  BY <1>1, <1>2, <1>5, <1>7, LogSound
<1>9. \A p \in Requests \ {q} : Untouched(p)
  BY <1>7 DEF Untouched
<1>10. QED
  BY <1>1, <1>2, <1>7, <1>8, <1>9

\* A call that raises.
LEMMA BreakStep ==
    ASSUME IInv, NEW h \in Handlers, Break(h)
    PROVE  IInv' /\ UNCHANGED rows
<1>1. /\ ~ Idle(h) /\ Raise(h) /\ Tear(h) /\ UNCHANGED <<rows, needs, compiled, bundles>>
      /\ req[h] \in Requests
  BY BusyHasRequest DEF Break
<1>2. CASE UNCHANGED ledger
  BY <1>1, <1>2, RaiseStep
<1>3. CASE ~ (UNCHANGED ledger)
  <2>1. lines[h] > 0
    BY <1>1, <1>3 DEF Tear
  <2>2. /\ HandlersOK' /\ \A g \in Handlers \ {h} : Kept(g)
        /\ Idle(h)' /\ lines'[h] = 0 /\ UNCHANGED <<known, ran>>
    BY <1>1, RaiseEffect
  <2>3. PICK q \in Requests :
           /\ q = req[h] /\ At(h, "log") /\ Sound(q)'
           /\ ledger' \in [Requests -> Seq(Event)]
           /\ \A p \in Requests \ {q} : Untouched(p)
    BY <1>1, <1>3, <2>1, <2>2, TornRow
  <2>4. Types'
    BY <1>1, <2>2, <2>3 DEF IInv, Types, HandlersOK
  <2>5. \A g \in Handlers \ {h} : ~ Idle(g) /\ req[g] = q => Racer(g)
    BY <2>3, LoggersOwn
  <2>6. MovesOn(q) /\ Current(h)'
    BY <1>1, <2>2 DEF MovesOn, Current
  <2>7. QED
    BY <1>1, <2>2, <2>3, <2>4, <2>5, <2>6, RequestStep
<1>4. QED
  BY <1>2, <1>3

\* The death of the process.
LEMMA CrashStep ==
    ASSUME IInv, Crash
    PROVE  IInv' /\ UNCHANGED rows
<1>1. /\ req' = [h \in Handlers |-> NoRequest] /\ rec' = [h \in Handlers |-> NoRow]
      /\ script' = [h \in Handlers |-> <<>>] /\ lines' = [h \in Handlers |-> 0]
      /\ UNCHANGED <<rows, needs, known, compiled, ran, bundles>>
      /\ crashes < MaxCrashes /\ crashes' = crashes + 1
      /\ lost' = lost \cup ({req[h] : h \in Handlers} \ {NoRequest})
  BY DEF Crash
<1>2. Types /\ lost' \subseteq Requests /\ crashes' \in 0 .. MaxCrashes
  BY <1>1, ConstantsAssumption DEF IInv, Types
<1>3. \A h \in Handlers : Idle(h)' /\ script'[h] = <<>> /\ lines'[h] = 0
  BY <1>1 DEF Idle
<1>4. ledger' \in [Requests -> Seq(Event)] /\ \A p \in Requests : Sound(p)'
  <2>1. CASE UNCHANGED ledger
    <3>1. \A p \in Requests : Untouched(p)
      BY <1>1, <2>1 DEF Untouched
    <3>2. QED
      BY <1>2, <2>1, <3>1, UntouchedSound DEF IInv, Types
  <2>2. CASE ~ (UNCHANGED ledger)
    <3>1. PICK h \in Handlers : Tear(h) /\ lines[h] > 0
      BY <2>2 DEF Crash, Tear
    <3>2. PICK q \in Requests :
             /\ Sound(q)' /\ ledger' \in [Requests -> Seq(Event)]
             /\ \A p \in Requests \ {q} : Untouched(p)
      BY <1>1, <2>2, <3>1, TornRow
    <3>3. QED
      BY <3>2, UntouchedSound DEF IInv
  <2>3. QED
    BY <2>1, <2>2
<1>5. script' = [h \in Handlers |-> script'[h]] /\ rec' \in [Handlers -> Row]
  BY <1>1, NoRowIsRow
<1>6. Types'
  BY <1>1, <1>2, <1>3, <1>4, <1>5 DEF Types
<1>7. HandlersStand' /\ OneOwner' /\ ReadersAreCurrent'
  BY <1>3 DEF HandlersStand, OneOwner, ReadersAreCurrent, Current
<1>8. QED
  BY <1>1, <1>4, <1>6, <1>7 DEF IInv

----------------------------------------------------------------------------
(* The invariant *)

\* It holds at the start.
LEMMA InitInv == Init => IInv
<1> SUFFICES ASSUME Init  PROVE IInv
  OBVIOUS
<1>1. NoBundle \in Bundle /\ NoBundle.place = "none" /\ <<>> \in Seq(Event)
  BY DEF NoBundle, Bundle
<1>2. \A h \in Handlers : Idle(h) /\ script[h] = <<>> /\ lines[h] = 0
  BY DEF Init, Idle
<1>3. Types
  <2>1. /\ rows \in [Requests -> Row] /\ rec \in [Handlers -> Row]
        /\ ledger \in [Requests -> Seq(Event)] /\ bundles \in [Requests -> Bundle]
    BY <1>1, NoRowIsRow DEF Init
  <2>2. /\ needs \in [Requests -> SUBSET Fields] /\ known \subseteq Requests
        /\ lost \subseteq Requests /\ compiled \in [Requests -> Plans \cup {NoPlan}]
        /\ ran \in [Requests -> Seq(Plans \cup {NoPlan})]
    BY DEF Init
  <2>3. /\ req \in [Handlers -> Requests \cup {NoRequest}]
        /\ script = [h \in Handlers |-> script[h]] /\ lines \in [Handlers -> Nat]
        /\ crashes \in 0 .. MaxCrashes
    BY ConstantsAssumption DEF Init
  <2>4. QED
    BY <1>2, <2>1, <2>2, <2>3 DEF Types
<1>4. HandlersStand /\ OneOwner /\ ReadersAreCurrent
  BY <1>2 DEF HandlersStand, OneOwner, ReadersAreCurrent, Current
<1>5. ASSUME NEW q \in Requests
      PROVE  Sound(q)
  <2>1. /\ rows[q] = NoRow /\ ledger[q] = <<>> /\ compiled[q] = NoPlan /\ ran[q] = <<>>
        /\ bundles[q] = NoBundle /\ known = {}
    BY DEF Init
  <2>2. /\ NoRow.state = "none" /\ NoRow.answers = {} /\ NoRow.digest = NoPlan
        /\ ~ NoRow.bundle
    BY DEF NoRow
  <2>3. Chained(q) /\ DigestAgrees(q) /\ Approvals(q) = {} /\ Unbundled(q)
    BY <1>1, <2>1, <2>2 DEF Chained, DigestAgrees, Approvals, Unbundled
  <2>4. ApprovalComesFirst(q) /\ BundleComesLast(q)
    BY <1>1, <2>1, <2>2, <2>3 DEF ApprovalComesFirst, BundleComesLast
  <2>5. QED
    BY <2>1, <2>2, <2>3, <2>4 DEF Sound
<1>6. QED
  BY <1>3, <1>4, <1>5 DEF IInv

\* Every step keeps it, and keeps the answers of every request.
LEMMA NextInv ==
    ASSUME IInv, [Next]_vars
    PROVE  /\ IInv'
           /\ \A q \in Requests : rows[q].answers \subseteq rows'[q].answers
<1>1. ASSUME NEW h \in Handlers, Call(h)
      PROVE  IInv' /\ \A q \in Requests : rows[q].answers \subseteq rows'[q].answers
  <2>1. PICK q \in Requests :
           \/ Submit(h, q) \/ Execute(h, q)
           \/ \E answers \in SUBSET Fields : Answer(h, q, answers)
           \/ \E digest \in Plans : Approve(h, q, digest)
    BY <1>1 DEF Call
  <2>2. CASE Submit(h, q)
    BY <2>2, SubmitStep
  <2>3. CASE Execute(h, q)
    BY <2>3, ExecuteStep DEF Execute, disk
  <2>4. ASSUME NEW answers \in SUBSET Fields, Answer(h, q, answers)
        PROVE  IInv' /\ UNCHANGED rows
    BY <2>4, AnswerStep DEF Answer, disk
  <2>5. ASSUME NEW digest \in Plans, Approve(h, q, digest)
        PROVE  IInv' /\ UNCHANGED rows
    BY <2>5, ApproveStep DEF Approve, disk
  <2>6. QED
    BY <2>1, <2>2, <2>3, <2>4, <2>5
<1>2. ASSUME NEW h \in Handlers, Serve(h)
      PROVE  IInv' /\ \A q \in Requests : rows[q].answers \subseteq rows'[q].answers
  BY <1>2, TransitionStep, LogReadStep, LogWriteStep, AskModelStep, CompileStep, RunStep,
     BundleStep DEF Serve
<1>3. ASSUME NEW h \in Handlers, Break(h)
      PROVE  IInv' /\ \A q \in Requests : rows[q].answers \subseteq rows'[q].answers
  BY <1>3, BreakStep
<1>4. CASE Crash
  BY <1>4, CrashStep
<1>5. CASE UNCHANGED vars
  <2>1. /\ UNCHANGED <<rows, needs, known, ledger, compiled, ran, bundles>>
        /\ UNCHANGED <<req, rec, script, lines, lost, crashes>>
    BY <1>5 DEF vars
  <2>2. \A p \in Requests : Untouched(p) /\ MovesOn(p)
    BY <2>1 DEF Untouched, MovesOn
  <2>3. Types' /\ ReadersAreCurrent' /\ \A p \in Requests : Sound(p)'
    BY <2>1, <2>2, UntouchedSound
       DEF IInv, Types, Idle, ReadersAreCurrent, Current, At
  <2>4. \A h \in Handlers : SameScript(h) /\ (Idle(h)' <=> Idle(h))
    BY <2>1 DEF SameScript, Idle
  <2>5. \A h \in Handlers : Racer(h) => Racer(h)'
    BY <2>2, <2>3, <2>4, RacerStays DEF IInv, Types, Racer
  <2>6. \A h \in Handlers : Owner(h) => Owner(h)'
    BY <2>2, <2>4, OwnerStays DEF Owner
  <2>7. HandlersStand' /\ OneOwner'
    BY <2>4, <2>5, <2>6 DEF IInv, HandlersStand, OneOwner, SameScript
  <2>8. QED
    BY <2>1, <2>3, <2>7 DEF IInv
<1>6. QED
  BY <1>1, <1>2, <1>3, <1>4, <1>5 DEF Next

----------------------------------------------------------------------------
(* The theorems *)

\* Whoever works on a request stands where its row says, one owner at a time: the
\* inductive invariant holds in every reachable state.
THEOREM Invariance == Spec => []IInv
<1>1. IInv /\ [Next]_vars => IInv'
  BY NextInv
<1>2. QED
  BY InitInv, <1>1, PTL DEF Spec

\* Every variable keeps its type.
THEOREM Typing == Spec => []TypeOK
<1>1. IInv => TypeOK
  <2>1. SUFFICES ASSUME Types  PROVE TypeOK
    BY DEF IInv
  <2>2. ASSUME NEW q \in Requests, NEW i \in 1 .. Len(ledger[q])
        PROVE  /\ ledger[q][i].kind \in Kinds \cup {"torn"}
               /\ ledger[q][i].plan \in Plans \cup {NoPlan}
    <3>1. ledger[q] \in Seq(Event)
      BY <2>1 DEF Types
    <3>2. ledger[q][i] \in Event
      BY <3>1
    <3>3. QED
      BY <3>2 DEF Event
  <2>3. \A q \in Requests : bundles[q].place \in {"none", "staging", "final"}
    BY <2>1 DEF Types, Bundle
  <2>4. QED
    BY <2>1, <2>2, <2>3 DEF Types, TypeOK
<1>2. QED
  BY Invariance, <1>1, PTL

\* No handler whose copy of the row is current asks for a transition that the store's
\* table forbids.
THEOREM LegalTransitionsOnly == Spec => []NoIllegalTransition
<1>1. IInv => NoIllegalTransition
  BY MoversAreReady, LegalMoves DEF NoIllegalTransition
<1>2. QED
  BY Invariance, <1>1, PTL

\* A ledger is numbered without a gap although append takes no lock.
THEOREM ChainedLedger == Spec => []LedgerIsChained
<1>1. IInv => LedgerIsChained
  BY DEF IInv, Sound, Chained, LedgerIsChained
<1>2. QED
  BY Invariance, <1>1, PTL

\* The runner is called at most once for a request, with the plan whose approval is the
\* only one in the ledger.
THEOREM ApprovedRuns == Spec => []RunsWhatWasApproved
<1>1. IInv => RunsWhatWasApproved
  <2>1. SUFFICES ASSUME IInv, NEW q \in Requests, ran[q] # <<>>
                 PROVE  /\ Len(ran[q]) = 1 /\ Cardinality(Approvals(q)) = 1
                        /\ \A i \in Approvals(q) :
                              ledger[q][i].plan = ran[q][1] /\ rows[q].digest = ran[q][1]
    BY DEF RunsWhatWasApproved
  <2>2. /\ ApprovedOnce(q) /\ compiled[q] # NoPlan
        /\ Len(ran[q]) = 1 /\ ran[q][1] = compiled[q]
    BY <2>1 DEF IInv, Sound, ApprovalComesFirst
  <2>3. compiled[q] = rows[q].digest /\ rows[q].digest = rows[q].spec
    <3>1. DigestAgrees(q)
      BY <2>1 DEF IInv, Sound
    <3>2. QED
      BY <2>2, <3>1 DEF DigestAgrees
  <2>4. PICK i : Approvals(q) = {i} /\ ledger[q][i].plan = rows[q].spec
    BY <2>2 DEF ApprovedOnce
  <2>5. Cardinality(Approvals(q)) = 1
    BY <2>4, FS_Singleton
  <2>6. QED
    BY <2>2, <2>3, <2>4, <2>5
<1>2. QED
  BY Invariance, <1>1, PTL

\* A bundle at its place is whole and final, and a row that names it agrees with the
\* verdict in its ledger.
THEOREM WholeEvidence == Spec => []EvidenceIsWhole
<1>1. IInv => EvidenceIsWhole
  <2>1. SUFFICES ASSUME IInv, NEW q \in Requests
                 PROVE  /\ rows[q].state = "completed" => rows[q].bundle
                        /\ rows[q].bundle => bundles[q].place = "final"
                        /\ bundles[q].place = "final" =>
                              bundles[q].whole /\ bundles[q].events = ledger[q]
                        /\ rows[q].bundle =>
                              bundles[q].events[Len(bundles[q].events)].kind = rows[q].state
    BY DEF EvidenceIsWhole
  <2>2. BundleComesLast(q)
    BY <2>1 DEF IInv, Sound
  <2>3. QED
    BY <2>2 DEF BundleComesLast, LastIs
<1>2. QED
  BY Invariance, <1>1, PTL

\* An answer that was taken is never lost, whatever answers race with it.
THEOREM KeptAnswers == Spec => AnswersAreKept
<1>1. IInv /\ [Next]_vars =>
         [\A q \in Requests : rows[q].answers \subseteq rows'[q].answers]_vars
  BY NextInv
<1>2. QED
  BY Invariance, <1>1, PTL DEF Spec, AnswersAreKept
=============================================================================
