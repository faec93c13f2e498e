---------------------------- MODULE ResultVerdict ----------------------------
(***************************************************************************)
(* What becomes of an approved experiment between the compiler and the     *)
(* verdict: the sweep is compiled, a simulator runs and leaves a file or   *)
(* does not, the runner classifies the exit, the adapter normalizes the    *)
(* file (adapters/devsim/compiler.py, adapters/sentaurus/normalizer.py),   *)
(* the validator checks the result and classifies its failures             *)
(* (validation/engine.py), the bundle and the row record the verdict       *)
(* (bundles/writer.py, control/service.py).                                *)
(*                                                                         *)
(* Currents are integers: in uA/cm^2 as the simulator writes them, in      *)
(* uA/m^2 when they are normalized.  The potential is in units of 10 mV.   *)
(***************************************************************************)
EXTENDS Integers, Sequences, FiniteSets, SequencesExt

CONSTANTS
    Specs,       \* approved experiments
    Currents,    \* currents of the terminals at one bias point, in native units
    Biases,      \* biases a remote simulator may report
    Potentials,  \* potential fields a simulator may compute
    Densities,   \* electron densities a simulator may compute
    MaxPoints,   \* bound: bias points of a remote result
    NaN          \* not a number

ASSUME ConstantsAssumption == NaN \notin Int /\ MaxPoints \in Nat
ASSUME NumbersAssumption ==
    /\ Currents \subseteq Seq(Int \cup {NaN}) /\ Biases \subseteq Int \cup {NaN}
    /\ \A f \in Potentials \cup Densities : f.values \in Seq(Int \cup {NaN})
\* require_bounded_sweep of the domain's DCStudy.
ASSUME SpecsAssumption ==
    \A s \in Specs :
        s.start \in Int /\ s.stop \in Int /\ s.start <= s.stop /\ s.step \in Nat \ {0}

VARIABLES
    spec,     \* the approved experiment
    stage,    \* the call execute is about to make
    sweep,    \* the biases in the compiled job
    native,   \* what the runner returned, and the table in its file
    result,   \* the canonical result
    failed,   \* ids of the checks that failed
    failures, \* kinds of failure, in the order of the classification
    bundle,   \* state in the bundle's manifest
    row       \* state, error code and recovery decision in the request's row

vars == <<spec, stage, sweep, native, result, failed, failures, bundle, row>>

Table(version, terminals, points, fields) ==
    [version |-> version, terminals |-> terminals, points |-> points, fields |-> fields]

NoTable == Table(FALSE, 0, <<>>, <<>>)
NoNative == [status |-> "none", exit |-> "none", file |-> "none", unit |-> "A/cm^2",
             table |-> NoTable]
NoResult == [status |-> "none", table |-> NoTable]
NoRow == [state |-> "running", code |-> "", recovery |-> ""]

\* Comparisons and sums of floating-point numbers: none with NaN is true.
AtMost(a, b) == a # NaN /\ b # NaN /\ a <= b
Greater(a, b) == a # NaN /\ b # NaN /\ a > b
Magnitude(a) == IF a # NaN /\ a < 0 THEN -a ELSE a
Plus(a, b) == IF NaN \in {a, b} THEN NaN ELSE a + b
Scaled(a, factor) == IF a = NaN THEN NaN ELSE a * factor
Total(s) == FoldLeft(Plus, 0, s)
\* max(...): the first one stays unless a later one is greater.
Largest(s, none) ==
    IF s = <<>> THEN none
    ELSE FoldLeft(LAMBDA best, x : IF Greater(x, best) THEN x ELSE best, s[1], s)
Magnitudes(s) == [i \in DOMAIN s |-> Magnitude(s[i])]

----------------------------------------------------------------------------
(* The sweep and its length *)

\* The biases of the job: from start by step while not beyond stop.
Sweep(s) ==
    IF s.study = "equilibrium" THEN <<0>>
    ELSE [i \in 1 .. (s.stop - s.start) \div s.step + 1 |-> s.start + (i - 1) * s.step]

\* round: to the nearest integer, a half to the even one.
Round(a, b) ==
    LET q == a \div b
        twice == 2 * (a % b)
    IN  IF twice < b \/ (twice = b /\ q % 2 = 0) THEN q ELSE q + 1

ExpectedBiasPoints(s) ==
    IF s.study = "equilibrium" THEN 1 ELSE Round(s.stop - s.start, s.step) + 1

Compile ==
    /\ stage = "compile"
    /\ sweep' = Sweep(spec)
    /\ stage' = "run"
    /\ UNCHANGED <<spec, native, result, failed, failures, bundle, row>>

----------------------------------------------------------------------------
(* The simulator and the runner *)

\* LocalRunner.run, DevsimSidecarRunner._result: the process, then its file.
Status(exit, file) ==
    CASE exit = "timeout" -> "timed_out"
      [] exit = "nonzero" -> "execution_failed"
      [] file # "table" -> "malformed_result"
      [] OTHER -> "completed"

\* executor.execute: the exit alone; whether there is a table shows later.
RemoteStatus(exit) ==
    CASE exit = "timeout" -> "timed_out"
      [] exit = "nonzero" -> "execution_failed"
      [] OTHER -> "completed"

Exits == {"timeout", "nonzero", "zero"}

FieldNames == {"potential", "electron_density"}

Fields(names) ==
    {f \in [names -> Potentials \cup Densities] :
        \A name \in names : f[name] \in IF name = "potential" THEN Potentials ELSE Densities}

\* The table of the reviewed DEVSIM runtime: a point for every bias of the job, and the
\* fields the experiment asks for.  What it computes is arbitrary.
DevsimTables ==
    LET Point(bias, currents) == [bias |-> bias, converged |-> TRUE, currents |-> currents]
    IN  { Table(TRUE, 2, [i \in DOMAIN sweep |-> Point(sweep[i], c[i])], f) :
            c \in [DOMAIN sweep -> {x \in Currents : Len(x) = 2}],
            f \in Fields(FieldNames \cap spec.observables) }

\* Simulators write into compiled/; a result that is killed may be half there.
RunDevsim ==
    /\ stage = "run" /\ spec.backend = "devsim"
    /\ \E exit \in Exits, file \in {"none", "garbage", "table"} :
        \E table \in IF file = "table" THEN DevsimTables ELSE {NoTable} :
            native' = [status |-> Status(exit, file), exit |-> exit, file |-> file,
                       unit |-> "A/cm^2", table |-> table]
    /\ stage' = "normalize"
    /\ UNCHANGED <<spec, sweep, result, failed, failures, bundle, row>>

\* The table of an export made by the licensed site is arbitrary.
RemoteTables ==
    LET Points == [bias : Biases, converged : BOOLEAN, currents : Currents]
    IN  { Table(version, terminals, points, f) :
            version \in BOOLEAN, terminals \in {0, 2},
            points \in UNION {[1..n -> Points] : n \in 0..MaxPoints},
            f \in UNION {Fields(names) : names \in SUBSET FieldNames} }

RunRemote ==
    /\ stage = "run" /\ spec.backend = "sentaurus"
    /\ \E exit \in Exits, file \in {"none", "garbage", "table"}, unit \in {"A/m^2", "A/cm^2"} :
        \E table \in IF exit = "zero" /\ file = "table" THEN RemoteTables ELSE {NoTable} :
            native' = [status |-> RemoteStatus(exit), exit |-> exit, file |-> file,
                       unit |-> unit, table |-> table]
    /\ stage' = "normalize"
    /\ UNCHANGED <<spec, sweep, result, failed, failures, bundle, row>>

----------------------------------------------------------------------------
(* The adapters *)

\* Mutant: a native current is taken for A/m^2 whatever the unit.
CanonicalUnscaled(table, unit) == table

\* Currents per m^2; the signs of densities and the unit V are what they were.
Canonical(table, unit) ==
    LET factor == IF unit = "A/cm^2" THEN 10000 ELSE 1
        Point(p) == [p EXCEPT !.currents = [i \in DOMAIN @ |-> Scaled(@[i], factor)]]
    IN  [table EXCEPT !.points = [i \in DOMAIN table.points |-> Point(table.points[i])]]

\* Every number of a table: biases, currents and fields.
Numbers(table) ==
    (UNION {{p.bias} \cup Range(p.currents) : p \in Range(table.points)})
    \cup (UNION {Range(table.fields[name].values) : name \in DOMAIN table.fields})

AllValuesFinite(table) == NaN \notin Numbers(table)

\* NativeSentaurusExport: the strict schema.
ExportIsValid(n) == n.file = "table" /\ n.table.version /\ AllValuesFinite(n.table)

\* normalize.  A run that did not complete has no points and no fields.
Normalize ==
    /\ stage = "normalize"
    /\ \/ /\ native.status # "completed"
          /\ result' = [status |-> native.status, table |-> NoTable]
          /\ stage' = "validate" /\ row' = [row EXCEPT !.state = "validating"]
       \/ /\ native.status = "completed"
          /\ spec.backend = "devsim" \/ ExportIsValid(native)
          /\ result' = [status |-> "completed", table |-> Canonical(native.table, native.unit)]
          /\ stage' = "validate" /\ row' = [row EXCEPT !.state = "validating"]
       \/ /\ native.status = "completed"
          /\ spec.backend = "sentaurus" /\ ~ExportIsValid(native)
          /\ stage' = "raised" \* SentaurusNormalizationError leaves execute
          /\ UNCHANGED <<result, row>>
    /\ UNCHANGED <<spec, sweep, native, failed, failures, bundle>>

----------------------------------------------------------------------------
(* The validator *)

\* current_atol and equilibrium_current_atol are 1e-6 A/m^2, current_rtol is 1e-4.
CurrentAtol == 1
PointLimit(p) ==
    LET scale == Largest(Magnitudes(p.currents), 0)
    IN  IF scale = NaN THEN NaN ELSE CurrentAtol + scale \div 10000
PointImbalance(p) == Magnitude(Total(p.currents))

\* _current_imbalance: the largest imbalance and the tolerance of its point.
CurrentImbalance(points) ==
    FoldLeft(LAMBDA worst, p :
                IF Greater(PointImbalance(p), worst.imbalance)
                  THEN [imbalance |-> PointImbalance(p), limit |-> PointLimit(p)]
                  ELSE worst,
             [imbalance |-> 0, limit |-> CurrentAtol], points)

\* _requested_observables_check: currents of every terminal at every point, or a field.
MissingObservables(s, table) ==
    { o \in s.observables :
        IF o = "terminal_current"
          THEN \/ table.terminals = 0 \/ table.points = <<>>
               \/ \E p \in Range(table.points) : Len(p.currents) < table.terminals
          ELSE o \notin DOMAIN table.fields }

\* math.isclose within 10 % or 20 mV.
IsClose(a, b) == 10 * Magnitude(a - b) <= Largest(<<Magnitude(a), Magnitude(b), 20>>, 0)

\* built_in_potential_reference: 0.7 V for the abrupt silicon p-n junction.
ReferencePotential == 70

BuiltInPotentialFails(s, table) ==
    /\ s.reference
    /\ \/ "potential" \notin DOMAIN table.fields
       \/ LET field == table.fields["potential"] IN
            \/ field.unit # "V" \/ field.values = <<>>
            \/ NaN \in Range(field.values)
            \/ ~IsClose(Largest(field.values, 0) + Largest([i \in DOMAIN field.values |->
                            -field.values[i]], 0), ReferencePotential)

AllCurrents(table) == FlattenSeq([i \in DOMAIN table.points |-> table.points[i].currents])

\* The ids of the checks that fail.  expected = NaN: the number of points is not checked.
FailedChecks(r, s, expected) ==
    LET points == r.table.points
        fields == r.table.fields
        worst == CurrentImbalance(points)
        Id(id, fails) == IF fails THEN {id} ELSE {}
    IN  Id("execution-status", r.status # "completed")
        \cup Id("bias-points-present", points = <<>>)
        \cup Id("expected-point-count", expected # NaN /\ Len(points) # expected)
        \cup Id("all-points-converged",
                points = <<>> \/ \E p \in Range(points) : ~p.converged)
        \cup Id("finite-values", ~AllValuesFinite(r.table))
        \cup Id("monotonic-bias",
                \E i \in 1 .. Len(points) - 1 : ~AtMost(points[i].bias, points[i + 1].bias))
        \cup Id("terminal-current-conservation",
                points = <<>> \/ ~AtMost(worst.imbalance, worst.limit))
        \cup Id("nonnegative-carrier-density",
                /\ "electron_density" \in DOMAIN fields
                /\ \E v \in Range(fields["electron_density"].values) : ~AtMost(0, v))
        \cup Id("requested-observables-present", MissingObservables(s, r.table) # {})
        \cup Id("equilibrium-terminal-current",
                /\ s.study = "equilibrium"
                /\ \/ AllCurrents(r.table) = <<>>
                   \/ ~AtMost(Largest(Magnitudes(AllCurrents(r.table)), 0), CurrentAtol))
        \cup Id("built-in-potential-reference",
                s.study = "equilibrium" /\ BuiltInPotentialFails(s, r.table))
        \cup Id("simulator-version-recorded", ~r.table.version)

\* Kinds of failure of a result whose numbers are finite, in the order of the code.
Causes(r, s) ==
    LET Kind(kind, id) == IF id \in FailedChecks(r, s, NaN) THEN <<kind>> ELSE <<>>
    IN  Kind("conservation", "terminal-current-conservation")
        \o Kind("physical_sanity", "nonnegative-carrier-density")
        \o Kind("physical_sanity", "equilibrium-terminal-current")
        \o Kind("physical_sanity", "built-in-potential-reference")
        \o Kind("malformed_output", "requested-observables-present")

Diverged(r) ==
    IF \E p \in Range(r.table.points) : ~p.converged THEN <<"non_convergence">> ELSE <<>>

Unfinished == [ execution_failed |-> "execution", timed_out |-> "timeout",
                malformed_result |-> "malformed_output" ]

\* Mutant: a result that is not finite is classified to the end.
ClassifyOn(r, s) ==
    IF r.status # "completed" THEN << Unfinished[r.status] >>
    ELSE Diverged(r)
         \o (IF AllValuesFinite(r.table) THEN <<>> ELSE <<"nonfinite_result">>)
         \o Causes(r, s)

\* classify_failures: what the run came to; numbers that are not finite end it.
Classify(r, s) ==
    IF r.status # "completed" THEN << Unfinished[r.status] >>
    ELSE Diverged(r)
         \o IF AllValuesFinite(r.table) THEN Causes(r, s) ELSE <<"nonfinite_result">>

Validate ==
    /\ stage = "validate"
    /\ failed' = FailedChecks(result, spec, ExpectedBiasPoints(spec))
    /\ failures' = Classify(result, spec)
    /\ stage' = "bundle"
    /\ UNCHANGED <<spec, sweep, native, result, bundle, row>>

----------------------------------------------------------------------------
(* The verdict *)

\* BundleWriter.write: the state in the manifest.
Bundle ==
    /\ stage = "bundle"
    /\ bundle' = IF native.status = "completed" /\ result.status = "completed" /\ failed = {}
                   THEN "completed" ELSE "failed"
    /\ stage' = "conclude"
    /\ UNCHANGED <<spec, sweep, native, result, failed, failures, row>>

Actions ==
    [ execution |-> <<"stop_and_report">>,
      timeout |-> <<"increase_iteration_limit">>,
      non_convergence |-> <<"reduce_bias_step", "increase_iteration_limit", "refine_mesh">>,
      malformed_output |-> <<"stop_and_report">>,
      nonfinite_result |-> <<"stop_and_report">>,
      conservation |-> <<"refine_mesh">>,
      physical_sanity |-> <<"stop_and_report">> ]

\* RecoveryPolicy.decide: the first action not attempted yet, within the budget.
Decide(kind, history, budget) ==
    LET untried == SelectSeq(Actions[kind], LAMBDA a : a \notin Range(history))
    IN  IF Len(history) >= budget \/ untried = <<>> THEN "stop_and_report" ELSE Head(untried)

\* Mutant: a run without a classified failure is completed.
ConcludeUnclassified ==
    /\ stage = "conclude"
    /\ row' = [ state |-> IF failures = <<>> THEN "completed" ELSE "failed",
                code |-> IF failures = <<>> THEN "" ELSE failures[1],
                recovery |-> IF failures = <<>> THEN "" ELSE Decide(failures[1], <<>>, 0) ]
    /\ stage' = "done"
    /\ UNCHANGED <<spec, sweep, native, result, failed, failures, bundle>>

\* The service asks for no attempt: history () and budget 0.
Conclude ==
    /\ stage = "conclude"
    /\ row' = [ state |-> IF failed = {} THEN "completed" ELSE "failed",
                code |-> IF failed = {} THEN ""
                         ELSE IF failures = <<>> THEN "validation_failed" ELSE failures[1],
                recovery |-> IF failures = <<>> THEN "" ELSE Decide(failures[1], <<>>, 0) ]
    /\ stage' = "done"
    /\ UNCHANGED <<spec, sweep, native, result, failed, failures, bundle>>

----------------------------------------------------------------------------

Init ==
    /\ spec \in Specs
    /\ stage = "compile" /\ sweep = <<>>
    /\ native = NoNative /\ result = NoResult
    /\ failed = {} /\ failures = <<>>
    /\ bundle = "none" /\ row = NoRow

Next == Compile \/ RunDevsim \/ RunRemote \/ Normalize \/ Validate \/ Bundle \/ Conclude

Spec == Init /\ [][Next]_vars

----------------------------------------------------------------------------
(* Properties *)

\* What a reader of a completed run relies on, in terms of what the simulator
\* wrote and what the user approved, where no arithmetic is needed: the process ended well,
\* it solved the approved number of biases and all of them converged, it computed what was
\* asked for, every number is one, and no carrier density is negative.  The code arrives
\* there over a normalization of units and the checks of another table.
CompletedIsWhole ==
    row.state = "completed" =>
        LET t == native.table
        IN  /\ native.exit = "zero" /\ native.file = "table" /\ t.version
            /\ NaN \notin Numbers(t)
            /\ t.points # <<>> /\ Len(t.points) = ExpectedBiasPoints(spec)
            /\ \A p \in Range(t.points) : p.converged
            /\ \A o \in spec.observables :
                  IF o = "terminal_current"
                    THEN \A p \in Range(t.points) : Len(p.currents) >= 2
                    ELSE o \in DOMAIN t.fields
            /\ "electron_density" \in DOMAIN t.fields =>
                  \A v \in Range(t.fields["electron_density"].values) : v >= 0

\* The rest of what that reader relies on: besides, the biases are in order, the terminal
\* currents cancel where they are furthest from doing so, and an equilibrium carries no
\* current and shows the junction's potential.
Factor == IF native.unit = "A/cm^2" THEN 10000 ELSE 1
Residue(p) == Magnitude(Total(p.currents)) * Factor
CompletedIsSound ==
    /\ CompletedIsWhole
    /\ row.state = "completed" =>
        LET t == native.table
            worst == {p \in Range(t.points) : \A o \in Range(t.points) : Residue(o) <= Residue(p)}
        IN  /\ \A i, j \in DOMAIN t.points : i < j => t.points[i].bias <= t.points[j].bias
            /\ \E p \in worst : \E c \in Range(p.currents) \cup {0} :
                  10000 * (Residue(p) - 1) <= Magnitude(c) * Factor
            /\ spec.study = "equilibrium" =>
                  \A p \in Range(t.points) : \A c \in Range(p.currents) :
                      Magnitude(c) * Factor <= 1
            /\ spec.study = "equilibrium" /\ spec.reference =>
                  LET field == t.fields["potential"] IN
                  /\ field.unit = "V"
                  /\ \E a, b \in Range(field.values) : a - b \in 63..77

\* The three records of a run agree: its row, the manifest of its bundle and the
\* classification, which checks the result a second time and in another way.  A completed run
\* has no kind of failure and no recovery decision, a failed one has a code.
VerdictsAgree ==
    stage = "done" =>
        /\ row.state \in {"completed", "failed"} /\ bundle = row.state
        /\ row.state = "completed" => failures = <<>> /\ row.recovery = ""
        /\ row.state = "failed" => row.code # ""
        /\ result.status # "completed" => row.state = "failed" /\ failures # <<>>

\* Each kind of failure is founded on what the simulator did: the first one is the
\* code the user reads, and decides which recovery is approved.
FailuresAreFounded ==
    LET t == native.table
        Founded(kind) ==
            CASE kind = "execution" -> native.exit = "nonzero"
              [] kind = "timeout" -> native.exit = "timeout"
              [] kind = "non_convergence" -> \E p \in Range(t.points) : ~p.converged
              [] kind = "nonfinite_result" -> NaN \in Numbers(t)
              [] kind = "conservation" ->
                    t.points = <<>> \/ \E p \in Range(t.points) : Residue(p) > 1
              [] kind = "malformed_output" ->
                    native.file # "table" \/ MissingObservables(spec, t) # {}
              [] kind = "physical_sanity" ->
                    /\ NaN \notin Numbers(t)
                    /\ \/ /\ spec.study = "equilibrium"
                          /\ \/ BuiltInPotentialFails(spec, t)
                             \/ \A p \in Range(t.points) : p.currents = <<>>
                             \/ \E p \in Range(t.points) : \E c \in Range(p.currents) :
                                   Magnitude(c) * Factor > 1
                       \/ /\ "electron_density" \in DOMAIN t.fields
                          /\ \E v \in Range(t.fields["electron_density"].values) : v < 0
    IN  \A i \in DOMAIN failures : Founded(failures[i])
=============================================================================
