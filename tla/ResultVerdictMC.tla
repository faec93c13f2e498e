--------------------------- MODULE ResultVerdictMC ---------------------------
(* Instances of ResultVerdict small enough for TLC. *)
EXTENDS ResultVerdict

Experiment(backend, study, stop, step, reference, observables) ==
    [backend |-> backend, study |-> study, start |-> 0, stop |-> stop, step |-> step,
     reference |-> reference, observables |-> observables]

\* Sweeps 0..1 by 1 and, where the step does not divide the range, 0..5 and 0..3 by 2;
\* equilibria inside and outside the domain of the analytical reference.
MCSpecs ==
    { Experiment("devsim", "dc", 1, 1, FALSE, {"terminal_current", "electron_density"}),
      Experiment("devsim", "dc", 5, 2, FALSE, {"terminal_current"}),
      Experiment("devsim", "dc", 3, 2, FALSE, {"terminal_current"}),
      Experiment("devsim", "equilibrium", 0, 1, TRUE, {"potential", "electron_density"}),
      Experiment("devsim", "equilibrium", 0, 1, TRUE, {"terminal_current"}),
      Experiment("sentaurus", "dc", 1, 1, FALSE, {"terminal_current"}),
      Experiment("sentaurus", "equilibrium", 0, 1, TRUE, {"potential"}),
      Experiment("sentaurus", "equilibrium", 0, 1, FALSE, {"potential"}) }

Field(unit, values) == [unit |-> unit, values |-> values]

MCCurrents == { <<>>, <<0, 0>>, <<1, 0>>, <<1>>, <<10000, -9999>>, <<10000, -9998>>, <<NaN, 0>> }
MCPotentials == { Field("V", <<-35, 35>>), Field("V", <<0, 50>>), Field("eV", <<0, 70>>) }
MCDensities == { Field("m^-3", <<1>>), Field("m^-3", <<0, -1>>), Field("m^-3", <<NaN>>) }
=============================================================================
