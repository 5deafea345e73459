---------------------------- MODULE MCAutoTuner ----------------------------
(* The ways to call run() that the run looks at. *)
EXTENDS AutoTuner

Setting(n, g, w, t, p) ==
    [configs |-> n, group |-> g, workers |-> w, timeout |-> t, pipeline |-> p]

\* One device with a timeout, or without, where the worker is on its own; and two
\* devices that benchmark while the pool compiles.
MCSettings == {Setting(3, 2, 1, TRUE, FALSE), Setting(3, 2, 1, FALSE, FALSE),
               Setting(2, 1, 2, TRUE, TRUE)}
=============================================================================
