---------------------------- MODULE MCEngineStore ----------------------------
(***************************************************************************)
(* Small deployments for TLC: one worker with stops, retention and         *)
(* artifacts, and two workers on one run.  What a run of the Temporal      *)
(* backend adds to one is what TemporalChecks is about.                    *)
(***************************************************************************)
EXTENDS EngineStore, TemporalChecks

CONSTANTS a, b, c, w1, w2, r1, r2

Chain(order, masked, workers, runs) ==
    [order |-> order, masked |-> masked, artifacts |-> FALSE, retention |-> FALSE,
     interactive |-> FALSE, workers |-> workers, runs |-> runs]

\* One worker: two runs with retention; two nodes, the last one redacted, with
\* artifacts; and an approval.
OneWorker ==
    {[Chain(<<a>>, {}, {w1}, {r1, r2}) EXCEPT !.retention = TRUE],
     [Chain(<<a, b>>, {b}, {w1}, {r1}) EXCEPT !.artifacts = TRUE],
     [Chain(<<a>>, {}, {w1}, {r1}) EXCEPT !.interactive = TRUE]}

\* Two workers on one run.
TwoWorkers == {Chain(<<a, b>>, {}, {w1, w2}, {r1}),
               [Chain(<<a>>, {}, {w1, w2}, {r1}) EXCEPT !.interactive = TRUE]}

EngineDeployments == OneWorker \cup TwoWorkers

\* The first of three nodes is redacted.
RedactedDeployments == {Chain(<<a, b, c>>, {a}, {w1}, {r1})}
=============================================================================
