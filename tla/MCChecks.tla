------------------------------ MODULE MCChecks ------------------------------
(***************************************************************************)
(* Instances for TLC of what stands before and around a run: each          *)
(* behaviour is one of CrewRun, GraphChecks, TestSuites, ModelRoutes or    *)
(* Chunking, while the others rest.  The crews and the graphs that are     *)
(* checked are the definitions of MCCrewRun; two cases, one edit and two   *)
(* requests that run cases; two providers, one key and five settings; all  *)
(* texts of five words of three kinds with every gap between them, and     *)
(* unbroken ones of up to twelve characters.                               *)
(***************************************************************************)
EXTENDS MCCrewRun, GraphChecks, TestSuites, ModelRoutes, Chunking, SequencesExt

CONSTANTS r1, r2, m1, p1, p2, k1

MCRequests  == {r1, r2}
MCMarks     == {m1}
MCProviders == {p1, p2}
MCKeys      == {k1}

Plain == [enabled |-> TRUE, llm |-> TRUE, native |-> FALSE, endpoint |-> TRUE,
          auth |-> "required", env |-> FALSE]
MCSettings == {Plain, [Plain EXCEPT !.enabled = FALSE], [Plain EXCEPT !.auth = "optional"],
               [Plain EXCEPT !.env = TRUE, !.native = TRUE],
               [Plain EXCEPT !.llm = FALSE, !.auth = "none"]}

Words == {<<Letter>>, <<Capital, Letter>>, <<Letter, Stop>>}
Gaps  == {<<Blank>>, <<Line>>, <<Line, Line>>}

MCTexts ==
    {<<>>} \cup {[i \in 1..n |-> Letter] : n \in 1..12}
    \cup {FlattenSeq(<<w[1], g[1], w[2], g[2], w[3], g[3], w[4], g[4], w[5]>>) :
             w \in [1..5 -> Words], g \in [1..4 -> Gaps]}

VARIABLE part

\* What rests is in one state (the order of the two in IF is for TLC, which
\* enumerates the first once).
Init ==
    /\ part \in {"crew", "graph", "suites", "routes", "chunks"}
    /\ part \notin {"crew", "graph"} => def = Base
    /\ part # "graph" => asker = "canvas"
    /\ part # "chunks" => body = <<>> /\ size = 12 /\ overlap = 0
    /\ SuitesInit /\ RoutesInit
    /\ IF part = "chunks" THEN RunInit /\ ChunkingInit ELSE ChunkingInit /\ RunInit
    /\ WalkInit

Next ==
    \/ /\ part = "crew" /\ RunNext
       /\ UNCHANGED <<part, checkVars, suiteVars, routeVars, chunkVars>>
    \/ /\ part = "graph" /\ ChecksNext
       /\ UNCHANGED <<part, runVars, suiteVars, routeVars, chunkVars>>
    \/ /\ part = "suites" /\ SuitesNext
       /\ UNCHANGED <<part, vars, checkVars, routeVars, chunkVars>>
    \/ /\ part = "routes" /\ RoutesNext
       /\ UNCHANGED <<part, vars, checkVars, suiteVars, chunkVars>>
    \/ /\ part = "chunks" /\ Cut
       /\ UNCHANGED <<part, vars, checkVars, suiteVars, routeVars>>

all == <<part, vars, checkVars, suiteVars, routeVars, chunkVars>>

Spec == Init /\ [][Next]_all /\ WF_all(part = "crew" /\ Plan /\ UNCHANGED <<part, checkVars, suiteVars, routeVars, chunkVars>>)

\* What the checks accept runs as it was drawn, and what a test reports is what its
\* run answered.
ChecksTellTheTruth == ChecksHoldInTheRun /\ TestsTellTheTruth

\* Planning ends for every crew that is planned for a run.
EveryPlanningEnds == part = "crew" => PlanningEnds
=============================================================================
