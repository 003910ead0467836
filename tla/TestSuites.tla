----------------------------- MODULE TestSuites -----------------------------
(***************************************************************************)
(* Test cases of one workflow and the suites that run them                 *)
(* (src/api/routers/workflows.py, core/workflow_test_runner.py).  A suite  *)
(* takes the enabled cases as they are when it is asked for and awaits one *)
(* execution after the other, while cases are made, edited and deleted,    *)
(* the workflow is switched off, single cases and other suites run, and    *)
(* the process restarts: cases, results and runs live in its memory.       *)
(*                                                                         *)
(* What a case expects of the answer, and what an answer bears of it, are  *)
(* sets of marks: texts, tools, the agent that ran.                        *)
(***************************************************************************)
EXTENDS Integers, Sequences, FiniteSets, SequencesExt

CONSTANTS
    MaxCases,       \* bound: test cases made
    Requests,       \* POST .../test and POST .../run, each a run id
    Marks,          \* what an expectation may ask for
    MaxEdits        \* bound: edits of cases

ASSUME SuitesAssumption == MaxCases \in Nat /\ MaxEdits \in Nat

Cases == 1..MaxCases

VARIABLES
    cases,          \* _test_cases, in the order in which they were made
    given,          \* the ids given so far: they are numbered
    edits,          \* edits so far
    workflow,       \* whether validate_workflow accepts the workflow
    request,        \* the requests, each at its await
    results,        \* _test_results
    testRuns,       \* _test_runs
    leftovers       \* the requests that left a session behind

suiteVars == <<cases, given, edits, workflow, request, results, testRuns, leftovers>>

\* A case; it is sound when WorkflowTestCaseResponse can be made from it.
Case == [id : Cases, expects : SUBSET Marks, enabled : BOOLEAN, sound : BOOLEAN]

\* "asked" is bookkeeping: the case as the request took it.
Result == [run : Requests, suite : BOOLEAN, asked : Case,
           status : {"passed", "failed", "error", "skipped"},
           bears : SUBSET Marks, answered : BOOLEAN]

Idle == [at |-> "idle", suite |-> FALSE, todo |-> <<>>, counts |-> <<0, 0, 0>>, taken |-> <<>>]

SuitesInit ==
    /\ cases = <<>> /\ given = 0 /\ edits = 0
    /\ workflow = TRUE
    /\ request = [r \in Requests |-> Idle]
    /\ results = <<>> /\ testRuns = {} /\ leftovers = {}

Held(c) == {i \in 1..Len(cases) : cases[i].id = c}

\* What s has at these places, in its order.
Those(s, places) == FlattenSeq([i \in 1..Len(s) |-> IF i \in places THEN <<s[i]>> ELSE <<>>])

-----------------------------------------------------------------------------
(* Cases                                                                   *)

CreateCase(expects) ==
    /\ given < MaxCases
    /\ given' = given + 1
    /\ cases' = Append(cases, [id |-> given', expects |-> expects, enabled |-> TRUE, sound |-> TRUE])
    /\ UNCHANGED <<edits, workflow, request, results, testRuns, leftovers>>

\* tc.update(update_data), then the response is made from the result.  A
\* field set to null is in the case when the response cannot be made.
UpdateCase(c, expects, enabled, sound) ==
    /\ edits < MaxEdits
    /\ \E i \in Held(c) :
          cases' = [cases EXCEPT ![i] = [id |-> c, expects |-> expects, enabled |-> enabled, sound |-> sound]]
    /\ edits' = edits + 1
    /\ UNCHANGED <<given, workflow, request, results, testRuns, leftovers>>

DeleteCase(c) ==
    /\ Held(c) # {}
    /\ cases' = Those(cases, DOMAIN cases \ Held(c))
    /\ UNCHANGED <<given, edits, workflow, request, results, testRuns, leftovers>>

\* Registry, agents file: what validate_workflow looks at comes and goes.
SwitchWorkflow ==
    /\ workflow' = ~workflow
    /\ UNCHANGED <<cases, given, edits, request, results, testRuns, leftovers>>

-----------------------------------------------------------------------------
(* Running                                                                 *)

ResultOf(r, suite, case, status, bears, answered) ==
    [run |-> r, suite |-> suite, asked |-> case, status |-> status, bears |-> bears, answered |-> answered]

Which(status) == CASE status = "passed" -> 1 [] status = "failed" -> 2 [] status = "error" -> 3

\* Fault: the first verdict that is no pass names the run.
OverallByCount(counts) == IF counts[2] > 0 THEN "failed" ELSE IF counts[3] > 0 THEN "error" ELSE "passed"

Overall(counts) == IF counts[3] > 0 THEN "error" ELSE IF counts[2] > 0 THEN "failed" ELSE "passed"

Summary(r, taken, counts) ==
    [id |-> r, taken |-> taken, total |-> Len(taken), counts |-> counts, status |-> Overall(counts)]

\* From one await to the next.  With the workflow as it is now, either the
\* first case left is under way, in a session of its own, or no case left
\* can be run, each is recorded as an error, and the request is done.
Go(r, suite, todo, counts, taken, sofar) ==
    IF todo # <<>> /\ workflow
    THEN /\ request' = [request EXCEPT ![r] = [at |-> "running", suite |-> suite, todo |-> todo,
                                               counts |-> counts, taken |-> taken]]
         /\ leftovers' = leftovers \cup {r}
         /\ results' = sofar
         /\ UNCHANGED testRuns
    ELSE LET last == [counts EXCEPT ![3] = counts[3] + Len(todo)]
         IN /\ request' = [request EXCEPT ![r] = [Idle EXCEPT !.at = "done"]]
            /\ results' = sofar \o [i \in 1..Len(todo) |-> ResultOf(r, suite, todo[i], "error", {}, FALSE)]
            /\ testRuns' = IF suite THEN testRuns \cup {Summary(r, taken, last)} ELSE testRuns
            /\ UNCHANGED leftovers

\* POST .../test
RunSuite(r) ==
    LET chosen == Those(cases, {i \in 1..Len(cases) : cases[i].enabled})
    IN /\ request[r].at = "idle"
       /\ chosen # <<>> /\ \A i \in 1..Len(chosen) : chosen[i].sound
       /\ Go(r, TRUE, chosen, <<0, 0, 0>>, chosen, results)
       /\ UNCHANGED <<cases, given, edits, workflow>>

\* POST .../test-cases/{id}/run
RunCase(r, c) ==
    /\ request[r].at = "idle"
    /\ \E i \in Held(c) :
          /\ cases[i].sound
          /\ IF cases[i].enabled
             THEN Go(r, FALSE, <<cases[i]>>, <<0, 0, 0>>, <<cases[i]>>, results)
             ELSE /\ request' = [request EXCEPT ![r] = [Idle EXCEPT !.at = "done"]]
                  /\ results' = Append(results, ResultOf(r, FALSE, cases[i], "skipped", {}, FALSE))
                  /\ UNCHANGED <<testRuns, leftovers>>
    /\ UNCHANGED <<cases, given, edits, workflow>>

\* Fault: the expectations are read when the answer is there.
JudgeLive(case, bears) ==
    IF \E i \in Held(case.id) : ~(cases[i].expects \subseteq bears) THEN "failed" ELSE "passed"

\* judge(): every expectation the case declares.
Judge(case, bears) == IF case.expects \subseteq bears THEN "passed" ELSE "failed"

Record(r, status, bears, answered) ==
    /\ request[r].at = "running"
    /\ LET q == request[r]
           i == Which(status)
       IN Go(r, q.suite, Tail(q.todo), [q.counts EXCEPT ![i] = q.counts[i] + 1], q.taken,
             Append(results, ResultOf(r, q.suite, Head(q.todo), status, bears, answered)))
    /\ UNCHANGED <<cases, given, edits, workflow>>

\* process_message returned an answer, which is judged.
Answered(r, bears) ==
    /\ request[r].at = "running"
    /\ Record(r, Judge(Head(request[r].todo), bears), bears, TRUE)

\* A kickoff that raised is answered with the exception's text.
KickoffRaised(r) ==
    /\ request[r].at = "running"
    /\ Record(r, Judge(Head(request[r].todo), {}), {}, FALSE)

\* timeout_seconds are over, or process_message raised.
ExecutionFailed(r) == Record(r, "error", {}, FALSE)

\* The request is cancelled: nothing catches it, the results so far stay.
CancelRequest(r) ==
    /\ request[r].at = "running"
    /\ request' = [request EXCEPT ![r] = [Idle EXCEPT !.at = "cancelled"]]
    /\ UNCHANGED <<cases, given, edits, workflow, results, testRuns, leftovers>>

\* A new process has sessions.json, and none of the rest.
RestartSuites ==
    /\ cases' = <<>> /\ results' = <<>> /\ testRuns' = {}
    /\ request' = [r \in Requests |-> IF request[r].at = "idle" THEN Idle ELSE [Idle EXCEPT !.at = "cancelled"]]
    /\ UNCHANGED <<given, edits, workflow, leftovers>>

SuitesNext ==
    \/ \E expects \in SUBSET Marks : CreateCase(expects)
    \/ \E c \in Cases :
          \/ \E expects \in SUBSET Marks, enabled, sound \in BOOLEAN :
                UpdateCase(c, expects, enabled, sound)
          \/ DeleteCase(c)
          \/ \E r \in Requests : RunCase(r, c)
    \/ \E r \in Requests :
          \/ RunSuite(r) \/ KickoffRaised(r) \/ ExecutionFailed(r) \/ CancelRequest(r)
          \/ \E bears \in SUBSET Marks : Answered(r, bears)
    \/ SwitchWorkflow \/ RestartSuites

SuitesSpec == SuitesInit /\ [][SuitesNext]_suiteVars

-----------------------------------------------------------------------------
(* Properties                                                              *)

\* Types of the suites.
SuitesTypeOK ==
    /\ cases \in Seq(Case) /\ results \in Seq(Result)
    /\ given \in 0..MaxCases /\ edits \in 0..MaxEdits /\ leftovers \subseteq Requests
    /\ \A r \in Requests : /\ request[r].at \in {"idle", "running", "done", "cancelled"}
                           /\ request[r].todo \in Seq(Case) /\ request[r].taken \in Seq(Case)
    /\ \A s \in testRuns : s.total \in Nat /\ s.status \in {"passed", "failed", "error"}

\* Where the results of one request are, and of those the ones that say so.
Of(r) == {i \in 1..Len(results) : results[i].run = r}
Having(places, status) == {i \in places : results[i].status = status}

\* How many of these places are no later than i.
Rank(i, places) == Cardinality({k \in places : k <= i})

\* A stored run is the account of its results, although cases are edited,
\* disabled and deleted and other requests record results while it goes on:
\* one result for each case that was enabled when it was asked for, each
\* judged by what the case expected then, in the order of the cases; the
\* counts are theirs, and the run passed only if all of them did
\* (run_workflow_tests, _run_and_record).
RunsAreTheirResults ==
    \A s \in testRuns :
        LET mine == Of(s.id)
        IN /\ s.total = Cardinality(mine)
           /\ \A i \in mine : /\ results[i].asked = s.taken[Rank(i, mine)]
                              /\ results[i].asked.enabled /\ results[i].status # "skipped"
           /\ s.counts = <<Cardinality(Having(mine, "passed")), Cardinality(Having(mine, "failed")),
                           Cardinality(Having(mine, "error"))>>
           /\ s.status = "error" <=> Having(mine, "error") # {}
           /\ s.status = "passed" <=> Having(mine, "passed") = mine

\* A verdict is about the answer recorded beside it and the case as it was
\* when it was asked; no case that was disabled then is executed (judge).
VerdictsFitTheirAnswers ==
    \A i \in 1..Len(results) :
        LET x == results[i]
        IN /\ x.status = "passed" => x.asked.expects \subseteq x.bears
           /\ x.status = "failed" => ~(x.asked.expects \subseteq x.bears)
           /\ x.status = "skipped" <=> ~x.asked.enabled

\* What the platform says of its tests is so.
TestsTellTheTruth == RunsAreTheirResults /\ VerdictsFitTheirAnswers

(* Three statements that do not hold of the code (see README, Divergences).*)

\* "No session is created or persisted" (execute_workflow).
NoSessionIsKept == leftovers = {}

\* "a crash is a recorded ERROR" (_run_and_record): a crew that crashed has
\* answered with the exception's text, and passes where nothing is expected.
PassedMeansAnswered == \A i \in 1..Len(results) : results[i].status = "passed" => results[i].answered

\* An edit the API answers with an error changed nothing (update_test_case).
CasesStaySound == \A i \in 1..Len(cases) : cases[i].sound
=============================================================================
