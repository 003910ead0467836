----------------------------- MODULE MCDelivery -----------------------------
(***************************************************************************)
(* Instances for TLC of the ways in which what one party has changed gets  *)
(* to another.  Each behaviour is one of these, while the others rest:     *)
(*   StreamRelay   a kickoff and a tool thread that emit two events each   *)
(*   TaskBroker    one task, whose messages multiply                       *)
(*   LiveConfig    two files written twice under one of their four         *)
(*                 holders; by an editor alone where no watcher follows    *)
(***************************************************************************)
EXTENDS StreamRelay, TaskBroker, LiveConfig

CONSTANTS kickoff, tool, t1, none, fileA, fileP

MCEmitters == {kickoff, tool}
MCTasks    == {t1}

VARIABLE part

Init ==
    /\ part \in {"stream", "broker", "loader", "manager", "services", "adapter"}
    /\ StreamInit /\ (part # "stream" => relay = "new")
    /\ BrokerInit /\ LiveInit

\* The files are alike to ConfigLoader: one at a time has a load under way.
OneLoad == \A f, g \in ConfigFiles : getting[f] # NoContent /\ getting[g] # NoContent => f = g

Next ==
    /\ UNCHANGED part
    /\ \/ part = "stream" /\ StreamNext /\ UNCHANGED <<brokerVars, liveVars>>
       \/ part = "broker" /\ BrokerNext /\ UNCHANGED <<streamVars, liveVars>>
       \/ /\ part \in {"loader", "manager", "services", "adapter"}
          /\ \/ EditorNext
             \/ part \in {"loader", "adapter"} /\ DiskNext
             \/ part = "loader" /\ LoaderNext /\ OneLoad'
             \/ part = "manager" /\ ManagerNext
             \/ part = "services" /\ ServicesNext
             \/ part = "adapter" /\ AdapterNext
          /\ UNCHANGED <<streamVars, brokerVars>>

\* A part that rests has nothing under way; a watcher watches for its holder.
Spec ==
    /\ Init /\ [][Next]_<<part, streamVars, brokerVars, liveVars>>
    /\ BrokerFairness /\ StreamFairness
    /\ WF_liveVars(part \in {"loader", "adapter"} /\ SaverStep)
    /\ WF_liveVars(\/ part = "loader" /\ ObserverStep
                   \/ part = "adapter" /\ WatcherStep)


\* Every change of a file gets to the holders that watch it.
WatchersCatchUp == (part = "loader" => LoaderCatchesUp) /\ (part = "adapter" => AdapterCatchesUp)
=============================================================================
