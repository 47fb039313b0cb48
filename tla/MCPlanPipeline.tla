---------------------------- MODULE MCPlanPipeline ----------------------------
(* TLC instances of PlanPipeline. *)
EXTENDS PlanPipeline, TLC

\* The gates pass and nothing blocks: verdicts do not matter to admission.
MCPass     == {<<TRUE, FALSE>>}
MCSymmetry == Permutations(Calls)

\* The state once every session has been ingested and nothing else happened:
\* the start of the instances that are about admission.
MCIngested ==
  /\ table = [j \in Sessions |-> [version |-> 2, doc |-> Stamped(FreshDoc)]]
  /\ minted = Sessions
  /\ call = [c \in Calls |-> Idle]
  /\ events = {}
  /\ rows = [j \in Sessions |-> Store!InsertedRow("ingested")]
  /\ txn = [c \in Calls |-> NoTxn]
  /\ run = [c \in Calls |-> NoRun]
  /\ sweep = NoSweep
  /\ crashes = 0

MCAdmissionSpec == MCIngested /\ [][PipelineNext]_pipelineVars

\* An action constraint that makes one instance of two halves: one session, with
\* every operation, the sweep and a crash; or, once a second one was ingested
\* after it, both processed and discarded.
MCFirst == CHOOSE j \in Sessions : TRUE

MCFirstIngested ==
  /\ MCFirst \in Stored /\ table[MCFirst] = [version |-> 2, doc |-> Stamped(FreshDoc)]
  /\ \A c \in Calls : call[c] = Idle /\ run[c] = NoRun

MCHalf ==
  \/ minted' \subseteq {MCFirst}
  \/ /\ minted = Sessions \/ MCFirstIngested
     /\ sweep' = NoSweep /\ crashes' = 0
     /\ \A c \in Calls :
          call'[c] # Idle => call'[c].op \in {"ingest", "process", "discard"}
     /\ (\E c \in Calls : call'[c] # Idle /\ call'[c].op = "ingest") =>
          \A c \in Calls : run'[c] = NoRun /\ (call'[c] # Idle => call'[c].op = "ingest")

\* The same sessions after a crash: a replica was granted a slot for one of
\* them, stamped its lease and died, and the others know nothing of it.
MCOrphaned ==
  /\ table = [j \in Sessions |-> [version |-> 2, doc |-> Stamped(FreshDoc)]]
  /\ minted = Sessions
  /\ call = [c \in Calls |-> Idle]
  /\ events = {}
  /\ LET row  == Store!InsertedRow("ingested")
         dead == CHOOSE j \in Sessions : TRUE
     IN rows = [j \in Sessions |-> IF j = dead THEN Store!GrantedRow(row) ELSE row]
  /\ txn = [c \in Calls |-> NoTxn]
  /\ run = [c \in Calls |-> NoRun]
  /\ sweep = NoSweep
  /\ crashes = MaxCrashes

MCRecoverySpec == MCOrphaned /\ [][PipelineNext]_pipelineVars /\ Fairness
==============================================================================
