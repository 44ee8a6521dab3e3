----------------------------- MODULE Workflows -----------------------------
(***************************************************************************)
(* One workflow, WorkflowService: a draft is edited and published, which   *)
(* registers its graph with the workflow engine by a message; a published  *)
(* workflow is paused and resumed.  Every graph that reaches this module   *)
(* has passed GraphValidator, and publishing validates the stored one      *)
(* again.  The engine is not part of this code.                            *)
(***************************************************************************)
EXTENDS Handlers, Naturals

CONSTANTS
  WorkflowGraph,   \* graphs that validateGraph accepts
  NoGraph

VARIABLES
  workflow,     \* the workflows row
  publishKey,   \* Redis workflow:publish:<id>: the request that set it
  registered,   \* the graph at the engine's last workflow.register message
  workflowHistory

workflowState == <<workflow, publishKey, registered, workflowHistory>>
workflowVars == <<workflowState, pc, local>>

WorkflowRow ==
  [status: {"none", "draft", "published", "paused", "archived"},
   graph: WorkflowGraph \union {NoGraph}]

WorkflowLocal ==
  [op: {"update"}, graph: WorkflowGraph, read: {"draft", "paused"}] \union [op: {"publish"}]

\* edited: an update that had read a draft was written to a workflow that was
\* none any more;
\* unsent: a workflow was published and its message was not.
WorkflowHistory == [edited: BOOLEAN, unsent: BOOLEAN]

NoKey == [held |-> FALSE]
KeyOf(r) == [held |-> TRUE, by |-> r]

WorkflowInit ==
  /\ HandlersInit
  /\ workflow = [status |-> "none", graph |-> NoGraph]
  /\ publishKey = NoKey
  /\ registered = NoGraph
  /\ workflowHistory = [edited |-> FALSE, unsent |-> FALSE]

Live == workflow.status \notin {"none", "archived"}

--------------------------------------------------------------------------
CreateWorkflow(graph) ==
  /\ workflow.status = "none"
  /\ workflow' = [status |-> "draft", graph |-> graph]
  /\ UNCHANGED <<publishKey, registered, workflowHistory, pc, local>>

\* Mutant of WorkflowUpdateRead: a paused workflow is edited too.
WorkflowUpdateRead_Paused(r, graph) ==
  /\ pc[r] = "new"
  /\ workflow.status \in {"draft", "paused"}
  /\ Go(r, [op |-> "update", graph |-> graph, read |-> workflow.status], "workflow.update")
  /\ UNCHANGED <<workflow, publishKey, registered, workflowHistory>>

WorkflowUpdateRead(r, graph) ==
  /\ pc[r] = "new"
  /\ workflow.status = "draft"
  /\ Go(r, [op |-> "update", graph |-> graph, read |-> workflow.status], "workflow.update")
  /\ UNCHANGED <<workflow, publishKey, registered, workflowHistory>>

\* repo.update, WHERE id AND deleted_at IS NULL: whatever the status is by now.
UpdateGraph(g) == workflow' = IF Live THEN [workflow EXCEPT !.graph = g] ELSE workflow

\* An update of the name alone does nothing here.
WorkflowUpdateWrite(r) ==
  /\ pc[r] = "workflow.update"
  /\ UpdateGraph(local[r].graph)
  /\ workflowHistory' = [workflowHistory EXCEPT
       !.edited = @ \/ (Live /\ local[r].read = "draft" /\ workflow.status # "draft")]
  /\ Return(r, "done")
  /\ UNCHANGED <<publishKey, registered>>

\* repo.transitionStatus
Transition(from, to) == workflow.status \in from /\ workflow' = [workflow EXCEPT !.status = to]

PublishRead(r) ==
  /\ pc[r] = "new"
  /\ workflow.status \in {"draft", "paused"}
  /\ Go(r, [op |-> "publish"], "publish.lock")
  /\ UNCHANGED <<workflow, publishKey, registered, workflowHistory>>

\* SET NX; a Redis error leaves the handler (FailWorkflow).
PublishLock(r) ==
  /\ pc[r] = "publish.lock"
  /\ IF publishKey.held
     THEN Return(r, "failed") /\ UNCHANGED publishKey
     ELSE publishKey' = KeyOf(r) /\ Goto(r, "publish.transition")
  /\ UNCHANGED <<workflow, registered, workflowHistory>>

PublishTransition(r) ==
  /\ pc[r] = "publish.transition"
  /\ \/ /\ Transition({"draft", "paused"}, "published")
        /\ Goto(r, "publish.register")
     \/ /\ workflow.status \notin {"draft", "paused"}
        /\ UNCHANGED workflow
        /\ Goto(r, "publish.unlock")
  /\ UNCHANGED <<publishKey, registered, workflowHistory>>

\* DEL, whoever holds the key by now.
PublishUnlock(r) ==
  /\ pc[r] = "publish.unlock"
  /\ publishKey' = NoKey
  /\ Return(r, "failed")
  /\ UNCHANGED <<workflow, registered, workflowHistory>>

\* workflow.register carries the id: the engine reads the row.  A failed
\* publish is logged.  The key is left to its expiry.
PublishRegister(r) ==
  /\ pc[r] = "publish.register"
  /\ \/ registered' = workflow.graph /\ UNCHANGED workflowHistory
     \/ /\ "outage" \in Faults
        /\ workflowHistory' = [workflowHistory EXCEPT !.unsent = TRUE]
        /\ UNCHANGED registered
  /\ Return(r, "done")
  /\ UNCHANGED <<workflow, publishKey>>

\* One guarded UPDATE each.
ChangeStatus(from, to) ==
  /\ Transition(from, to)
  /\ UNCHANGED <<publishKey, registered, workflowHistory, pc, local>>

PauseWorkflow == ChangeStatus({"published"}, "paused")
ResumeWorkflow == ChangeStatus({"paused"}, "published")
DeleteWorkflow == ChangeStatus({"draft", "published", "paused"}, "archived")

FailWorkflow(r) ==
  /\ Stop(r)
  /\ workflowHistory' = [workflowHistory EXCEPT !.unsent = @ \/ (pc[r] = "publish.register")]
  /\ UNCHANGED <<workflow, publishKey, registered>>

KeyExpires ==
  /\ publishKey.held
  /\ publishKey' = NoKey
  /\ UNCHANGED <<workflow, registered, pc, local, workflowHistory>>

WorkflowRequest(r) ==
  \/ \E g \in WorkflowGraph : WorkflowUpdateRead(r, g)
  \/ WorkflowUpdateWrite(r)
  \/ PublishRead(r) \/ PublishLock(r) \/ PublishTransition(r)
  \/ PublishUnlock(r) \/ PublishRegister(r)
  \/ FailWorkflow(r)

WorkflowNext ==
  \/ \E r \in Request : WorkflowRequest(r)
  \/ \E g \in WorkflowGraph : CreateWorkflow(g)
  \/ PauseWorkflow \/ ResumeWorkflow \/ DeleteWorkflow
  \/ KeyExpires

WorkflowSpec == WorkflowInit /\ [][WorkflowNext]_workflowVars

--------------------------------------------------------------------------
\* Types; a workflow that exists has a graph.
WorkflowTypeOK ==
  /\ workflow \in WorkflowRow
  /\ workflow.status # "none" => workflow.graph \in WorkflowGraph
  /\ publishKey \in {NoKey} \union {KeyOf(r) : r \in Request}
  /\ registered \in WorkflowGraph \union {NoGraph}
  /\ pc \in [Request -> {"new", "workflow.update", "publish.lock", "publish.transition",
                         "publish.unlock", "publish.register", "done", "failed"}]
  /\ local \in [Request -> WorkflowLocal \union {Nothing}]
  /\ workflowHistory \in WorkflowHistory

\* What runs is what is stored: while no publication is at its message, the
\* engine has been given the graph of a workflow that is published or paused;
\* unless that message was lost, or an edit that had read a draft was written
\* after the publication.
RunsWhatIsStored ==
  workflow.status \in {"published", "paused"} =>
    \/ registered = workflow.graph
    \/ workflowHistory.unsent \/ workflowHistory.edited
    \/ \E r \in Request : pc[r] = "publish.register"
==========================================================================
