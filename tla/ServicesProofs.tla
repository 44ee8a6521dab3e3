--------------------------- MODULE ServicesProofs --------------------------
(***************************************************************************)
(* Proofs about Workflows, Segments, Templates, Events, Domains and        *)
(* GraphValidator, for every set of graphs, lists of nodes, filters,       *)
(* versions, keys, workspaces, workers and requests and every combination  *)
(* of faults.                                                              *)
(*                                                                         *)
(* Workflows: a request that is about to write a graph has read a draft    *)
(* (WroteOnDraft), so that a graph which is written to a workflow that is  *)
(* none any more is noted; and a workflow becomes published only by a      *)
(* request that then stands at its message, which is sent, lost or never   *)
(* reached, each of them visible in the property.                          *)
(*                                                                         *)
(* Templates: a draft that its patcher is about to publish still has the   *)
(* text of the patch, unless the history calls it mixed (PatchStands); so  *)
(* a version keeps the text that its publisher meant (Frozen). Events:     *)
(* each step of a request knows whether its row and message are there      *)
(* (Placed), and only accepted events are metered (Metering) and only      *)
(* counted ones admitted (Counting). Domains: while no two calls           *)
(* overlapped, the registration that is past its insertion is alone with   *)
(* the identity at SES (AloneWithSes), so that the key it stores is the    *)
(* identity's.                                                             *)
(*                                                                         *)
(* Segments: what is under way is enough to bring the segment to what its  *)
(* filter selects (Converging). A refresh with an outdated filter is       *)
(* followed by a message (StaleIsRepeated); once all have the present one, *)
(* whoever is a member and should not be is among the rows that a running  *)
(* DELETE has seen, and whoever is missing is about to be inserted.        *)
(*                                                                         *)
(* A filter selects contacts because every rule compiles (Where exists):   *)
(* partial compilations agree, by their lowest difference.  GraphValidator: *)
(* the calls are a path of gray nodes, black nodes lead to black nodes     *)
(* only, and what is visited or queued is reached (ValidatorInv).          *)
(***************************************************************************)
EXTENDS Workflows, Segments, Templates, Events, Domains, GraphValidator, FiniteSetTheorems, WellFoundedInduction, TLAPS

WroteOnDraft ==
  \A r \in Request : pc[r] = "workflow.update" =>
    local[r].graph \in WorkflowGraph /\ local[r].read = "draft"

Steps == {"new", "workflow.update", "publish.lock", "publish.transition",
          "publish.unlock", "publish.register", "done", "failed"}

RequestsOK ==
  /\ pc \in [Request -> Steps]
  /\ local \in [Request -> WorkflowLocal \union {Nothing}]
  /\ WroteOnDraft

RowsOK ==
  /\ workflow \in WorkflowRow
  /\ workflow.status # "none" => workflow.graph \in WorkflowGraph
  /\ publishKey \in {NoKey} \union {KeyOf(r) : r \in Request}
  /\ registered \in WorkflowGraph \union {NoGraph}
  /\ workflowHistory \in WorkflowHistory

WorkflowInv == RequestsOK /\ RowsOK /\ RunsWhatIsStored

--------------------------------------------------------------------------
\* A request that moves, with what it holds, leaves the others alone.
LEMMA GoOK ==
  ASSUME RequestsOK, NEW r \in Request, NEW s \in Steps,
         NEW l \in WorkflowLocal \union {Nothing}, Go(r, l, s),
         s = "workflow.update" => l.graph \in WorkflowGraph /\ l.read = "draft"
  PROVE  /\ RequestsOK'
         /\ pc'[r] = s
         /\ \A q \in Request : q # r => pc'[q] = pc[q]
<1>1. pc' = [pc EXCEPT ![r] = s] /\ local' = [local EXCEPT ![r] = l]
  BY DEF Go
<1>2. pc' \in [Request -> Steps] /\ pc'[r] = s /\ \A q \in Request : q # r => pc'[q] = pc[q]
  BY <1>1 DEF RequestsOK
<1>3. local' \in [Request -> WorkflowLocal \union {Nothing}]
  BY <1>1 DEF RequestsOK
<1>4. local'[r] = l /\ \A q \in Request : q # r => local'[q] = local[q]
  BY <1>1 DEF RequestsOK
<1>5. ASSUME NEW q \in Request, pc'[q] = "workflow.update"
      PROVE  local'[q].graph \in WorkflowGraph /\ local'[q].read = "draft"
  <2>1. CASE q = r
    BY <1>2, <1>4, <1>5, <2>1
  <2>2. CASE q # r
    <3>1. pc[q] = "workflow.update" /\ local'[q] = local[q]
      BY <1>2, <1>4, <1>5, <2>2
    <3> QED
      BY <3>1 DEF RequestsOK, WroteOnDraft
  <2> QED
    BY <2>1, <2>2
<1>6. WroteOnDraft'
  BY <1>5 DEF WroteOnDraft
<1> QED
  BY <1>2, <1>3, <1>6 DEF RequestsOK

LEMMA GotoOK ==
  ASSUME RequestsOK, NEW r \in Request, NEW s \in Steps, Goto(r, s), s # "workflow.update"
  PROVE  /\ RequestsOK'
         /\ pc'[r] = s
         /\ \A q \in Request : q # r => pc'[q] = pc[q]
<1>1. pc' = [pc EXCEPT ![r] = s] /\ local' = local
  BY DEF Goto
<1>2. pc' \in [Request -> Steps] /\ pc'[r] = s /\ \A q \in Request : q # r => pc'[q] = pc[q]
  BY <1>1 DEF RequestsOK
<1>3. WroteOnDraft'
  BY <1>1, <1>2 DEF RequestsOK, WroteOnDraft
<1> QED
  BY <1>1, <1>2, <1>3 DEF RequestsOK

LEMMA ReturnOK ==
  ASSUME RequestsOK, NEW r \in Request, NEW s \in {"done", "failed"}, Return(r, s)
  PROVE  /\ RequestsOK'
         /\ pc'[r] = s
         /\ \A q \in Request : q # r => pc'[q] = pc[q]
BY GoOK DEF Return, Steps

LEMMA RequestsUnchanged ==
  ASSUME RequestsOK, UNCHANGED <<pc, local>>
  PROVE  RequestsOK'
BY DEF RequestsOK, WroteOnDraft

\* The property survives a step after which the workflow, the message and
\* the history are as before and whoever stood at the message still does.
LEMMA StoredUnchanged ==
  ASSUME RunsWhatIsStored, UNCHANGED <<workflow, registered, workflowHistory>>,
         \A q \in Request : pc[q] = "publish.register" => pc'[q] = "publish.register"
  PROVE  RunsWhatIsStored'
BY DEF RunsWhatIsStored

--------------------------------------------------------------------------
LEMMA CreateStep ==
  ASSUME WorkflowInv, NEW g \in WorkflowGraph, CreateWorkflow(g)
  PROVE  WorkflowInv'
<1>1. RequestsOK'
  BY RequestsUnchanged DEF CreateWorkflow, WorkflowInv
<1>2. RowsOK'
  BY DEF CreateWorkflow, RowsOK, WorkflowRow, WorkflowInv
<1>3. RunsWhatIsStored'
  BY DEF CreateWorkflow, RunsWhatIsStored
<1> QED
  BY <1>1, <1>2, <1>3 DEF WorkflowInv

LEMMA UpdateReadStep ==
  ASSUME WorkflowInv, NEW r \in Request, NEW g \in WorkflowGraph, WorkflowUpdateRead(r, g)
  PROVE  WorkflowInv'
<1> DEFINE l == [op |-> "update", graph |-> g, read |-> workflow.status]
<1>1. l \in WorkflowLocal \union {Nothing} /\ l.graph = g /\ l.read = "draft"
  BY DEF WorkflowUpdateRead, WorkflowLocal
<1>2. Go(r, l, "workflow.update") /\ UNCHANGED <<workflow, publishKey, registered, workflowHistory>>
      /\ pc[r] = "new"
  BY DEF WorkflowUpdateRead
<1> HIDE DEF l
<1>3. RequestsOK' /\ \A q \in Request : q # r => pc'[q] = pc[q]
  BY <1>1, <1>2, GoOK DEF Steps, WorkflowInv
<1>4. RowsOK' /\ RunsWhatIsStored'
  BY <1>2, <1>3, StoredUnchanged DEF RowsOK, WorkflowInv
<1> QED
  BY <1>3, <1>4 DEF WorkflowInv

\* The only write of a graph: to a draft, to a workflow that is gone, or noted.
LEMMA UpdateWriteStep ==
  ASSUME WorkflowInv, NEW r \in Request, WorkflowUpdateWrite(r)
  PROVE  WorkflowInv'
<1>1. local[r].graph \in WorkflowGraph /\ local[r].read = "draft" /\ pc[r] = "workflow.update"
  BY DEF WorkflowInv, RequestsOK, WroteOnDraft, WorkflowUpdateWrite
<1>2. RequestsOK'
  BY ReturnOK DEF WorkflowUpdateWrite, WorkflowInv
<1>3. workflow' \in WorkflowRow /\ workflow'.status = workflow.status
      /\ (workflow'.status # "none" => workflow'.graph \in WorkflowGraph)
  BY <1>1 DEF WorkflowUpdateWrite, UpdateGraph, Live, RowsOK, WorkflowRow, WorkflowInv
<1>4. /\ workflowHistory' \in WorkflowHistory
      /\ workflow.status \in {"published", "paused"} => workflowHistory'.edited
  <2>1. workflowHistory' = [workflowHistory EXCEPT
          !.edited = @ \/ (Live /\ local[r].read = "draft" /\ workflow.status # "draft")]
    BY DEF WorkflowUpdateWrite
  <2>2. workflowHistory \in WorkflowHistory
    BY DEF WorkflowInv, RowsOK
  <2>3. workflow.status \in {"published", "paused"} => Live
    BY DEF Live
  <2> QED
    BY <1>1, <2>1, <2>2, <2>3, Zenon DEF WorkflowHistory
<1>5. RowsOK'
  BY <1>3, <1>4 DEF WorkflowUpdateWrite, RowsOK, WorkflowInv
<1>6. RunsWhatIsStored'
  BY <1>3, <1>4 DEF RunsWhatIsStored
<1> QED
  BY <1>2, <1>5, <1>6 DEF WorkflowInv

--------------------------------------------------------------------------
\* Publication.
LEMMA PublishReadStep ==
  ASSUME WorkflowInv, NEW r \in Request, PublishRead(r)
  PROVE  WorkflowInv'
<1> DEFINE l == [op |-> "publish"]
<1>1. l \in WorkflowLocal \union {Nothing} /\ Go(r, l, "publish.lock") /\ pc[r] = "new"
      /\ UNCHANGED <<workflow, publishKey, registered, workflowHistory>>
  BY DEF PublishRead, WorkflowLocal
<1> HIDE DEF l
<1>2. RequestsOK' /\ \A q \in Request : q # r => pc'[q] = pc[q]
  BY <1>1, GoOK DEF Steps, WorkflowInv
<1> QED
  BY <1>1, <1>2, StoredUnchanged DEF RowsOK, WorkflowInv

LEMMA PublishLockStep ==
  ASSUME WorkflowInv, NEW r \in Request, PublishLock(r)
  PROVE  WorkflowInv'
<1>1. RequestsOK' /\ \A q \in Request : q # r => pc'[q] = pc[q]
  BY ReturnOK, GotoOK DEF PublishLock, Steps, WorkflowInv
<1>2. RowsOK'
  BY DEF PublishLock, RowsOK, WorkflowInv
<1>3. RunsWhatIsStored'
  BY <1>1, StoredUnchanged DEF PublishLock, WorkflowInv
<1> QED
  BY <1>1, <1>2, <1>3 DEF WorkflowInv

LEMMA PublishTransitionStep ==
  ASSUME WorkflowInv, NEW r \in Request, PublishTransition(r)
  PROVE  WorkflowInv'
<1>1. CASE Transition({"draft", "paused"}, "published") /\ Goto(r, "publish.register")
  <2>1. RequestsOK' /\ pc'[r] = "publish.register"
    BY <1>1, GotoOK DEF Steps, WorkflowInv
  <2>2. RowsOK'
    BY <1>1 DEF PublishTransition, Transition, RowsOK, WorkflowRow, WorkflowInv
  <2>3. RunsWhatIsStored'
    BY <2>1 DEF RunsWhatIsStored
  <2> QED
    BY <2>1, <2>2, <2>3 DEF WorkflowInv
<1>2. CASE UNCHANGED workflow /\ Goto(r, "publish.unlock")
  <2>1. RequestsOK' /\ \A q \in Request : q # r => pc'[q] = pc[q]
    BY <1>2, GotoOK DEF Steps, WorkflowInv
  <2>2. RowsOK' /\ RunsWhatIsStored'
    BY <1>2, <2>1, StoredUnchanged DEF PublishTransition, RowsOK, WorkflowInv
  <2> QED
    BY <2>1, <2>2 DEF WorkflowInv
<1> QED
  BY <1>1, <1>2 DEF PublishTransition

LEMMA PublishUnlockStep ==
  ASSUME WorkflowInv, NEW r \in Request, PublishUnlock(r)
  PROVE  WorkflowInv'
<1>1. RequestsOK' /\ \A q \in Request : q # r => pc'[q] = pc[q]
  BY ReturnOK DEF PublishUnlock, WorkflowInv
<1>2. RowsOK' /\ RunsWhatIsStored'
  BY <1>1, StoredUnchanged DEF PublishUnlock, RowsOK, WorkflowInv
<1> QED
  BY <1>1, <1>2 DEF WorkflowInv

\* What a step leaves in the history that loses a message.
LEMMA Unsent ==
  ASSUME RowsOK, NEW lost \in BOOLEAN,
         workflowHistory' = [workflowHistory EXCEPT !.unsent = @ \/ lost]
  PROVE  /\ workflowHistory' \in WorkflowHistory
         /\ workflowHistory'.unsent <=> (workflowHistory.unsent \/ lost)
         /\ workflowHistory'.edited <=> workflowHistory.edited
<1>1. workflowHistory \in WorkflowHistory
  BY DEF RowsOK
<1> QED
  BY <1>1, Zenon DEF WorkflowHistory

LEMMA PublishRegisterStep ==
  ASSUME WorkflowInv, NEW r \in Request, PublishRegister(r)
  PROVE  WorkflowInv'
<1>1. RequestsOK'
  BY ReturnOK DEF PublishRegister, WorkflowInv
<1>2. workflow' = workflow /\ publishKey' = publishKey
  BY DEF PublishRegister
<1>3. CASE registered' = workflow.graph /\ UNCHANGED workflowHistory
  <2>1. RowsOK'
    BY <1>2, <1>3 DEF RowsOK, WorkflowRow, WorkflowInv
  <2>2. RunsWhatIsStored'
    BY <1>2, <1>3 DEF RunsWhatIsStored
  <2> QED
    BY <1>1, <2>1, <2>2 DEF WorkflowInv
<1>4. CASE workflowHistory' = [workflowHistory EXCEPT !.unsent = TRUE] /\ UNCHANGED registered
  <2>1. workflowHistory' \in WorkflowHistory /\ workflowHistory'.unsent
    BY <1>4, Zenon DEF RowsOK, WorkflowInv, WorkflowHistory
  <2>2. RowsOK'
    BY <1>2, <1>4, <2>1 DEF RowsOK, WorkflowInv
  <2>3. RunsWhatIsStored'
    BY <2>1 DEF RunsWhatIsStored
  <2> QED
    BY <1>1, <2>2, <2>3 DEF WorkflowInv
<1> QED
  BY <1>3, <1>4 DEF PublishRegister

LEMMA FailStep ==
  ASSUME WorkflowInv, NEW r \in Request, FailWorkflow(r)
  PROVE  WorkflowInv'
<1> DEFINE lost == pc[r] = "publish.register"
<1>1. Return(r, "failed") /\ UNCHANGED <<workflow, publishKey, registered>>
      /\ workflowHistory' = [workflowHistory EXCEPT !.unsent = @ \/ lost]
  BY DEF FailWorkflow, Stop
<1>2. RequestsOK' /\ \A q \in Request : q # r => pc'[q] = pc[q]
  BY <1>1, ReturnOK DEF WorkflowInv
<1>3. /\ workflowHistory' \in WorkflowHistory
      /\ workflowHistory'.unsent <=> (workflowHistory.unsent \/ lost)
      /\ workflowHistory'.edited <=> workflowHistory.edited
  BY <1>1, Unsent DEF WorkflowInv
<1>4. RowsOK'
  BY <1>1, <1>3 DEF RowsOK, WorkflowInv
<1>5. RunsWhatIsStored'
  BY <1>1, <1>2, <1>3 DEF RunsWhatIsStored, WorkflowInv
<1> QED
  BY <1>2, <1>4, <1>5 DEF WorkflowInv

--------------------------------------------------------------------------
\* Pause, resume and deletion: none publishes a workflow that was none.
LEMMA ChangeStatusStep ==
  ASSUME WorkflowInv, NEW from, NEW to \in {"published", "paused", "archived"},
         ChangeStatus(from, to), to # "archived" => from \subseteq {"published", "paused"},
         "none" \notin from
  PROVE  WorkflowInv'
<1>1. RequestsOK'
  BY RequestsUnchanged DEF ChangeStatus, WorkflowInv
<1>2. RowsOK'
  BY DEF ChangeStatus, Transition, RowsOK, WorkflowRow, WorkflowInv
<1>3. RunsWhatIsStored'
  BY DEF ChangeStatus, Transition, RunsWhatIsStored, WorkflowInv, RowsOK, WorkflowRow
<1> QED
  BY <1>1, <1>2, <1>3 DEF WorkflowInv

LEMMA KeyExpiresStep ==
  ASSUME WorkflowInv, KeyExpires
  PROVE  WorkflowInv'
<1>1. RequestsOK'
  BY RequestsUnchanged DEF KeyExpires, WorkflowInv
<1> QED
  BY <1>1, StoredUnchanged DEF KeyExpires, RowsOK, WorkflowInv

--------------------------------------------------------------------------
LEMMA WorkflowInvInit == WorkflowInit => WorkflowInv
BY DEF WorkflowInit, HandlersInit, WorkflowInv, RequestsOK, WroteOnDraft, RowsOK, Steps,
   WorkflowRow, WorkflowHistory, RunsWhatIsStored

LEMMA WorkflowInvStep == WorkflowInv /\ [WorkflowNext]_workflowVars => WorkflowInv'
<1> SUFFICES ASSUME WorkflowInv, [WorkflowNext]_workflowVars
             PROVE  WorkflowInv'
  OBVIOUS
<1>1. CASE UNCHANGED workflowVars
  <2>1. UNCHANGED <<workflow, publishKey, registered, workflowHistory, pc, local>>
    BY <1>1 DEF workflowVars, workflowState
  <2> QED
    BY <2>1, RequestsUnchanged, StoredUnchanged DEF WorkflowInv, RowsOK
<1>2. ASSUME NEW r \in Request, WorkflowRequest(r)
      PROVE  WorkflowInv'
  BY <1>2, UpdateReadStep, UpdateWriteStep, PublishReadStep, PublishLockStep,
     PublishTransitionStep, PublishUnlockStep, PublishRegisterStep, FailStep DEF WorkflowRequest
<1>3. ASSUME NEW g \in WorkflowGraph, CreateWorkflow(g)
      PROVE  WorkflowInv'
  BY <1>3, CreateStep
<1>4. CASE PauseWorkflow
  BY <1>4, ChangeStatusStep DEF PauseWorkflow
<1>5. CASE ResumeWorkflow
  BY <1>5, ChangeStatusStep DEF ResumeWorkflow
<1>6. CASE DeleteWorkflow
  BY <1>6, ChangeStatusStep DEF DeleteWorkflow
<1>7. CASE KeyExpires
  BY <1>7, KeyExpiresStep
<1> QED
  BY <1>1, <1>2, <1>3, <1>4, <1>5, <1>6, <1>7 DEF WorkflowNext

\* The inductive invariant holds in every state.
THEOREM WorkflowInvariant == WorkflowSpec => []WorkflowInv
<1> QED
  BY WorkflowInvInit, WorkflowInvStep, PTL DEF WorkflowSpec

\* Type correctness, for every instance.
THEOREM WorkflowTypeCorrect == WorkflowSpec => []WorkflowTypeOK
<1>1. WorkflowInv => WorkflowTypeOK
  BY DEF WorkflowInv, RequestsOK, RowsOK, Steps, WorkflowTypeOK
<1> QED
  BY <1>1, WorkflowInvariant, PTL

\* However edits, publications, pauses and deletions overlap and fail, the
\* engine was given the graph of a published or paused workflow, but for the
\* lost messages and late edits that the property names.
THEOREM RunsWhatIsStoredHolds == WorkflowSpec => []RunsWhatIsStored
<1>1. WorkflowInv => RunsWhatIsStored
  BY DEF WorkflowInv
<1> QED
  BY <1>1, WorkflowInvariant, PTL

--------------------------------------------------------------------------
(* Email templates *)

TemplateSteps ==
  {"new", "template.insert", "template.next", "template.clone",
   "template.patch", "template.publish", "done", "failed"}

TemplateLocals == TemplateLocal \union {Nothing}

Creation == [op: {"create"}, publish: BOOLEAN]
Updating == [op: {"update"}, target: Version, found: Template, patch: BOOLEAN, publish: BOOLEAN]

HoldsTemplate(s, l) ==
  /\ s = "template.insert" => l \in Creation
  /\ s \in {"template.next", "template.clone", "template.patch", "template.publish"} => l \in Updating

TemplateRequests ==
  /\ pc \in [Request -> TemplateSteps]
  /\ local \in [Request -> TemplateLocals]
  /\ \A r \in Request : HoldsTemplate(pc[r], local[r])

TemplateRows == versions \in [Version -> Template] /\ templateHistory \in TemplateHistory

\* Request r is about to publish what it patched.
WillPublish(r) == pc[r] = "template.publish" /\ local[r].patch

\* A draft that is about to be published still has the text of the patch.
PatchStands ==
  \A r \in Request : WillPublish(r) /\ local[r].target \notin templateHistory.mixed =>
    versions[local[r].target].content = {r} /\ versions[local[r].target].status # "none"

\* What was published is no draft again, and no row that can be inserted.
Frozen ==
  \A v \in Version \ templateHistory.mixed : templateHistory.wrote[v] # {} =>
    /\ templateHistory.wrote[v] = versions[v].content
    /\ versions[v].status \in {"published", "deleted"}

TemplateInv == TemplateRequests /\ TemplateRows /\ PatchStands /\ Frozen

--------------------------------------------------------------------------
\* Every nonempty set of versions has a last one.
LEMMA LastVersion ==
  ASSUME NEW S \in SUBSET Version, S # {}
  PROVE  \E v \in S : \A w \in S : w <= v
<1> DEFINE T == {MaxVersion - v : v \in S}
           R == OpToRel(<, Nat)
<1>1. \A v \in S : v \in Nat /\ MaxVersion - v \in Nat
  BY MaxVersionAssumption DEF Version
<1>2. T \subseteq Nat /\ T # {}
  BY <1>1
<1>3. IsWellFoundedOn(R, Nat)
  BY NatLessThanWellFounded
<1>4. \A x \in Nat, y \in Nat : y < x => <<y, x>> \in R
  BY DEF OpToRel
<1> HIDE DEF R, T
<1>5. PICK x \in T : \A y \in T : ~ (<<y, x>> \in R)
  BY <1>2, <1>3, WFMin
<1>6. ASSUME NEW y \in T
      PROVE  x <= y
  <2>1. x \in Nat /\ y \in Nat /\ ~ (<<y, x>> \in R)
    BY <1>2, <1>5
  <2>2. ~ (y < x)
    BY <1>4, <2>1, Zenon
  <2> QED
    BY <2>1, <2>2
<1>7. PICK v \in S : x = MaxVersion - v
  BY <1>5 DEF T
<1>8. ASSUME NEW w \in S
      PROVE  w <= v
  <2>1. MaxVersion - w \in T
    BY DEF T
  <2>2. x <= MaxVersion - w
    BY <1>6, <2>1
  <2> QED
    BY <1>1, <1>7, <2>2, MaxVersionAssumption
<1> QED
  BY <1>8

LEMMA LatestType == Latest \in 0 .. MaxVersion
<1>1. CASE Current = {}
  BY <1>1, MaxVersionAssumption DEF Latest
<1>2. CASE Current # {}
  <2>1. Current \in SUBSET Version
    BY DEF Current
  <2>2. \E v \in Current : \A w \in Current : w <= v
    BY <1>2, <2>1, LastVersion
  <2>3. Latest \in Current
    BY <1>2, <2>2 DEF Latest
  <2> QED
    BY <2>1, <2>3 DEF Version
<1> QED
  BY <1>1, <1>2

\* A request that moves, with what it holds, leaves the others alone.
TemplateMoves(r, l, s) ==
  /\ pc'[r] = s /\ local'[r] = l
  /\ \A q \in Request : q # r => pc'[q] = pc[q] /\ local'[q] = local[q]

LEMMA TemplateConstants ==
  /\ TemplateSteps' = TemplateSteps /\ TemplateLocals' = TemplateLocals
  /\ Template' = Template /\ TemplateHistory' = TemplateHistory
BY DEF TemplateSteps, TemplateLocals, TemplateLocal, Template, TemplateHistory, Nothing, Version

LEMMA TemplateGoOK ==
  ASSUME TemplateRequests, NEW r \in Request, NEW s \in TemplateSteps, NEW l \in TemplateLocals,
         Go(r, l, s), HoldsTemplate(s, l)
  PROVE  TemplateRequests' /\ TemplateMoves(r, l, s)
<1>1. /\ local' \in [Request -> TemplateLocals] /\ local'[r] = l
      /\ \A q \in Request : q # r => local'[q] = local[q]
  BY DEF Go, TemplateRequests
<1>2. /\ pc' \in [Request -> TemplateSteps] /\ pc'[r] = s
      /\ \A q \in Request : q # r => pc'[q] = pc[q]
  BY DEF Go, TemplateRequests
<1>3. \A q \in Request : HoldsTemplate(pc'[q], local'[q])
  BY <1>1, <1>2 DEF TemplateRequests
<1>4. Creation' = Creation /\ Updating' = Updating
  BY DEF Creation, Updating, Template, Version
<1>5. \A q \in Request : HoldsTemplate(pc[q], local[q])'
  BY <1>3, <1>4 DEF HoldsTemplate
<1> QED
  BY <1>1, <1>2, <1>5, TemplateConstants DEF TemplateRequests, TemplateMoves

LEMMA TemplateReturnOK ==
  ASSUME TemplateRequests, NEW r \in Request, NEW s \in {"done", "failed"}, Return(r, s)
  PROVE  TemplateRequests' /\ TemplateMoves(r, Nothing, s)
<1>1. Go(r, Nothing, s) /\ Nothing \in TemplateLocals
  BY DEF Return, TemplateLocals
<1>2. HoldsTemplate(s, Nothing) /\ s \in TemplateSteps
  BY DEF HoldsTemplate, TemplateSteps
<1> HIDE DEF Nothing
<1> QED
  BY <1>1, <1>2, TemplateGoOK

\* An update that goes on, or is done.
LEMMA AdvanceOK ==
  ASSUME TemplateRequests, NEW r \in Request, NEW l \in Updating, NEW s \in TemplateSteps,
         s # "template.insert", Advance(r, l, s)
  PROVE  TemplateRequests' /\ \E k \in {l, Nothing} : TemplateMoves(r, k, s) /\ (s # "done" => k = l)
<1>1. CASE s = "done"
  BY <1>1, TemplateReturnOK DEF Advance
<1>2. CASE s # "done"
  <2>1. l \in TemplateLocals /\ HoldsTemplate(s, l)
    BY DEF TemplateLocals, TemplateLocal, Updating, HoldsTemplate
  <2>2. TemplateRequests' /\ TemplateMoves(r, l, s)
    BY <1>2, <2>1, TemplateGoOK DEF Advance
  <2> QED
    BY <2>2
<1> QED
  BY <1>1, <1>2

\* A step that changes no row, and after which no other request is about to
\* publish a patch.
LEMMA TemplateRowsKept ==
  ASSUME TemplateRows, PatchStands, Frozen, UNCHANGED <<versions, templateHistory>>,
         \A q \in Request : WillPublish(q)' => WillPublish(q) /\ local'[q] = local[q]
  PROVE  TemplateRows' /\ PatchStands' /\ Frozen'
<1>1. TemplateRows'
  BY TemplateConstants DEF TemplateRows
<1> QED
  BY <1>1 DEF PatchStands, Frozen

\* The fields of a row and of the history.
LEMMA RowFields ==
  ASSUME TemplateRows, NEW v \in Version
  PROVE  /\ versions[v] \in Template
         /\ versions[v].status \in {"none", "draft", "published", "deleted"}
         /\ versions[v].content \in SUBSET Request
         /\ templateHistory.wrote \in [Version -> SUBSET Request]
         /\ templateHistory.mixed \in SUBSET Version
BY DEF TemplateRows, Template, TemplateHistory

\* A row is stored where there was none or a draft, and no text awaits
\* publication there; if that publishes it, its text is what was meant.
LEMMA StoreOK ==
  ASSUME TemplateInv, NEW v \in Version, NEW new \in Template, NEW content \in SUBSET Request,
         Store(v, new, content), new.status # "none",
         versions[v].status \in {"none", "draft"},
         v \notin templateHistory.mixed /\ new.status = "published" => new.content = content,
         \A q \in Request : WillPublish(q)' =>
           WillPublish(q) /\ local'[q] = local[q]
             /\ (local[q].target = v /\ v \notin templateHistory.mixed => new.content = versions[v].content)
  PROVE  TemplateRows' /\ PatchStands' /\ Frozen'
<1> DEFINE H == templateHistory
<1>1. /\ versions' \in [Version -> Template] /\ versions'[v] = new
      /\ \A w \in Version : w # v => versions'[w] = versions[w]
  BY DEF Store, TemplateInv, TemplateRows
<1>2. /\ templateHistory' \in TemplateHistory /\ templateHistory'.mixed = H.mixed
      /\ \A w \in Version : w # v => templateHistory'.wrote[w] = H.wrote[w]
      /\ templateHistory'.wrote[v] = IF new.status = "published" THEN content ELSE H.wrote[v]
  <2>1. H \in TemplateHistory /\ H.wrote \in [Version -> SUBSET Request]
    BY DEF TemplateInv, TemplateRows, TemplateHistory
  <2>2. CASE new.status = "published"
    <3> DEFINE W == [H.wrote EXCEPT ![v] = content]
    <3>1. templateHistory' = [H EXCEPT !.wrote = W]
      BY <2>2 DEF Store
    <3>2. W \in [Version -> SUBSET Request] /\ W[v] = content
          /\ \A w \in Version : w # v => W[w] = H.wrote[w]
      BY <2>1
    <3> HIDE DEF W
    <3> QED
      BY <2>1, <2>2, <3>1, <3>2 DEF TemplateHistory
  <2>3. CASE new.status # "published"
    BY <2>1, <2>3 DEF Store
  <2> QED
    BY <2>2, <2>3
<1>3. TemplateRows'
  BY <1>1, <1>2, TemplateConstants DEF TemplateRows
<1>4. PatchStands'
  <2> SUFFICES ASSUME NEW q \in Request, WillPublish(q)', local'[q].target \notin templateHistory'.mixed
               PROVE  versions'[local'[q].target].content = {q}
                      /\ versions'[local'[q].target].status # "none"
    BY DEF PatchStands
  <2>1. WillPublish(q) /\ local'[q] = local[q]
    OBVIOUS
  <2>2. local[q].target \in Version
    BY <2>1 DEF WillPublish, TemplateInv, TemplateRequests, HoldsTemplate, Updating
  <2>3. versions[local[q].target].content = {q} /\ versions[local[q].target].status # "none"
    BY <1>2, <2>1 DEF TemplateInv, PatchStands
  <2>4. local[q].target = v => new.content = versions[v].content
    BY <1>2, <2>1
  <2> QED
    BY <1>1, <2>1, <2>2, <2>3, <2>4
<1>5. Frozen'
  <2>1. H.wrote[v] = {} \/ v \in H.mixed
    BY DEF TemplateInv, Frozen
  <2> QED
    BY <1>1, <1>2, <2>1 DEF TemplateInv, Frozen
<1> QED
  BY <1>3, <1>4, <1>5

--------------------------------------------------------------------------
LEMMA TemplateBeginStep ==
  ASSUME TemplateInv, NEW r \in Request,
         \/ \E publish \in BOOLEAN : CreateTemplateCheck(r, publish)
         \/ \E v \in Version, patch, publish \in BOOLEAN : TemplateRead(r, v, patch, publish)
  PROVE  TemplateInv'
<1>1. UNCHANGED <<versions, templateHistory>> /\ pc[r] = "new"
  BY DEF CreateTemplateCheck, TemplateRead
<1>2. PICK l, s : /\ TemplateRequests' /\ TemplateMoves(r, l, s)
                  /\ s = "template.publish" => l.patch = FALSE
  <2>1. ASSUME NEW publish \in BOOLEAN, CreateTemplateCheck(r, publish)
        PROVE  \E l, s : /\ TemplateRequests' /\ TemplateMoves(r, l, s)
                         /\ s = "template.publish" => l.patch = FALSE
    <3> DEFINE l == [op |-> "create", publish |-> publish]
    <3>1. l \in TemplateLocals /\ HoldsTemplate("template.insert", l)
          /\ "template.insert" \in TemplateSteps /\ Go(r, l, "template.insert")
      BY <2>1 DEF CreateTemplateCheck, TemplateLocals, TemplateLocal, HoldsTemplate, Creation, TemplateSteps
    <3> HIDE DEF l
    <3>2. TemplateRequests' /\ TemplateMoves(r, l, "template.insert")
      BY <3>1, TemplateGoOK DEF TemplateInv
    <3> QED
      BY <3>2
  <2>2. ASSUME NEW v \in Version, NEW patch \in BOOLEAN, NEW publish \in BOOLEAN,
               TemplateRead(r, v, patch, publish)
        PROVE  \E l, s : /\ TemplateRequests' /\ TemplateMoves(r, l, s)
                         /\ s = "template.publish" => l.patch = FALSE
    <3> DEFINE l == [op |-> "update", target |-> v, found |-> versions[v], patch |-> patch, publish |-> publish]
               s == IF versions[v].status = "published" THEN "template.next" ELSE AfterClone(l)
    <3>1. l \in Updating
      BY RowFields DEF Updating, TemplateInv
    <3>2. s \in TemplateSteps /\ s # "template.insert" /\ (s = "template.publish" => patch = FALSE)
      BY DEF AfterClone, TemplateSteps
    <3>3. Advance(r, l, s) /\ l.patch = patch
      BY <2>2 DEF TemplateRead
    <3> HIDE DEF l, s
    <3>4. PICK k \in {l, Nothing} : TemplateMoves(r, k, s) /\ (s # "done" => k = l)
      BY <3>1, <3>2, <3>3, AdvanceOK DEF TemplateInv
    <3>5. TemplateRequests'
      BY <3>1, <3>2, <3>3, AdvanceOK DEF TemplateInv
    <3>6. s = "template.publish" => k.patch = FALSE
      BY <3>2, <3>3, <3>4
    <3> QED
      BY <3>4, <3>5, <3>6
  <2> QED
    BY <2>1, <2>2
<1>3. \A q \in Request : WillPublish(q)' => WillPublish(q) /\ local'[q] = local[q]
  BY <1>2 DEF TemplateMoves, WillPublish
<1> QED
  BY <1>1, <1>2, <1>3, TemplateRowsKept DEF TemplateInv

\* A request that fails, or that returns with nothing stored.
LEMMA TemplateReturnStep ==
  ASSUME TemplateInv, NEW r \in Request, NEW s \in {"done", "failed"}, Return(r, s),
         UNCHANGED <<versions, templateHistory>>
  PROVE  TemplateInv'
<1>1. TemplateRequests' /\ TemplateMoves(r, Nothing, s)
  BY TemplateReturnOK DEF TemplateInv
<1>2. \A q \in Request : WillPublish(q)' => WillPublish(q) /\ local'[q] = local[q]
  BY <1>1 DEF TemplateMoves, WillPublish
<1> QED
  BY <1>1, <1>2, TemplateRowsKept DEF TemplateInv

\* No text awaits publication in a version that has no row.
LEMMA NoneAwaited ==
  ASSUME TemplateInv, NEW v \in Version, versions[v].status = "none",
         v \notin templateHistory.mixed, NEW q \in Request, WillPublish(q)
  PROVE  local[q].target # v
BY DEF TemplateInv, PatchStands

LEMMA CreateInsertStep ==
  ASSUME TemplateInv, NEW r \in Request, CreateTemplateInsert(r)
  PROVE  TemplateInv'
<1>1. CASE versions[1].status # "none"
  BY <1>1, TemplateReturnStep DEF CreateTemplateInsert
<1>2. CASE versions[1].status = "none"
  <2> DEFINE new == [status |-> IF local[r].publish THEN "published" ELSE "draft", content |-> {r}]
  <2>1. Store(1, new, {r}) /\ Return(r, "done")
    BY <1>2 DEF CreateTemplateInsert
  <2>2. new \in Template /\ new.status # "none" /\ new.content = {r} /\ {r} \in SUBSET Request
        /\ 1 \in Version
    BY MaxVersionAssumption DEF Template, Version
  <2>3. TemplateRequests' /\ TemplateMoves(r, Nothing, "done")
    BY <2>1, TemplateReturnOK DEF TemplateInv
  <2>4. \A q \in Request : WillPublish(q)' => WillPublish(q) /\ local'[q] = local[q]
    BY <2>3 DEF TemplateMoves, WillPublish
  <2> HIDE DEF new
  <2>5. \A q \in Request : WillPublish(q)' =>
          WillPublish(q) /\ local'[q] = local[q]
            /\ (local[q].target = 1 /\ 1 \notin templateHistory.mixed => new.content = versions[1].content)
    BY <1>2, <2>2, <2>4, NoneAwaited
  <2>6. TemplateRows' /\ PatchStands' /\ Frozen'
    BY <1>2, <2>1, <2>2, <2>5, StoreOK
  <2> QED
    BY <2>3, <2>6 DEF TemplateInv
<1> QED
  BY <1>1, <1>2 DEF CreateTemplateInsert

\* What is known of a request that updates.
LEMMA UpdatingFields ==
  ASSUME TemplateInv, NEW r \in Request,
         pc[r] \in {"template.next", "template.clone", "template.patch", "template.publish"}
  PROVE  /\ local[r] \in Updating /\ local[r].target \in Version /\ local[r].found \in Template
         /\ local[r].patch \in BOOLEAN /\ local[r].publish \in BOOLEAN
BY DEF TemplateInv, TemplateRequests, HoldsTemplate, Updating

LEMMA NextVersionStep ==
  ASSUME TemplateInv, NEW r \in Request, NextVersion(r)
  PROVE  TemplateInv'
<1> DEFINE l == [local[r] EXCEPT !.target = Latest + 1]
<1>1. Latest + 1 \in Version
  BY LatestType, MaxVersionAssumption DEF NextVersion, Version
<1>2. l \in Updating
  <2>1. local[r] \in Updating
    BY UpdatingFields DEF NextVersion
  <2> QED
    BY <1>1, <2>1 DEF Updating
<1>3. Go(r, l, "template.clone") /\ UNCHANGED <<versions, templateHistory>>
  BY DEF NextVersion
<1> HIDE DEF l
<1>4. TemplateRequests' /\ TemplateMoves(r, l, "template.clone")
  BY <1>2, <1>3, TemplateGoOK DEF TemplateInv, TemplateLocals, TemplateLocal, Updating, HoldsTemplate, TemplateSteps
<1>5. \A q \in Request : WillPublish(q)' => WillPublish(q) /\ local'[q] = local[q]
  BY <1>4 DEF TemplateMoves, WillPublish
<1> QED
  BY <1>3, <1>4, <1>5, TemplateRowsKept DEF TemplateInv

LEMMA CloneStep ==
  ASSUME TemplateInv, NEW r \in Request, CloneInsert(r)
  PROVE  TemplateInv'
<1> DEFINE l == local[r]
           v == l.target
           s == AfterClone(l)
           new == [l.found EXCEPT !.status = "draft"]
<1>1. l \in Updating /\ v \in Version /\ l.found \in Template /\ l.patch \in BOOLEAN /\ l.publish \in BOOLEAN
  BY UpdatingFields DEF CloneInsert
<1>2. CASE versions[v].status # "none"
  BY <1>2, TemplateReturnStep DEF CloneInsert
<1>3. CASE versions[v].status = "none"
  <2>1. Store(v, new, l.found.content) /\ Advance(r, l, s)
    BY <1>3 DEF CloneInsert
  <2>2. new \in Template /\ new.status = "draft" /\ l.found.content \in SUBSET Request
    BY <1>1 DEF Template
  <2>3. s \in TemplateSteps /\ s # "template.insert" /\ (s = "template.publish" => ~ l.patch)
    BY DEF AfterClone, TemplateSteps
  <2> HIDE DEF new, s
  <2>4. TemplateRequests'
    BY <1>1, <2>1, <2>3, AdvanceOK DEF TemplateInv
  <2>5. PICK k \in {l, Nothing} : TemplateMoves(r, k, s) /\ (s # "done" => k = l)
    BY <1>1, <2>1, <2>3, AdvanceOK DEF TemplateInv
  <2>6. \A q \in Request : WillPublish(q)' => WillPublish(q) /\ local'[q] = local[q]
    BY <2>3, <2>5 DEF TemplateMoves, WillPublish
  <2>7. \A q \in Request : WillPublish(q)' =>
          WillPublish(q) /\ local'[q] = local[q]
            /\ (local[q].target = v /\ v \notin templateHistory.mixed => new.content = versions[v].content)
    BY <1>1, <1>3, <2>6, NoneAwaited
  <2> HIDE DEF v
  <2>8. TemplateRows' /\ PatchStands' /\ Frozen'
    <3>1. v \in Version /\ versions[v].status = "none"
      BY <1>1, <1>3 DEF v
    <3> QED
      BY <2>1, <2>2, <2>7, <3>1, StoreOK
  <2> QED
    BY <2>4, <2>8 DEF TemplateInv
<1> QED
  BY <1>2, <1>3 DEF CloneInsert

\* A patch of a draft that another request is about to publish is noted.
LEMMA PatchStep ==
  ASSUME TemplateInv, NEW r \in Request, PatchDraft(r)
  PROVE  TemplateInv'
<1> DEFINE l == local[r]
           v == l.target
           s == IF l.publish THEN "template.publish" ELSE "done"
           new == [versions[v] EXCEPT !.content = {r}]
           H == templateHistory
           meets == \E q \in Request \ {r} : WillPublish(q) /\ local[q].target = v
<1>1. l \in Updating /\ v \in Version
  BY UpdatingFields DEF PatchDraft
<1>2. CASE versions[v].status # "draft"
  BY <1>2, TemplateReturnStep DEF PatchDraft
<1>3. CASE versions[v].status = "draft"
  <2>1. versions' = [versions EXCEPT ![v] = new] /\ Advance(r, l, s)
        /\ templateHistory' = IF meets THEN [H EXCEPT !.mixed = @ \union {v}] ELSE H
    BY <1>3 DEF PatchDraft, WillPublish
  <2>2. new \in Template /\ new.status = "draft" /\ new.content = {r}
    <3>1. versions[v] \in Template
      BY <1>1, RowFields DEF TemplateInv
    <3> QED
      BY <1>3, <3>1 DEF Template
  <2>3. s \in TemplateSteps /\ s # "template.insert"
    BY DEF TemplateSteps
  <2> HIDE DEF new, s
  <2>4. TemplateRequests'
    BY <1>1, <2>1, <2>3, AdvanceOK DEF TemplateInv
  <2>5. PICK k \in {l, Nothing} : TemplateMoves(r, k, s) /\ (s # "done" => k = l)
    BY <1>1, <2>1, <2>3, AdvanceOK DEF TemplateInv
  <2>6. \A q \in Request \ {r} : WillPublish(q)' => WillPublish(q) /\ local'[q] = local[q]
    BY <2>5 DEF TemplateMoves, WillPublish
  <2>7. WillPublish(r)' => local'[r].target = v
    BY <2>5 DEF TemplateMoves, WillPublish, s
  <2>8. /\ versions' \in [Version -> Template] /\ versions'[v] = new
        /\ \A w \in Version : w # v => versions'[w] = versions[w]
    BY <1>1, <2>1, <2>2 DEF TemplateInv, TemplateRows
  <2>9. /\ templateHistory' \in TemplateHistory /\ templateHistory'.wrote = H.wrote
        /\ H.mixed \subseteq templateHistory'.mixed
        /\ (meets => v \in templateHistory'.mixed)
    <3>1. H \in TemplateHistory
      BY DEF TemplateInv, TemplateRows
    <3>2. [H EXCEPT !.mixed = @ \union {v}] \in TemplateHistory
          /\ [H EXCEPT !.mixed = @ \union {v}].wrote = H.wrote
          /\ [H EXCEPT !.mixed = @ \union {v}].mixed = H.mixed \union {v}
      BY <1>1, <3>1 DEF TemplateHistory
    <3> HIDE DEF meets
    <3> QED
      BY <2>1, <3>1, <3>2
  <2>10. TemplateRows'
    BY <2>8, <2>9, TemplateConstants DEF TemplateRows
  <2>11. PatchStands'
    <3> SUFFICES ASSUME NEW q \in Request, WillPublish(q)', local'[q].target \notin templateHistory'.mixed
                 PROVE  versions'[local'[q].target].content = {q}
                        /\ versions'[local'[q].target].status # "none"
      BY DEF PatchStands
    <3>1. CASE q = r
      BY <2>2, <2>7, <2>8, <3>1
    <3>2. CASE q # r
      <4>1. WillPublish(q) /\ local'[q] = local[q]
        BY <2>6, <3>2
      <4>2. local[q].target \in Version /\ local[q].target # v
        <5>1. local[q].target \in Version
          BY <4>1, UpdatingFields DEF WillPublish
        <5>2. local[q].target # v
          BY <2>9, <3>2, <4>1
        <5> QED
          BY <5>1, <5>2
      <4>3. versions[local[q].target].content = {q} /\ versions[local[q].target].status # "none"
        BY <2>9, <4>1 DEF TemplateInv, PatchStands
      <4> QED
        BY <2>8, <4>1, <4>2, <4>3
    <3> QED
      BY <3>1, <3>2
  <2>12. Frozen'
    <3>1. H.wrote[v] = {} \/ v \in H.mixed
      BY <1>1, <1>3 DEF TemplateInv, Frozen
    <3> QED
      BY <2>8, <2>9, <3>1 DEF TemplateInv, Frozen
  <2> QED
    BY <2>4, <2>10, <2>11, <2>12 DEF TemplateInv
<1> QED
  BY <1>2, <1>3 DEF PatchDraft

LEMMA PublishStep ==
  ASSUME TemplateInv, NEW r \in Request, PublishDraft(r)
  PROVE  TemplateInv'
<1> DEFINE l == local[r]
           v == l.target
           new == [versions[v] EXCEPT !.status = "published"]
           content == IF l.patch THEN {r} ELSE versions[v].content
<1>1. v \in Version /\ l.patch \in BOOLEAN /\ pc[r] = "template.publish"
  BY UpdatingFields DEF PublishDraft
<1>2. CASE versions[v].status # "draft"
  BY <1>2, TemplateReturnStep DEF PublishDraft
<1>3. CASE versions[v].status = "draft"
  <2>1. Store(v, new, content) /\ Return(r, "done")
    BY <1>3 DEF PublishDraft
  <2>2. new \in Template /\ new.status = "published" /\ new.content = versions[v].content
        /\ content \in SUBSET Request
    <3>1. versions[v] \in Template /\ versions[v].content \in SUBSET Request
      BY <1>1, RowFields DEF TemplateInv
    <3> QED
      BY <3>1 DEF Template
  <2>3. v \notin templateHistory.mixed => new.content = content
    BY <1>1, <2>2 DEF TemplateInv, PatchStands, WillPublish
  <2> HIDE DEF new, content
  <2>4. TemplateRequests' /\ TemplateMoves(r, Nothing, "done")
    BY <2>1, TemplateReturnOK DEF TemplateInv
  <2>5. \A q \in Request : WillPublish(q)' => WillPublish(q) /\ local'[q] = local[q]
    BY <2>4 DEF TemplateMoves, WillPublish
  <2> HIDE DEF v
  <2>6. TemplateRows' /\ PatchStands' /\ Frozen'
    BY <1>1, <1>3, <2>1, <2>2, <2>3, <2>5, StoreOK
  <2> QED
    BY <2>4, <2>6 DEF TemplateInv
<1> QED
  BY <1>2, <1>3 DEF PublishDraft

LEMMA DeleteStep ==
  ASSUME TemplateInv, NEW v \in Version, DeleteTemplate(v)
  PROVE  TemplateInv'
<1> DEFINE new == [versions[v] EXCEPT !.status = "deleted"]
<1>1. versions' = [versions EXCEPT ![v] = new] /\ UNCHANGED <<templateHistory, pc, local>>
  BY DEF DeleteTemplate
<1>2. new \in Template /\ new.status = "deleted" /\ new.content = versions[v].content
  <2>1. versions[v] \in Template
    BY RowFields DEF TemplateInv
  <2> QED
    BY <2>1 DEF Template
<1> HIDE DEF new
<1>3. /\ versions' \in [Version -> Template] /\ versions'[v] = new
      /\ \A w \in Version : w # v => versions'[w] = versions[w]
  BY <1>1, <1>2 DEF TemplateInv, TemplateRows
<1>4. TemplateRequests'
  BY <1>1, TemplateConstants DEF TemplateInv, TemplateRequests, HoldsTemplate, Creation, Updating, Template, Version
<1>5. TemplateRows'
  BY <1>1, <1>3, TemplateConstants DEF TemplateInv, TemplateRows
<1>6. PatchStands'
  <2>1. \A q \in Request : WillPublish(q) => local[q].target \in Version
    BY UpdatingFields DEF WillPublish
  <2> QED
    BY <1>1, <1>2, <1>3, <2>1 DEF TemplateInv, PatchStands, WillPublish
<1>7. Frozen'
  BY <1>1, <1>2, <1>3 DEF TemplateInv, Frozen
<1> QED
  BY <1>4, <1>5, <1>6, <1>7 DEF TemplateInv

LEMMA TemplateInvariant == TemplateSpec => []TemplateInv
<1>1. TemplateInit => TemplateInv
  <2> SUFFICES ASSUME TemplateInit
               PROVE  TemplateInv
    OBVIOUS
  <2>1. TemplateRequests
    BY DEF TemplateInit, HandlersInit, TemplateRequests, TemplateSteps, TemplateLocals, HoldsTemplate
  <2>2. NoTemplate \in Template
    BY DEF NoTemplate, Template
  <2>3. TemplateRows
    BY <2>2 DEF TemplateInit, TemplateRows, TemplateHistory
  <2>4. PatchStands /\ Frozen
    BY DEF TemplateInit, HandlersInit, PatchStands, WillPublish, Frozen
  <2> QED
    BY <2>1, <2>3, <2>4 DEF TemplateInv
<1>2. TemplateInv /\ [TemplateNext]_templateVars => TemplateInv'
  <2> SUFFICES ASSUME TemplateInv, [TemplateNext]_templateVars
               PROVE  TemplateInv'
    OBVIOUS
  <2>1. CASE UNCHANGED templateVars
    <3>1. UNCHANGED <<versions, templateHistory, pc, local>>
      BY <2>1 DEF templateVars, templateState
    <3>2. TemplateRequests'
      BY <3>1, TemplateConstants DEF TemplateInv, TemplateRequests, HoldsTemplate, Creation, Updating, Template, Version
    <3>3. TemplateRows' /\ PatchStands' /\ Frozen'
      BY <3>1, TemplateRowsKept DEF TemplateInv, WillPublish
    <3> QED
      BY <3>2, <3>3 DEF TemplateInv
  <2>2. ASSUME NEW r \in Request, TemplateRequest(r)
        PROVE  TemplateInv'
    <3>1. CASE FailTemplate(r)
      BY <3>1, TemplateReturnStep DEF FailTemplate, Stop
    <3> QED
      BY <2>2, <3>1, TemplateBeginStep, CreateInsertStep, NextVersionStep, CloneStep, PatchStep, PublishStep
      DEF TemplateRequest
  <2> QED
    BY <2>1, <2>2, DeleteStep DEF TemplateNext
<1> QED
  BY <1>1, <1>2, PTL DEF TemplateSpec

\* Every reachable state of the templates has the types of TemplateTypeOK:
\* no update goes on with a version beyond the bound.
THEOREM TemplateTypeCorrect == TemplateSpec => []TemplateTypeOK
<1>1. TemplateInv => TemplateTypeOK
  BY DEF TemplateInv, TemplateRequests, TemplateRows, TemplateTypeOK, TemplateSteps, TemplateLocals
<1> QED
  BY <1>1, TemplateInvariant, PTL

\* However updates, publications and deletions of one name overlap, a version
\* that was published has the text its publisher meant and keeps it, unless
\* another request patched the same draft between patch and publication.
THEOREM PublishedIsFrozenHolds == TemplateSpec => []PublishedIsFrozen
<1>1. TemplateInv => PublishedIsFrozen
  BY DEF TemplateInv, Frozen, PublishedIsFrozen
<1> QED
  BY <1>1, TemplateInvariant, PTL

--------------------------------------------------------------------------
(* Events *)

EventSteps ==
  {"new", "event.limit", "event.quota", "event.insert", "event.publish",
   "event.delete", "event.usage", "done", "failed"}

EventLocals == EventLocal \union {Nothing}

EventRequests ==
  /\ pc \in [Request -> EventSteps]
  /\ local \in [Request -> EventLocals]
  /\ \A r \in Request : pc[r] \notin {"new", "done", "failed"} => local[r] \in EventLocal

\* What the row and the message of a request are, by where it stands.
Placed(r) ==
  /\ pc[r] \in {"new", "event.limit", "event.quota", "event.insert"} => ~ events[r].row /\ ~ events[r].queued
  /\ pc[r] = "event.publish" => events[r].row /\ ~ events[r].queued
  /\ pc[r] = "event.usage" => events[r].row /\ events[r].queued
  /\ pc[r] = "event.delete" /\ events[r].queued => r \in eventHistory.unacked
  /\ r \in eventHistory.accepted => pc[r] = "done" /\ events[r].row /\ events[r].queued
  /\ r \in eventHistory.failed => pc[r] = "failed"
  /\ r \in eventHistory.failed \ eventHistory.stranded =>
       ~ events[r].row /\ (events[r].queued => r \in eventHistory.unacked)

EventRows ==
  /\ activeKeys \subseteq WriteKey
  /\ events \in [Request -> EventRow]
  /\ \A r \in Request : Placed(r)

\* Each usage is that of an accepted event, which is accepted once.
Metering == metered \in Nat /\ IsFiniteSet(eventHistory.accepted) /\ metered = Cardinality(eventHistory.accepted)

\* Whatever is let through is counted, within the limit.
Counting ==
  /\ counter \in [ws: Nat, key: [WriteKey -> Nat]]
  /\ \A k \in WriteKey : eventHistory.admitted[k] <= counter.key[k] /\ eventHistory.admitted[k] <= RateLimit[k]

EventInv == EventRequests /\ EventRows /\ eventHistory \in EventHistory /\ Metering /\ Counting

--------------------------------------------------------------------------
LEMMA EventConstants ==
  /\ EventSteps' = EventSteps /\ EventLocals' = EventLocals /\ EventLocal' = EventLocal
  /\ EventRow' = EventRow /\ EventHistory' = EventHistory
BY DEF EventSteps, EventLocals, EventLocal, EventRow, EventHistory, Nothing

EventMoves(r, s) == pc'[r] = s /\ \A q \in Request : q # r => pc'[q] = pc[q]

LEMMA EventGoOK ==
  ASSUME EventRequests, NEW r \in Request, NEW s \in EventSteps, NEW l \in EventLocals,
         Go(r, l, s), s \notin {"new", "done", "failed"} => l \in EventLocal
  PROVE  EventRequests' /\ EventMoves(r, s)
<1>1. /\ local' \in [Request -> EventLocals] /\ local'[r] = l
      /\ \A q \in Request : q # r => local'[q] = local[q]
  BY DEF Go, EventRequests
<1>2. /\ pc' \in [Request -> EventSteps] /\ pc'[r] = s
      /\ \A q \in Request : q # r => pc'[q] = pc[q]
  BY DEF Go, EventRequests
<1>3. \A q \in Request : pc'[q] \notin {"new", "done", "failed"} => local'[q] \in EventLocal
  BY <1>1, <1>2 DEF EventRequests
<1> QED
  BY <1>1, <1>2, <1>3, EventConstants DEF EventRequests, EventMoves

LEMMA EventGotoOK ==
  ASSUME EventRequests, NEW r \in Request, NEW s \in EventSteps, Goto(r, s),
         pc[r] \notin {"new", "done", "failed"}
  PROVE  EventRequests' /\ EventMoves(r, s)
<1>1. Go(r, local[r], s) /\ local[r] \in EventLocals /\ local[r] \in EventLocal
  BY DEF Goto, Go, EventRequests
<1> QED
  BY <1>1, EventGoOK

LEMMA EventReturnOK ==
  ASSUME EventRequests, NEW r \in Request, NEW s \in {"done", "failed"}, Return(r, s)
  PROVE  EventRequests' /\ EventMoves(r, s)
<1>1. Go(r, Nothing, s) /\ Nothing \in EventLocals /\ s \in EventSteps
  BY DEF Return, EventLocals, EventSteps
<1> HIDE DEF Nothing
<1> QED
  BY <1>1, EventGoOK

\* A request that moves while its row and message stay as they are.
LEMMA RowsStand ==
  ASSUME EventRows, NEW r \in Request, NEW s, EventMoves(r, s),
         UNCHANGED <<activeKeys, events>>,
         eventHistory'.accepted = eventHistory.accepted,
         eventHistory'.failed = eventHistory.failed,
         eventHistory'.stranded = eventHistory.stranded,
         eventHistory'.unacked = eventHistory.unacked,
         pc[r] \notin {"done", "failed"}, 
         \/ s \in {"done", "failed"}
         \/ /\ pc[r] \in {"new", "event.limit", "event.quota", "event.insert"}
            /\ s \in {"event.limit", "event.quota", "event.insert"}
  PROVE  EventRows'
<1>1. \A q \in Request : Placed(q)'
  BY DEF EventRows, Placed, EventMoves
<1> QED
  BY <1>1, EventConstants DEF EventRows

\* A request whose own row, message and answer are placed anew.
LEMMA RowsPlaced ==
  ASSUME EventRows, NEW r \in Request, NEW s, EventMoves(r, s),
         activeKeys' = activeKeys, NEW e \in EventRow, events' = [events EXCEPT ![r] = e],
         \A q \in Request : q # r =>
           /\ q \in eventHistory'.accepted <=> q \in eventHistory.accepted
           /\ q \in eventHistory'.failed <=> q \in eventHistory.failed
           /\ q \in eventHistory'.stranded <=> q \in eventHistory.stranded
           /\ q \in eventHistory'.unacked <=> q \in eventHistory.unacked,
         events'[r] = e => Placed(r)'
  PROVE  EventRows'
<1>1. events' \in [Request -> EventRow] /\ events'[r] = e
      /\ \A q \in Request : q # r => events'[q] = events[q]
  BY DEF EventRows
<1>2. ASSUME NEW q \in Request
      PROVE  Placed(q)'
  <2>1. CASE q = r
    BY <1>1, <2>1
  <2>2. CASE q # r
    <3>1. Placed(q) /\ pc'[q] = pc[q] /\ events'[q] = events[q]
      BY <1>1, <2>2 DEF EventRows, EventMoves
    <3> QED
      BY <2>2, <3>1 DEF Placed
  <2> QED
    BY <2>1, <2>2
<1> QED
  BY <1>1, <1>2, EventConstants DEF EventRows

LEMMA HistoryFields ==
  ASSUME eventHistory \in EventHistory
  PROVE  /\ eventHistory.admitted \in [WriteKey -> Nat]
         /\ eventHistory.accepted \in SUBSET Request /\ eventHistory.failed \in SUBSET Request
         /\ eventHistory.unacked \in SUBSET Request /\ eventHistory.stranded \in SUBSET Request
BY DEF EventHistory

LEMMA CountingKept ==
  ASSUME EventInv, counter' = counter, eventHistory'.admitted = eventHistory.admitted
  PROVE  Counting'
BY DEF EventInv, Counting

LEMMA MeteringKept ==
  ASSUME EventInv, metered' = metered, eventHistory'.accepted = eventHistory.accepted
  PROVE  Metering'
BY DEF EventInv, Metering

--------------------------------------------------------------------------
\* The steps before the row, and those that end without one.
LEMMA BeforeRowStep ==
  ASSUME EventInv, NEW r \in Request,
         \/ \E k \in WriteKey : ResolveWriteKey(r, k)
         \/ RateLimitOpen(r) \/ ViolatesSchema(r)
         \/ \E remaining \in BOOLEAN : CheckQuota(r, remaining)
  PROVE  EventInv'
<1>1. UNCHANGED <<activeKeys, counter, events, metered, eventHistory>>
      /\ pc[r] \in {"new", "event.limit", "event.quota", "event.insert"}
  BY DEF ResolveWriteKey, RateLimitOpen, ViolatesSchema, CheckQuota
<1>2. \E s \in {"event.limit", "event.quota", "event.insert", "failed"} : EventRequests' /\ EventMoves(r, s)
  <2>1. ASSUME NEW k \in WriteKey, ResolveWriteKey(r, k)
        PROVE  EventRequests' /\ EventMoves(r, "event.limit")
    <3> DEFINE l == [op |-> "event", key |-> k]
    <3>1. l \in EventLocal /\ l \in EventLocals /\ Go(r, l, "event.limit")
      BY <2>1 DEF ResolveWriteKey, EventLocal, EventLocals
    <3> HIDE DEF l
    <3> QED
      BY <3>1, EventGoOK DEF EventInv, EventSteps
  <2>2. CASE RateLimitOpen(r)
    BY <2>2, EventGotoOK DEF RateLimitOpen, EventInv, EventSteps
  <2>3. CASE ViolatesSchema(r)
    BY <2>3, EventReturnOK DEF ViolatesSchema, EventInv
  <2>4. ASSUME NEW remaining \in BOOLEAN, CheckQuota(r, remaining)
        PROVE  \E s \in {"event.insert", "failed"} : EventRequests' /\ EventMoves(r, s)
    BY <2>4, EventGotoOK, EventReturnOK DEF CheckQuota, EventInv, EventSteps
  <2> QED
    BY <2>1, <2>2, <2>3, <2>4
<1>3. EventRows'
  BY <1>1, <1>2, RowsStand DEF EventInv
<1> QED
  BY <1>1, <1>2, <1>3, CountingKept, MeteringKept, EventConstants DEF EventInv

LEMMA CounterExcept ==
  ASSUME NEW K, NEW c \in [ws: Nat, key: K], NEW n \in Nat, NEW keys \in K
  PROVE  /\ [c EXCEPT !.ws = n, !.key = keys] \in [ws: Nat, key: K]
         /\ [c EXCEPT !.ws = n, !.key = keys].key = keys
OBVIOUS

\* A request that is let through was counted, and the count is in the limit.
LEMMA LimitStep ==
  ASSUME EventInv, NEW r \in Request, EnforceRateLimit(r)
  PROVE  EventInv'
<1> DEFINE k == local[r].key
           keys == [counter.key EXCEPT ![k] = @ + 1]
           counted == [counter EXCEPT !.ws = @ + 1, !.key[k] = @ + 1]
           admit == counted.ws <= RateLimit[k] /\ counted.key[k] <= RateLimit[k]
           H == eventHistory
           admitted == [H.admitted EXCEPT ![k] = @ + 1]
<1>1. pc[r] = "event.limit" /\ counter' = counted /\ UNCHANGED <<activeKeys, events, metered>>
      /\ eventHistory' = (IF admit THEN [H EXCEPT !.admitted[k] = @ + 1] ELSE H)
      /\ (IF admit THEN Goto(r, "event.quota") ELSE Return(r, "failed"))
  BY DEF EnforceRateLimit
<1>2. k \in WriteKey
  BY <1>1 DEF EventInv, EventRequests, EventLocal
<1>3. counter.ws \in Nat /\ counter.key \in [WriteKey -> Nat] /\ H \in EventHistory
      /\ H.admitted \in [WriteKey -> Nat]
  BY HistoryFields DEF EventInv, Counting
<1>4. keys \in [WriteKey -> Nat] /\ keys[k] = counter.key[k] + 1
      /\ \A j \in WriteKey : j # k => keys[j] = counter.key[j]
  BY <1>2, <1>3
<1>5. counted = [counter EXCEPT !.ws = counter.ws + 1, !.key = keys]
  OBVIOUS
<1>6. counted \in [ws: Nat, key: [WriteKey -> Nat]] /\ counted.key = keys
  <2>1. counter \in [ws: Nat, key: [WriteKey -> Nat]]
    BY DEF EventInv, Counting
  <2>2. counter.ws + 1 \in Nat
    BY <1>3
  <2> HIDE DEF keys, counted
  <2> QED
    BY <1>4, <1>5, <2>1, <2>2, CounterExcept
<1>7. \E s \in {"event.quota", "failed"} : EventRequests' /\ EventMoves(r, s)
  BY <1>1, EventGotoOK, EventReturnOK DEF EventInv, EventSteps
<1>8. /\ eventHistory' \in EventHistory
      /\ eventHistory'.accepted = H.accepted /\ eventHistory'.failed = H.failed
      /\ eventHistory'.stranded = H.stranded /\ eventHistory'.unacked = H.unacked
      /\ eventHistory'.admitted = IF admit THEN admitted ELSE H.admitted
  <2>1. admitted \in [WriteKey -> Nat]
    BY <1>2, <1>3
  <2>2. [H EXCEPT !.admitted[k] = @ + 1] = [H EXCEPT !.admitted = admitted]
    OBVIOUS
  <2> HIDE DEF admit, admitted
  <2> QED
    BY <1>1, <1>3, <2>1, <2>2 DEF EventHistory
<1>9. EventRows'
  BY <1>1, <1>7, <1>8, RowsStand DEF EventInv
<1>10. Counting'
  <2>1. \A j \in WriteKey : H.admitted[j] <= counter.key[j] /\ H.admitted[j] <= RateLimit[j]
    BY DEF EventInv, Counting
  <2>2. admit => keys[k] <= RateLimit[k]
    BY <1>6
  <2>3. \A j \in WriteKey : RateLimit[j] \in Nat
    BY RateLimitAssumption
  <2>4. counter'.key = keys
    BY <1>1, <1>6
  <2>5. ASSUME NEW j \in WriteKey
        PROVE  eventHistory'.admitted[j] <= keys[j] /\ eventHistory'.admitted[j] <= RateLimit[j]
    <3>1. CASE j = k /\ admit
      <4>1. eventHistory'.admitted[j] = H.admitted[k] + 1
        BY <1>2, <1>3, <1>8, <3>1
      <4> HIDE DEF keys, admit
      <4> QED
        BY <1>2, <1>3, <1>4, <2>1, <2>2, <2>3, <3>1, <4>1
    <3>2. CASE ~ (j = k /\ admit)
      <4>1. eventHistory'.admitted[j] = H.admitted[j]
        BY <1>2, <1>3, <1>8, <3>2
      <4> HIDE DEF keys, admit
      <4> QED
        BY <1>2, <1>3, <1>4, <2>1, <2>3, <4>1
    <3> QED
      BY <3>1, <3>2
  <2> QED
    BY <1>1, <1>6, <2>4, <2>5 DEF Counting
<1>11. Metering'
  BY <1>1, <1>8, MeteringKept
<1> QED
  BY <1>7, <1>8, <1>9, <1>10, <1>11 DEF EventInv

--------------------------------------------------------------------------
\* The row of a request, with one field set.
LEMMA RowExcept ==
  ASSUME EventInv, NEW r \in Request, NEW b \in BOOLEAN
  PROVE  /\ [events[r] EXCEPT !.row = b] \in EventRow
         /\ [events[r] EXCEPT !.row = b].row = b
         /\ [events[r] EXCEPT !.row = b].queued = events[r].queued
         /\ [events[r] EXCEPT !.queued = b] \in EventRow
         /\ [events[r] EXCEPT !.queued = b].queued = b
         /\ [events[r] EXCEPT !.queued = b].row = events[r].row
<1>1. events[r] \in EventRow
  BY DEF EventInv, EventRows
<1> QED
  BY <1>1, Zenon DEF EventRow

\* A request under way is in neither outcome.
LEMMA NoOutcome ==
  ASSUME EventInv, NEW r \in Request, pc[r] \notin {"done", "failed"}
  PROVE  r \notin eventHistory.accepted /\ r \notin eventHistory.failed
BY DEF EventInv, EventRows, Placed

LEMMA InsertEventStep ==
  ASSUME EventInv, NEW r \in Request, InsertEvent(r)
  PROVE  EventInv'
<1> DEFINE e == [events[r] EXCEPT !.row = TRUE]
<1>1. pc[r] = "event.insert" /\ UNCHANGED <<activeKeys, counter, metered, eventHistory>>
      /\ events' = [events EXCEPT ![r] = e] /\ Goto(r, "event.publish")
  BY DEF InsertEvent
<1>2. e \in EventRow /\ e.row = TRUE /\ e.queued = events[r].queued
  BY RowExcept
<1> HIDE DEF e
<1>3. EventRequests' /\ EventMoves(r, "event.publish")
  BY <1>1, EventGotoOK DEF EventInv, EventSteps
<1>4. e.row /\ ~ e.queued
  BY <1>1, <1>2 DEF EventInv, EventRows, Placed
<1>5. events'[r] = e => Placed(r)'
  BY <1>1, <1>3, <1>4, NoOutcome DEF Placed, EventMoves
<1>6. EventRows'
  BY <1>1, <1>2, <1>3, <1>5, RowsPlaced DEF EventInv
<1> QED
  BY <1>1, <1>3, <1>6, CountingKept, MeteringKept, EventConstants DEF EventInv

LEMMA PublishEventStep ==
  ASSUME EventInv, NEW r \in Request, PublishEvent(r)
  PROVE  EventInv'
<1> DEFINE e == [events[r] EXCEPT !.queued = TRUE]
<1>1. pc[r] = "event.publish" /\ UNCHANGED <<activeKeys, counter, metered, eventHistory>>
      /\ events' = [events EXCEPT ![r] = e] /\ Goto(r, "event.usage")
  BY DEF PublishEvent
<1>2. e \in EventRow /\ e.queued = TRUE /\ e.row = events[r].row
  BY RowExcept
<1> HIDE DEF e
<1>3. EventRequests' /\ EventMoves(r, "event.usage")
  BY <1>1, EventGotoOK DEF EventInv, EventSteps
<1>4. e.row /\ e.queued
  BY <1>1, <1>2 DEF EventInv, EventRows, Placed
<1>5. events'[r] = e => Placed(r)'
  BY <1>1, <1>3, <1>4, NoOutcome DEF Placed, EventMoves
<1>6. EventRows'
  BY <1>1, <1>2, <1>3, <1>5, RowsPlaced DEF EventInv
<1> QED
  BY <1>1, <1>3, <1>6, CountingKept, MeteringKept, EventConstants DEF EventInv

\* A message that was stored although publish failed is noted.
LEMMA PublishFailsStep ==
  ASSUME EventInv, NEW r \in Request, NEW stored \in BOOLEAN, PublishEventFails(r, stored)
  PROVE  EventInv'
<1> DEFINE e == [events[r] EXCEPT !.queued = stored]
           H == eventHistory
<1>1. pc[r] = "event.publish" /\ UNCHANGED <<activeKeys, counter, metered>>
      /\ events' = [events EXCEPT ![r] = e] /\ Goto(r, "event.delete")
      /\ eventHistory' = IF stored THEN [H EXCEPT !.unacked = @ \union {r}] ELSE H
  BY DEF PublishEventFails
<1>2. e \in EventRow /\ e.queued = stored /\ e.row = events[r].row
  BY RowExcept
<1> HIDE DEF e
<1>3. EventRequests' /\ EventMoves(r, "event.delete")
  BY <1>1, EventGotoOK DEF EventInv, EventSteps
<1>4. /\ eventHistory' \in EventHistory
      /\ eventHistory'.admitted = H.admitted /\ eventHistory'.accepted = H.accepted
      /\ eventHistory'.failed = H.failed /\ eventHistory'.stranded = H.stranded
      /\ eventHistory'.unacked = IF stored THEN H.unacked \union {r} ELSE H.unacked
  <2>1. H \in EventHistory /\ H.unacked \union {r} \in SUBSET Request
    BY HistoryFields DEF EventInv
  <2> QED
    BY <1>1, <2>1 DEF EventHistory
<1>5. events'[r] = e => Placed(r)'
  BY <1>1, <1>2, <1>3, <1>4, NoOutcome DEF Placed, EventMoves
<1>6. EventRows'
  <2>1. \A q \in Request : q # r =>
          /\ q \in eventHistory'.accepted <=> q \in eventHistory.accepted
          /\ q \in eventHistory'.failed <=> q \in eventHistory.failed
          /\ q \in eventHistory'.stranded <=> q \in eventHistory.stranded
          /\ q \in eventHistory'.unacked <=> q \in eventHistory.unacked
    BY <1>4
  <2> QED
    BY <1>1, <1>2, <1>3, <1>5, <2>1, RowsPlaced DEF EventInv
<1> QED
  BY <1>1, <1>3, <1>4, <1>6, CountingKept, MeteringKept, EventConstants DEF EventInv

LEMMA DeleteEventStep ==
  ASSUME EventInv, NEW r \in Request, DeleteEvent(r)
  PROVE  EventInv'
<1> DEFINE e == [events[r] EXCEPT !.row = FALSE]
           H == eventHistory
<1>1. pc[r] = "event.delete" /\ UNCHANGED <<activeKeys, counter, metered>>
      /\ events' = [events EXCEPT ![r] = e] /\ Return(r, "failed")
      /\ eventHistory' = [H EXCEPT !.failed = @ \union {r}]
  BY DEF DeleteEvent
<1>2. e \in EventRow /\ e.row = FALSE /\ e.queued = events[r].queued
  BY RowExcept
<1> HIDE DEF e
<1>3. EventRequests' /\ EventMoves(r, "failed")
  BY <1>1, EventReturnOK DEF EventInv
<1>4. /\ eventHistory' \in EventHistory
      /\ eventHistory'.admitted = H.admitted /\ eventHistory'.accepted = H.accepted
      /\ eventHistory'.failed = H.failed \union {r} /\ eventHistory'.stranded = H.stranded
      /\ eventHistory'.unacked = H.unacked
  <2>1. H \in EventHistory /\ H.failed \union {r} \in SUBSET Request
    BY HistoryFields DEF EventInv
  <2> QED
    BY <1>1, <2>1 DEF EventHistory
<1>5. e.queued => r \in H.unacked
  BY <1>1, <1>2 DEF EventInv, EventRows, Placed
<1>6. events'[r] = e => Placed(r)'
  BY <1>1, <1>2, <1>3, <1>4, <1>5, NoOutcome DEF Placed, EventMoves
<1>7. EventRows'
  BY <1>1, <1>2, <1>3, <1>4, <1>6, RowsPlaced DEF EventInv
<1> QED
  BY <1>1, <1>3, <1>4, <1>7, CountingKept, MeteringKept, EventConstants DEF EventInv

\* An accepted event was not accepted before: it is metered once.
LEMMA UsageStep ==
  ASSUME EventInv, NEW r \in Request, RecordEventUsage(r)
  PROVE  EventInv'
<1> DEFINE H == eventHistory
<1>1. pc[r] = "event.usage" /\ UNCHANGED <<activeKeys, counter, events>>
      /\ metered' = metered + 1 /\ Return(r, "done")
      /\ eventHistory' = [H EXCEPT !.accepted = @ \union {r}]
  BY DEF RecordEventUsage
<1>2. EventRequests' /\ EventMoves(r, "done")
  BY <1>1, EventReturnOK DEF EventInv
<1>3. /\ eventHistory' \in EventHistory
      /\ eventHistory'.admitted = H.admitted /\ eventHistory'.accepted = H.accepted \union {r}
      /\ eventHistory'.failed = H.failed /\ eventHistory'.stranded = H.stranded
      /\ eventHistory'.unacked = H.unacked
  <2>1. H \in EventHistory /\ H.accepted \union {r} \in SUBSET Request
    BY HistoryFields DEF EventInv
  <2> QED
    BY <1>1, <2>1 DEF EventHistory
<1>4. r \notin H.accepted /\ r \notin H.failed /\ events[r].row /\ events[r].queued
      /\ events \in [Request -> EventRow] /\ events[r] \in EventRow
  BY <1>1, NoOutcome DEF EventInv, EventRows, Placed
<1>5. events' = [events EXCEPT ![r] = events[r]]
  BY <1>1, <1>4
<1>6. Placed(r)'
  BY <1>1, <1>2, <1>3, <1>4 DEF Placed, EventMoves
<1>7. EventRows'
  BY <1>1, <1>2, <1>3, <1>4, <1>5, <1>6, RowsPlaced DEF EventInv
<1>8. Metering'
  <2>1. IsFiniteSet(H.accepted) /\ metered \in Nat /\ metered = Cardinality(H.accepted)
    BY DEF EventInv, Metering
  <2>2. IsFiniteSet(H.accepted \union {r}) /\ Cardinality(H.accepted \union {r}) = metered + 1
    BY <1>4, <2>1, FS_AddElement
  <2> QED
    BY <1>1, <1>3, <2>1, <2>2 DEF Metering
<1> QED
  BY <1>1, <1>2, <1>3, <1>7, <1>8, CountingKept DEF EventInv

\* A request that stops after its row was inserted is noted.
LEMMA FailEventStep ==
  ASSUME EventInv, NEW r \in Request, FailEvent(r)
  PROVE  EventInv'
<1> DEFINE H == eventHistory
<1>1. UNCHANGED <<activeKeys, counter, events, metered>> /\ Return(r, "failed") /\ ~ Idle(r)
      /\ eventHistory' = IF events[r].row
           THEN [H EXCEPT !.failed = @ \union {r}, !.stranded = @ \union {r}] ELSE H
  BY DEF FailEvent, Stop
<1>2. EventRequests' /\ EventMoves(r, "failed")
  BY <1>1, EventReturnOK DEF EventInv
<1>3. /\ eventHistory' \in EventHistory
      /\ eventHistory'.admitted = H.admitted /\ eventHistory'.accepted = H.accepted
      /\ eventHistory'.unacked = H.unacked
      /\ eventHistory'.failed = (IF events[r].row THEN H.failed \union {r} ELSE H.failed)
      /\ eventHistory'.stranded = (IF events[r].row THEN H.stranded \union {r} ELSE H.stranded)
  <2>1. H \in EventHistory /\ H.failed \union {r} \in SUBSET Request
        /\ H.stranded \union {r} \in SUBSET Request
    BY HistoryFields DEF EventInv
  <2>2. CASE events[r].row
    BY <1>1, <2>1, <2>2 DEF EventHistory
  <2>3. CASE ~ events[r].row
    BY <1>1, <2>1, <2>3
  <2> QED
    BY <2>2, <2>3
<1>4. r \notin H.accepted /\ r \notin H.failed
      /\ events \in [Request -> EventRow] /\ events[r] \in EventRow
  BY <1>1, NoOutcome DEF EventInv, EventRows, Idle, Ended
<1>5. events' = [events EXCEPT ![r] = events[r]]
  BY <1>1, <1>4
<1>6. Placed(r)'
  BY <1>1, <1>2, <1>3, <1>4 DEF Placed, EventMoves
<1>7. EventRows'
  <2>1. \A q \in Request : q # r =>
          /\ q \in eventHistory'.accepted <=> q \in eventHistory.accepted
          /\ q \in eventHistory'.failed <=> q \in eventHistory.failed
          /\ q \in eventHistory'.stranded <=> q \in eventHistory.stranded
          /\ q \in eventHistory'.unacked <=> q \in eventHistory.unacked
    BY <1>3
  <2>2. EventRows /\ UNCHANGED activeKeys
    BY <1>1 DEF EventInv
  <2> QED
    BY <1>2, <1>4, <1>5, <1>6, <2>1, <2>2, RowsPlaced
<1> QED
  BY <1>1, <1>2, <1>3, <1>7, CountingKept, MeteringKept DEF EventInv

\* No request moves: the window ends, or a key is revoked.
LEMMA WindowStep ==
  ASSUME EventInv, NextWindow \/ \E k \in WriteKey : RevokeWriteKey(k)
  PROVE  EventInv'
<1> DEFINE H == eventHistory
<1>1. UNCHANGED <<events, metered, pc, local>> /\ activeKeys' \subseteq WriteKey
  BY DEF NextWindow, RevokeWriteKey, EventInv, EventRows
<1>2. EventRequests'
  BY <1>1, EventConstants DEF EventInv, EventRequests
<1>3. /\ eventHistory' \in EventHistory /\ eventHistory'.accepted = H.accepted
      /\ eventHistory'.unacked = H.unacked /\ eventHistory'.failed = H.failed
      /\ eventHistory'.stranded = H.stranded /\ Counting'
  <2>1. CASE NextWindow
    <3>1. NoCount \in [ws: Nat, key: [WriteKey -> Nat]] /\ \A k \in WriteKey : NoCount.key[k] = 0
          /\ NoCount.key \in [WriteKey -> Nat]
      BY DEF NoCount
    <3>2. counter' = NoCount /\ eventHistory' = [H EXCEPT !.admitted = NoCount.key] /\ H \in EventHistory
      BY <2>1 DEF NextWindow, EventInv
    <3>3. /\ eventHistory' \in EventHistory /\ eventHistory'.accepted = H.accepted
          /\ eventHistory'.unacked = H.unacked /\ eventHistory'.failed = H.failed
          /\ eventHistory'.stranded = H.stranded /\ eventHistory'.admitted = NoCount.key
      BY <3>1, <3>2 DEF EventHistory
    <3>4. \A k \in WriteKey : RateLimit[k] \in Nat
      BY RateLimitAssumption
    <3>5. Counting'
      BY <3>1, <3>2, <3>3, <3>4 DEF Counting
    <3> QED
      BY <3>3, <3>5
  <2>2. CASE \E k \in WriteKey : RevokeWriteKey(k)
    <3>1. counter' = counter /\ eventHistory' = eventHistory
      BY <2>2 DEF RevokeWriteKey
    <3> QED
      BY <3>1, CountingKept, EventConstants DEF EventInv
  <2> QED
    BY <2>1, <2>2
<1>4. EventRows'
  BY <1>1, <1>3, EventConstants DEF EventInv, EventRows, Placed
<1>5. Metering'
  BY <1>1, <1>3, MeteringKept
<1> QED
  BY <1>2, <1>3, <1>4, <1>5 DEF EventInv

LEMMA EventInvariant == EventSpec => []EventInv
<1>1. EventInit => EventInv
  <2> SUFFICES ASSUME EventInit
               PROVE  EventInv
    OBVIOUS
  <2>1. EventRequests
    BY DEF EventInit, HandlersInit, EventRequests, EventSteps, EventLocals
  <2> DEFINE none == [row |-> FALSE, queued |-> FALSE]
  <2>2. none \in EventRow /\ ~ none.row /\ ~ none.queued
    BY DEF EventRow
  <2>3. /\ eventHistory \in EventHistory /\ eventHistory.accepted = {} /\ eventHistory.failed = {}
        /\ eventHistory.stranded = {} /\ \A k \in WriteKey : eventHistory.admitted[k] = 0
    BY DEF EventInit, EventHistory
  <2> HIDE DEF none
  <2>4. events \in [Request -> EventRow] /\ \A r \in Request : events[r] = none
    BY <2>2 DEF EventInit, none
  <2>5. EventRows
    BY <2>2, <2>3, <2>4 DEF EventInit, HandlersInit, EventRows, Placed
  <2>6. Metering
    BY <2>3, FS_EmptySet DEF EventInit, Metering
  <2>7. Counting
    <3>1. counter \in [ws: Nat, key: [WriteKey -> Nat]] /\ \A k \in WriteKey : counter.key[k] = 0
      BY DEF EventInit, NoCount
    <3>2. \A k \in WriteKey : RateLimit[k] \in Nat
      BY RateLimitAssumption
    <3> QED
      BY <2>3, <3>1, <3>2 DEF Counting
  <2> QED
    BY <2>1, <2>3, <2>5, <2>6, <2>7 DEF EventInv
<1>2. EventInv /\ [EventNext]_eventVars => EventInv'
  <2> SUFFICES ASSUME EventInv, [EventNext]_eventVars
               PROVE  EventInv'
    OBVIOUS
  <2>1. CASE UNCHANGED eventVars
    <3>1. UNCHANGED <<activeKeys, counter, events, metered, eventHistory, pc, local>>
      BY <2>1 DEF eventVars, eventState
    <3>2. EventRequests' /\ EventRows'
      BY <3>1, EventConstants DEF EventInv, EventRequests, EventRows, Placed
    <3> QED
      BY <3>1, <3>2, CountingKept, MeteringKept, EventConstants DEF EventInv
  <2>2. ASSUME NEW r \in Request, EventRequest(r)
        PROVE  EventInv'
    BY <2>2, BeforeRowStep, LimitStep, InsertEventStep, PublishEventStep, PublishFailsStep,
       DeleteEventStep, UsageStep, FailEventStep DEF EventRequest
  <2> QED
    BY <2>1, <2>2, WindowStep DEF EventNext
<1> QED
  BY <1>1, <1>2, PTL DEF EventSpec

\* Every reachable state of the ingestion has the types of EventTypeOK.
THEOREM EventTypeCorrect == EventSpec => []EventTypeOK
<1>1. EventInv => EventTypeOK
  BY DEF EventInv, EventRequests, EventRows, Metering, Counting, EventTypeOK, EventSteps, EventLocals
<1> QED
  BY <1>1, EventInvariant, PTL

\* For any keys and limits: an accepted event has its row, its message and
\* its one usage, a failed one leaves what the history says, and no key lets
\* through more than its limit in a window that Redis counts.
THEOREM EventsAccountedHolds == EventSpec => []EventsAccounted
<1>1. EventInv => EventsAccounted
  <2> SUFFICES ASSUME EventInv
               PROVE  EventsAccounted
    OBVIOUS
  <2>1. eventHistory.accepted \subseteq Request /\ eventHistory.failed \subseteq Request
    BY HistoryFields DEF EventInv
  <2>2. \A r \in Request : Placed(r)
    BY DEF EventInv, EventRows
  <2> QED
    BY <2>1, <2>2 DEF EventInv, Placed, Metering, Counting, EventsAccounted
<1> QED
  BY <1>1, EventInvariant, PTL

--------------------------------------------------------------------------
(* Sending domains *)

DomainSteps ==
  {"new", "create.insert", "ses.get", "ses.replace", "ses.create", "create.update",
   "create.rollback", "delete.mark", "delete.ses", "delete.tombstone", "done", "failed"}

DomainLocals == DomainLocal \union {Nothing}

\* After the insertion of the row.
Past == {"ses.get", "ses.replace", "ses.create", "create.update", "create.rollback"}
Deleting == {"delete.mark", "delete.ses", "delete.tombstone"}

Started(q) == pc[q] \notin {"new", "create.insert"}

\* A registration is named by its request; a deletion goes by the row it read.
HoldsDomain(r) ==
  /\ pc[r] \in Past \union {"create.insert"} =>
       local[r] \in DomainLocal /\ local[r].id = r /\ local[r].version = 1
  /\ pc[r] \in Deleting =>
       local[r] \in DomainLocal /\ local[r].id \in Request /\ Started(local[r].id)

DomainRequests ==
  /\ pc \in [Request -> DomainSteps]
  /\ local \in [Request -> DomainLocals]
  /\ \A r \in Request : HoldsDomain(r)

\* Version 1 is the row as it was inserted.
DomainRowOK(w) ==
  /\ domain[w].status = "none" <=> domain[w].id = NoSelector
  /\ domain[w].status = "none" => domain[w].version = 0
  /\ domain[w].status # "none" => domain[w].id \in Request /\ Started(domain[w].id) /\ domain[w].version >= 1
  /\ domain[w].version = 1 => domain[w].status = "pending"
  /\ domain[w].status = "pending" => domain[w].selector = NoSelector

\* The row that a deletion read was registered, and is while it matches.
SawRegistered(r) ==
  LET l == local[r] IN
  pc[r] = "delete.mark" /\ domain[l.ws].id = l.id =>
    /\ domain[l.ws].version >= l.version
    /\ domain[l.ws].version = l.version => Registered(l.ws)

DomainRows ==
  /\ domain \in [Tenant -> DomainRow]
  /\ \A w \in Tenant : DomainRowOK(w)
  /\ \A r \in Request : SawRegistered(r)
  /\ identity \in Selector /\ cleanup \in Nat

Unclaimed == \A w \in Tenant : ~ Registered(w)

\* The registration that is past its insertion is alone with the identity:
\* nothing cleans up, and the only row is its own, without a key.
AloneWithSes(r) ==
  /\ cleanup = 0
  /\ \A w \in Tenant : Registered(w) =>
       w = local[r].ws /\ domain[w].id = r /\ domain[w].status \in {"pending", "deleting"}

OneOwner == \A w \in Tenant, v \in Tenant : Registered(w) /\ Registered(v) => w = v

KeyIsIdentity ==
  \A w \in Tenant : domain[w].status \in {"verifying", "verified"} =>
    domain[w].selector = identity /\ domain[w].selector # NoSelector

\* Before an insertion and during a clean-up there is no row, and a deletion
\* that is at SES has none that is in use.
NobodyClaims ==
  cleanup > 0 \/ (\E r \in Request : pc[r] = "create.insert") => Unclaimed

NobodyUses ==
  (\E r \in Request : pc[r] = "delete.ses") =>
    \A w \in Tenant : domain[w].status \in {"none", "deleting", "deleted"}

OnePast == \A r \in Request, q \in Request : pc[r] \in Past /\ pc[q] \in Past => r = q
PastIsAlone == \A r \in Request : pc[r] \in Past => AloneWithSes(r)

\* The key that is about to be stored is that of the identity, if the row
\* still is as it was inserted.
KeyToStore ==
  \A r \in Request : pc[r] = "create.update" /\ Matches(local[r].ws, r, 1) => identity = r

Owned ==
  OneOwner /\ KeyIsIdentity /\ NobodyClaims /\ NobodyUses /\ OnePast /\ PastIsAlone /\ KeyToStore

Disturbed == domainHistory.overlap \/ domainHistory.early

DomainInv ==
  /\ DomainRequests /\ DomainRows /\ domainHistory \in DomainHistory
  /\ Disturbed \/ Owned

--------------------------------------------------------------------------
LEMMA DomainConstants ==
  /\ DomainSteps' = DomainSteps /\ DomainLocals' = DomainLocals /\ DomainLocal' = DomainLocal
  /\ DomainRow' = DomainRow /\ DomainHistory' = DomainHistory /\ Selector' = Selector
  /\ Past' = Past /\ Deleting' = Deleting
BY DEF DomainSteps, DomainLocals, DomainLocal, DomainRow, DomainHistory, Selector, Nothing, Past, Deleting

DomainMoves(r, l, s) ==
  /\ pc'[r] = s /\ local'[r] = l
  /\ \A q \in Request : q # r => pc'[q] = pc[q] /\ local'[q] = local[q]

HoldsFor(r, l, s) ==
  /\ s \in Past \union {"create.insert"} => l \in DomainLocal /\ l.id = r /\ l.version = 1
  /\ s \in Deleting => l \in DomainLocal /\ l.id \in Request /\ Started(l.id)

LEMMA DomainGoOK ==
  ASSUME DomainRequests, NEW r \in Request, NEW s \in DomainSteps, NEW l \in DomainLocals,
         Go(r, l, s), s # "new", s = "create.insert" => pc[r] = "new", HoldsFor(r, l, s)
  PROVE  DomainRequests' /\ DomainMoves(r, l, s) /\ \A q \in Request : Started(q) => Started(q)'
<1>1. /\ local' \in [Request -> DomainLocals] /\ local'[r] = l
      /\ \A q \in Request : q # r => local'[q] = local[q]
  BY DEF Go, DomainRequests
<1>2. /\ pc' \in [Request -> DomainSteps] /\ pc'[r] = s
      /\ \A q \in Request : q # r => pc'[q] = pc[q]
  BY DEF Go, DomainRequests
<1>3. \A q \in Request : Started(q) => Started(q)'
  BY <1>2 DEF Started
<1>4. ASSUME NEW q \in Request
      PROVE  HoldsDomain(q)'
  <2>1. CASE q = r
    BY <1>1, <1>2, <1>3, <2>1, DomainConstants DEF HoldsDomain, HoldsFor
  <2>2. CASE q # r
    <3>1. HoldsDomain(q) /\ pc'[q] = pc[q] /\ local'[q] = local[q]
      BY <1>1, <1>2, <2>2 DEF DomainRequests
    <3> QED
      BY <1>3, <3>1, DomainConstants DEF HoldsDomain
  <2> QED
    BY <2>1, <2>2
<1> QED
  BY <1>1, <1>2, <1>3, <1>4, DomainConstants DEF DomainRequests, DomainMoves

LEMMA DomainGotoOK ==
  ASSUME DomainRequests, NEW r \in Request, NEW s \in DomainSteps, Goto(r, s),
         s \notin {"new", "create.insert"}, HoldsFor(r, local[r], s)
  PROVE  DomainRequests' /\ DomainMoves(r, local[r], s) /\ \A q \in Request : Started(q) => Started(q)'
<1>1. Go(r, local[r], s) /\ local[r] \in DomainLocals
  BY DEF Goto, Go, DomainRequests
<1> QED
  BY <1>1, DomainGoOK

LEMMA DomainReturnOK ==
  ASSUME DomainRequests, NEW r \in Request, NEW s \in {"done", "failed"}, Return(r, s)
  PROVE  DomainRequests' /\ DomainMoves(r, Nothing, s) /\ \A q \in Request : Started(q) => Started(q)'
<1>1. Go(r, Nothing, s) /\ Nothing \in DomainLocals /\ s \in DomainSteps
      /\ HoldsFor(r, Nothing, s) /\ s \notin {"new", "create.insert"}
  BY DEF Return, DomainLocals, DomainSteps, HoldsFor, Past, Deleting
<1> HIDE DEF Nothing
<1> QED
  BY <1>1, DomainGoOK

--------------------------------------------------------------------------
\* No row changes.
LEMMA DomainRowsKept ==
  ASSUME DomainRows, domain' = domain, identity' \in Selector, cleanup' \in Nat,
         \A q \in Request : Started(q) => Started(q)',
         \A q \in Request : pc'[q] = "delete.mark" /\ ~ (pc[q] = "delete.mark" /\ local'[q] = local[q]) =>
           /\ domain[local'[q].ws].version >= local'[q].version
           /\ Registered(local'[q].ws)
  PROVE  DomainRows'
<1>1. \A w \in Tenant : DomainRowOK(w)'
  BY DEF DomainRows, DomainRowOK
<1>2. ASSUME NEW q \in Request
      PROVE  SawRegistered(q)'
  BY DEF DomainRows, SawRegistered, Registered
<1> QED
  BY <1>1, <1>2, DomainConstants DEF DomainRows

\* The row of one workspace changes, to the next version or to that of a
\* request that has only now inserted it, or to none.
LEMMA DomainRowsPut ==
  ASSUME DomainRequests, DomainRows, NEW w \in Tenant, NEW new \in DomainRow,
         domain' = [domain EXCEPT ![w] = new], identity' \in Selector, cleanup' \in Nat,
         \A q \in Request : Started(q) => Started(q)',
         domain'[w] = new => DomainRowOK(w)',
         \A q \in Request : pc'[q] = "delete.mark" => pc[q] = "delete.mark" /\ local'[q] = local[q],
         \A q \in Request : pc[q] = "delete.mark" /\ new.id = local[q].id =>
           new.id = domain[w].id /\ new.version = domain[w].version + 1
  PROVE  DomainRows' /\ domain'[w] = new /\ \A v \in Tenant : v # w => domain'[v] = domain[v]
<1>1. /\ domain' \in [Tenant -> DomainRow] /\ domain'[w] = new
      /\ \A v \in Tenant : v # w => domain'[v] = domain[v]
  BY DEF DomainRows
<1>2. \A v \in Tenant : DomainRowOK(v)'
  <2> TAKE v \in Tenant
  <2>1. CASE v = w
    BY <1>1, <2>1
  <2>2. CASE v # w
    BY <1>1, <2>2 DEF DomainRows, DomainRowOK, Started
  <2> QED
    BY <2>1, <2>2
<1>3. ASSUME NEW q \in Request
      PROVE  SawRegistered(q)'
  <2>1. CASE pc'[q] # "delete.mark"
    BY <2>1 DEF SawRegistered
  <2>2. CASE pc'[q] = "delete.mark"
    <3>1. pc[q] = "delete.mark" /\ local'[q] = local[q]
      BY <2>2
    <3>2. PICK l \in DomainLocal : local[q] = l
      BY <3>1 DEF DomainRequests, HoldsDomain, Deleting
    <3>3. l.ws \in Tenant /\ l.version \in Nat /\ local'[q] = l
      BY <3>1, <3>2 DEF DomainLocal
    <3>4. ASSUME domain'[l.ws].id = l.id
          PROVE  /\ domain'[l.ws].version >= l.version
                 /\ domain'[l.ws].version = l.version => domain'[l.ws].status \notin {"none", "deleted"}
      <4>1. CASE l.ws = w
        <5>1. new.id = domain[w].id /\ new.version = domain[w].version + 1 /\ domain[w].id = l.id
          BY <1>1, <3>1, <3>2, <3>4, <4>1
        <5>2. domain[w].version >= l.version /\ domain[w].version \in Nat
          BY <3>1, <3>2, <4>1, <5>1 DEF DomainRows, SawRegistered, DomainRow
        <5> QED
          BY <1>1, <3>3, <4>1, <5>1, <5>2
      <4>2. CASE l.ws # w
        <5>1. domain'[l.ws] = domain[l.ws]
          BY <1>1, <3>3, <4>2
        <5>2. /\ domain[l.ws].version >= l.version
              /\ domain[l.ws].version = l.version => domain[l.ws].status \notin {"none", "deleted"}
          BY <3>1, <3>2, <3>4, <5>1 DEF DomainRows, SawRegistered, Registered
        <5> QED
          BY <5>1, <5>2
      <4> QED
        BY <4>1, <4>2
    <3> QED
      BY <3>3, <3>4 DEF SawRegistered, Registered
  <2> QED
    BY <2>1, <2>2
<1> QED
  BY <1>1, <1>2, <1>3, DomainConstants DEF DomainRows

\* What is known of a request that takes a step, and of a row.
LEMMA DomainUnderWay ==
  ASSUME DomainInv, NEW r \in Request
  PROVE  DomainRequests /\ DomainRows /\ HoldsDomain(r) /\ local[r] \in DomainLocals
         /\ identity \in Selector /\ cleanup \in Nat
BY DEF DomainInv, DomainRequests, DomainRows

LEMMA DomainRowFields ==
  ASSUME DomainRows, NEW w \in Tenant
  PROVE  /\ domain[w] \in DomainRow /\ DomainRowOK(w) /\ domain[w].version \in Nat
         /\ domain[w].status \in {"none", "pending", "verifying", "verified", "deleting", "deleted"}
         /\ domain[w].id \in Selector /\ domain[w].selector \in Selector
BY DEF DomainRows, DomainRow

\* The next version of a row.
Following(row) == [row EXCEPT !.version = @ + 1]

LEMMA FollowingOK ==
  ASSUME NEW row \in DomainRow
  PROVE  /\ Following(row) \in DomainRow /\ Following(row).version = row.version + 1
         /\ Following(row).status = row.status /\ Following(row).id = row.id
         /\ Following(row).selector = row.selector
<1>1. row.version + 1 \in Nat
  BY DEF DomainRow
<1> QED
  BY <1>1 DEF Following, DomainRow

WithStatus(row, s) == [row EXCEPT !.status = s]
WithKey(row, s, k) == [row EXCEPT !.status = s, !.selector = k]

LEMMA StatusOK ==
  ASSUME NEW row \in DomainRow,
         NEW s \in {"none", "pending", "verifying", "verified", "deleting", "deleted"},
         NEW k \in Selector
  PROVE  /\ WithStatus(row, s) \in DomainRow
         /\ WithStatus(row, s).status = s /\ WithStatus(row, s).id = row.id
         /\ WithStatus(row, s).version = row.version
         /\ WithStatus(row, s).selector = row.selector
         /\ WithKey(row, s, k) \in DomainRow
         /\ WithKey(row, s, k).status = s
         /\ WithKey(row, s, k).id = row.id
         /\ WithKey(row, s, k).version = row.version
         /\ WithKey(row, s, k).selector = k
BY DEF DomainRow, WithStatus, WithKey

\* A patch of a registered row, by which it stays registered or is deleted.
Patched(w, s, k) ==
  /\ domain'[w].status = s /\ domain'[w].id = domain[w].id
  /\ domain'[w].version = domain[w].version + 1 /\ domain'[w].version # 1
  /\ domain'[w].selector = k
  /\ \A v \in Tenant : v # w => domain'[v] = domain[v]

LEMMA PatchOK ==
  ASSUME DomainRequests, DomainRows, NEW w \in Tenant,
         NEW s \in {"verifying", "verified", "deleting", "deleted"}, NEW k \in Selector,
         \/ Patch(w, [domain[w] EXCEPT !.status = s]) /\ k = domain[w].selector
         \/ Patch(w, [domain[w] EXCEPT !.status = s, !.selector = k]),
         domain[w].status # "none", identity' \in Selector, cleanup' \in Nat,
         \A q \in Request : Started(q) => Started(q)',
         \A q \in Request : pc'[q] = "delete.mark" => pc[q] = "delete.mark" /\ local'[q] = local[q]
  PROVE  DomainRows' /\ Patched(w, s, k)
<1>1. domain[w] \in DomainRow /\ DomainRowOK(w) /\ domain[w].version \in Nat
  BY DomainRowFields
<1>2. PICK new \in DomainRow :
        /\ domain' = [domain EXCEPT ![w] = new] /\ new.status = s /\ new.id = domain[w].id
        /\ new.version = domain[w].version + 1 /\ new.selector = k
  <2>1. PICK row \in DomainRow :
          Patch(w, row) /\ row.status = s /\ row.id = domain[w].id
            /\ row.version = domain[w].version /\ row.selector = k
    <3>1. s \in {"none", "pending", "verifying", "verified", "deleting", "deleted"}
      OBVIOUS
    <3>2. CASE Patch(w, [domain[w] EXCEPT !.status = s]) /\ k = domain[w].selector
      <4>1. Patch(w, WithStatus(domain[w], s))
        BY <3>2 DEF WithStatus
      <4> QED
        BY <1>1, <3>1, <3>2, <4>1, StatusOK
    <3>3. CASE Patch(w, [domain[w] EXCEPT !.status = s, !.selector = k])
      <4>1. Patch(w, WithKey(domain[w], s, k))
        BY <3>3 DEF WithKey
      <4> QED
        BY <1>1, <3>1, <4>1, StatusOK
    <3> QED
      BY <3>2, <3>3
  <2>2. domain' = [domain EXCEPT ![w] = Following(row)]
    BY <2>1 DEF Patch, Following
  <2>3. /\ Following(row) \in DomainRow /\ Following(row).version = domain[w].version + 1
        /\ Following(row).status = s /\ Following(row).id = domain[w].id
        /\ Following(row).selector = k
    BY <2>1, FollowingOK
  <2> QED
    BY <2>2, <2>3
<1>3. domain[w].id \in Request /\ Started(domain[w].id) /\ domain[w].version >= 1
      /\ domain[w].id # NoSelector
  BY <1>1, SelectorAssumption DEF DomainRowOK
<1>4. domain'[w] = new => DomainRowOK(w)'
  BY <1>1, <1>2, <1>3 DEF DomainRowOK
<1>5. DomainRows' /\ domain'[w] = new /\ \A v \in Tenant : v # w => domain'[v] = domain[v]
  BY <1>2, <1>4, DomainRowsPut
<1> QED
  BY <1>1, <1>2, <1>3, <1>5 DEF Patched

--------------------------------------------------------------------------
\* Nothing new is inserted, registered, keyed or cleaned up.
LEMMA OwnedKept ==
  ASSUME Owned, DomainRequests', DomainRows', UNCHANGED <<identity, cleanup>>,
         \A w \in Tenant : domain'[w] = domain[w] \/ domain'[w].status \in {"none", "deleted"},
         \A r \in Request : pc'[r] \in Past \union {"create.insert", "delete.ses"} =>
           /\ local'[r] = local[r]
           /\ \/ pc'[r] = pc[r]
              \/ pc[r] \in Past /\ pc'[r] \in Past \ {"create.update"}
  PROVE  Owned'
<1>1. \A w \in Tenant : (Registered(w)' => Registered(w) /\ domain'[w] = domain[w])
        /\ (domain'[w].status \in {"verifying", "verified"} => domain'[w] = domain[w])
  BY DEF Registered
<1>2. \A r \in Request :
        /\ pc'[r] \in Past => pc[r] \in Past /\ local'[r] = local[r]
        /\ pc'[r] \in {"create.insert", "delete.ses", "create.update"} => pc'[r] = pc[r]
  BY DEF Past
<1>3. OneOwner' /\ KeyIsIdentity'
  BY <1>1 DEF Owned, OneOwner, KeyIsIdentity
<1>4. NobodyClaims' /\ NobodyUses'
  BY <1>1, <1>2 DEF Owned, NobodyClaims, NobodyUses, Unclaimed
<1>5. OnePast' /\ PastIsAlone'
  BY <1>1, <1>2, DomainConstants DEF Owned, OnePast, PastIsAlone, AloneWithSes
<1>6. KeyToStore'
  <2> SUFFICES ASSUME NEW r \in Request, pc'[r] = "create.update", Matches(local[r].ws, r, 1)'
               PROVE  identity' = r
    BY DEF KeyToStore
  <2>1. pc[r] = "create.update" /\ local'[r] = local[r] /\ local'[r].ws \in Tenant
    BY <1>2 DEF DomainRequests, HoldsDomain, DomainLocal, Past
  <2>2. domain'[local[r].ws] = domain[local[r].ws]
    BY <2>1 DEF Matches, DomainRows, DomainRowOK
  <2> QED
    BY <2>1, <2>2 DEF Owned, KeyToStore, Matches
<1> QED
  BY <1>3, <1>4, <1>5, <1>6 DEF Owned

--------------------------------------------------------------------------
\* A request moves and nothing else changes.
LEMMA QuietStep ==
  ASSUME DomainInv, DomainRequests', NEW r \in Request, NEW l \in DomainLocals, NEW s \in DomainSteps,
         DomainMoves(r, l, s), \A q \in Request : Started(q) => Started(q)',
         UNCHANGED <<domain, identity, cleanup, domainHistory>>,
         s \notin Past \union {"create.insert", "delete.ses"},
         s = "delete.mark" => domain[l.ws].version >= l.version /\ Registered(l.ws)
  PROVE  DomainInv'
<1>1. DomainRows'
  <2>1. \A q \in Request : pc'[q] = "delete.mark" /\ ~ (pc[q] = "delete.mark" /\ local'[q] = local[q]) =>
          q = r
    BY DEF DomainMoves
  <2>2. local'[r] = l /\ pc'[r] = s
    BY DEF DomainMoves
  <2> QED
    BY <2>1, <2>2, DomainRowsKept DEF DomainInv, DomainRows
<1>2. ASSUME Owned
      PROVE  Owned'
  BY <1>1, <1>2, OwnedKept DEF DomainMoves
<1> QED
  BY <1>1, <1>2, DomainConstants DEF DomainInv, Disturbed

LEMMA DomainReturnStep ==
  ASSUME DomainInv, NEW r \in Request, NEW s \in {"done", "failed"}, Return(r, s),
         UNCHANGED <<domain, identity, cleanup, domainHistory>>
  PROVE  DomainInv'
<1>1. DomainRequests' /\ DomainMoves(r, Nothing, s) /\ \A q \in Request : Started(q) => Started(q)'
  BY DomainReturnOK DEF DomainInv
<1>2. Nothing \in DomainLocals /\ s \in DomainSteps
      /\ s \notin Past \union {"create.insert", "delete.ses", "delete.mark"}
  BY DEF DomainLocals, DomainSteps, Past
<1> HIDE DEF Nothing
<1> QED
  BY <1>1, <1>2, QuietStep

LEMMA CreateCheckStep ==
  ASSUME DomainInv, NEW r \in Request, NEW w \in Tenant, CreateCheck(r, w)
  PROVE  DomainInv'
<1> DEFINE l == [op |-> "create", ws |-> w, id |-> r, version |-> 1]
<1>1. l \in DomainLocal /\ l \in DomainLocals /\ l.id = r /\ l.version = 1
  BY DEF DomainLocal, DomainLocals, Selector
<1>2. pc[r] = "new" /\ Unclaimed /\ Go(r, l, "create.insert")
      /\ UNCHANGED <<domain, identity, cleanup, domainHistory>>
  BY DEF CreateCheck, ClaimedByAnother, Unclaimed
<1> HIDE DEF l
<1>3. /\ DomainRequests' /\ DomainMoves(r, l, "create.insert")
      /\ \A q \in Request : Started(q) => Started(q)'
  BY <1>1, <1>2, DomainGoOK DEF DomainInv, HoldsFor, Deleting, DomainSteps
<1>4. DomainRows'
  <2>1. \A q \in Request : pc'[q] = "delete.mark" => pc[q] = "delete.mark" /\ local'[q] = local[q]
    BY <1>3 DEF DomainMoves
  <2> QED
    BY <1>2, <1>3, <2>1, DomainRowsKept DEF DomainInv, DomainRows
<1>5. ASSUME Owned
      PROVE  Owned'
  <2>1. \A q \in Request : /\ pc'[q] \in Past => pc[q] \in Past /\ local'[q] = local[q]
                           /\ pc'[q] \in {"delete.ses", "create.update"} => pc'[q] = pc[q]
    BY <1>3 DEF DomainMoves, Past
  <2>2. OneOwner' /\ KeyIsIdentity' /\ NobodyClaims' /\ NobodyUses'
    BY <1>2, <1>5, <2>1 DEF Owned, OneOwner, KeyIsIdentity, NobodyClaims, NobodyUses, Unclaimed, Registered
  <2>3. OnePast' /\ PastIsAlone'
    BY <1>2, <1>5, <2>1, DomainConstants DEF Owned, OnePast, PastIsAlone, AloneWithSes, Registered
  <2>4. KeyToStore'
    <3>1. \A q \in Request : pc'[q] = "create.update" => pc[q] = "create.update" /\ local'[q] = local[q]
      BY <2>1 DEF Past
    <3> QED
      BY <1>2, <1>5, <3>1 DEF Owned, KeyToStore, Matches
  <2> QED
    BY <2>2, <2>3, <2>4 DEF Owned
<1> QED
  BY <1>2, <1>3, <1>4, <1>5, DomainConstants DEF DomainInv, Disturbed

\* Unless something else is under way, the new row is the only one.
LEMMA DomainInsertStep ==
  ASSUME DomainInv, NEW r \in Request, CreateInsert(r)
  PROVE  DomainInv'
<1> DEFINE new == [status |-> "pending", id |-> r, version |-> 1, selector |-> NoSelector]
           busy == cleanup > 0 \/ \E q \in Request \ {r} : ~ Idle(q)
           H == domainHistory
<1>1. pc[r] = "create.insert" /\ UNCHANGED <<identity, cleanup>>
  BY DEF CreateInsert
<1>2. PICK w \in Tenant : /\ local[r] \in DomainLocal /\ local[r].id = r
                          /\ local[r].version = 1 /\ local[r].ws = w
  BY <1>1, DomainUnderWay DEF HoldsDomain, DomainLocal
<1>3. CASE domain[w].status # "none"
  BY <1>1, <1>2, <1>3, DomainReturnStep DEF CreateInsert
<1>4. CASE domain[w].status = "none"
  <2>1. domain' = [domain EXCEPT ![w] = new] /\ Goto(r, "ses.get")
        /\ domainHistory' = [H EXCEPT !.overlap = @ \/ cleanup > 0 \/ \E q \in Request \ {r} : ~ Idle(q)]
    BY <1>2, <1>4 DEF CreateInsert, InsertRow
  <2>2. /\ DomainRequests' /\ DomainMoves(r, local[r], "ses.get")
        /\ \A q \in Request : Started(q) => Started(q)'
    BY <1>2, <2>1, DomainGotoOK DEF DomainInv, HoldsFor, Deleting, DomainSteps
  <2>3. new \in DomainRow /\ new.id = r /\ new.version = 1 /\ new.status = "pending"
        /\ new.selector = NoSelector
    BY DEF DomainRow, Selector
  <2> HIDE DEF new
  <2>4. domain'[w] = new => DomainRowOK(w)'
    <3>1. Started(r)' /\ r # NoSelector
      BY <2>2, SelectorAssumption DEF DomainMoves, Started
    <3> QED
      BY <2>3, <3>1 DEF DomainRowOK
  <2>5. \A q \in Request : pc[q] = "delete.mark" => r # local[q].id
    BY <1>1 DEF DomainInv, DomainRequests, HoldsDomain, Deleting, Started
  <2>6. DomainRows' /\ domain'[w] = new /\ \A v \in Tenant : v # w => domain'[v] = domain[v]
    <3>1. \A q \in Request : pc'[q] = "delete.mark" => pc[q] = "delete.mark" /\ local'[q] = local[q]
      BY <2>2 DEF DomainMoves
    <3> QED
      BY <1>1, <1>2, <2>1, <2>2, <2>3, <2>4, <2>5, <3>1, DomainRowsPut DEF DomainInv, DomainRows
  <2>7. /\ domainHistory' \in DomainHistory /\ domainHistory'.early = H.early
        /\ domainHistory'.overlap <=> (H.overlap \/ busy)
    <3>1. H \in DomainHistory /\ busy \in BOOLEAN
      BY DEF DomainInv
    <3>2. domainHistory' = [H EXCEPT !.overlap = @ \/ busy]
      <4>1. (H.overlap \/ cleanup > 0 \/ \E q \in Request \ {r} : ~ Idle(q)) = (H.overlap \/ busy)
        OBVIOUS
      <4> QED
        BY <2>1, <4>1
    <3> HIDE DEF busy
    <3> QED
      BY <3>1, <3>2, Zenon DEF DomainHistory
  <2>8. ASSUME ~ Disturbed'
        PROVE  Owned'
    <3>1. Owned /\ cleanup = 0 /\ \A q \in Request \ {r} : Idle(q)
      BY <2>7, <2>8, DomainUnderWay DEF Disturbed, DomainInv
    <3>2. Unclaimed
      BY <1>1, <3>1 DEF Owned, NobodyClaims
    <3>3. \A q \in Request : q # r => pc'[q] \in {"new", "done", "failed"}
      BY <2>2, <3>1 DEF DomainMoves, Idle, Ended
    <3>4. pc'[r] = "ses.get" /\ local'[r] = local[r]
      BY <2>2 DEF DomainMoves
    <3>5. \A v \in Tenant : v # w => domain'[v].status \in {"none", "deleted"}
      BY <2>6, <3>2, DomainUnderWay DEF Unclaimed, Registered
    <3>6. OneOwner' /\ KeyIsIdentity'
      BY <2>3, <2>6, <3>5 DEF OneOwner, KeyIsIdentity, Registered
    <3>7. NobodyClaims' /\ NobodyUses' /\ OnePast' /\ KeyToStore'
      BY <1>1, <3>1, <3>3, <3>4 DEF NobodyClaims, NobodyUses, OnePast, KeyToStore, Past
    <3>8. PastIsAlone'
      BY <1>1, <1>2, <2>3, <2>6, <3>1, <3>3, <3>4, <3>5 DEF PastIsAlone, AloneWithSes, Past, Registered
    <3> QED
      BY <3>6, <3>7, <3>8 DEF Owned
  <2> QED
    BY <2>2, <2>6, <2>7, <2>8 DEF DomainInv, Disturbed
<1> QED
  BY <1>3, <1>4

\* A registration that is past its insertion talks to SES.
LEMMA AtSesOK ==
  ASSUME DomainInv, NEW r \in Request, pc[r] \in Past, NEW s \in Past, Goto(r, s),
         UNCHANGED <<domain, cleanup, domainHistory>>, identity' \in Selector,
         s = "create.update" => identity' = r
  PROVE  DomainInv'
<1>1. HoldsFor(r, local[r], s) /\ s \in DomainSteps /\ s \notin {"new", "create.insert"}
  BY DomainUnderWay DEF HoldsDomain, HoldsFor, Past, Deleting, DomainSteps
<1>2. DomainRequests' /\ DomainMoves(r, local[r], s) /\ \A q \in Request : Started(q) => Started(q)'
  BY <1>1, DomainGotoOK DEF DomainInv
<1>3. \A q \in Request : /\ local'[q] = local[q]
                         /\ pc'[q] \in Past => pc[q] \in Past
                         /\ pc'[q] \in {"create.insert", "delete.ses", "delete.mark"} => pc'[q] = pc[q]
  BY <1>2 DEF DomainMoves, Past
<1>4. DomainRows'
  BY <1>2, <1>3, DomainRowsKept DEF DomainInv, DomainRows
<1>5. ASSUME Owned
      PROVE  Owned'
  <2>1. \A w \in Tenant : domain[w].status \notin {"verifying", "verified"}
    BY <1>5 DEF Owned, PastIsAlone, AloneWithSes, Registered
  <2>2. OneOwner' /\ KeyIsIdentity' /\ NobodyClaims' /\ NobodyUses'
    BY <1>3, <1>5, <2>1 DEF Owned, OneOwner, KeyIsIdentity, NobodyClaims, NobodyUses, Unclaimed, Registered
  <2>3. OnePast' /\ PastIsAlone'
    BY <1>3, <1>5, DomainConstants DEF Owned, OnePast, PastIsAlone, AloneWithSes, Registered
  <2>4. KeyToStore'
    <3>1. \A q \in Request : pc'[q] = "create.update" => q = r
      BY <1>3, <1>5 DEF Owned, OnePast, Past
    <3>2. pc'[r] = s
      BY <1>2 DEF DomainMoves
    <3> QED
      BY <3>1, <3>2 DEF KeyToStore
  <2> QED
    BY <2>2, <2>3, <2>4 DEF Owned
<1> QED
  BY <1>2, <1>4, <1>5, DomainConstants DEF DomainInv, Disturbed

LEMMA SesStep ==
  ASSUME DomainInv, NEW r \in Request,
         SesGet(r) \/ SesReplace(r) \/ SesCreate(r) \/ SesThrows(r)
  PROVE  DomainInv'
<1>1. pc[r] \in Past /\ UNCHANGED <<domain, cleanup, domainHistory>> /\ identity' \in Selector
  BY DomainUnderWay DEF SesGet, SesReplace, SesCreate, SesThrows, Past, Selector
<1>2. \E s \in Past : Goto(r, s) /\ (s = "create.update" => identity' = r)
  BY DEF SesGet, SesReplace, SesCreate, SesThrows, Past
<1> QED
  BY <1>1, <1>2, AtSesOK

\* The row of the registration that gives up is the only one there can be,
\* so that the clean-up finds none.
LEMMA RollbackStep ==
  ASSUME DomainInv, NEW r \in Request, CreateRollback(r)
  PROVE  DomainInv'
<1>1. pc[r] = "create.rollback" /\ UNCHANGED <<identity, domainHistory>> /\ cleanup' = cleanup + 1
      /\ Return(r, "failed")
  BY DEF CreateRollback
<1>2. PICK w \in Tenant : /\ local[r] \in DomainLocal /\ local[r].id = r
                          /\ local[r].version = 1 /\ local[r].ws = w
  BY <1>1, DomainUnderWay DEF HoldsDomain, DomainLocal, Past
<1>3. /\ DomainRequests' /\ DomainMoves(r, Nothing, "failed")
      /\ \A q \in Request : Started(q) => Started(q)'
  BY <1>1, DomainReturnOK DEF DomainInv
<1>4. \A q \in Request : pc'[q] = "delete.mark" => pc[q] = "delete.mark" /\ local'[q] = local[q]
  BY <1>3 DEF DomainMoves
<1>5. cleanup' \in Nat /\ cleanup' > 0 /\ identity' \in Selector
  BY <1>1, DomainUnderWay
<1>6. DomainRows' /\ \A v \in Tenant :
        domain'[v] = IF v = w /\ domain[w].id = r THEN NoDomain ELSE domain[v]
  <2>1. CASE domain[w].id = r
    <3>1. domain' = [domain EXCEPT ![w] = NoDomain]
      BY <1>2, <2>1 DEF CreateRollback
    <3>2. NoDomain \in DomainRow /\ NoDomain.id = NoSelector /\ NoDomain.status = "none"
          /\ NoDomain.version = 0
      BY DEF NoDomain, DomainRow, Selector
    <3>3. domain'[w] = NoDomain => DomainRowOK(w)'
      BY <3>2 DEF DomainRowOK
    <3>4. \A q \in Request : pc[q] = "delete.mark" => local[q].id # NoSelector
      BY SelectorAssumption DEF DomainInv, DomainRequests, HoldsDomain, Deleting
    <3>5. \A q \in Request : pc[q] = "delete.mark" /\ NoDomain.id = local[q].id =>
            NoDomain.id = domain[w].id /\ NoDomain.version = domain[w].version + 1
      BY <3>2, <3>4
    <3>6. w \in Tenant /\ NoDomain \in DomainRow /\ DomainRequests /\ DomainRows
      BY <1>2, <3>2 DEF DomainInv
    <3>7. DomainRows' /\ domain'[w] = NoDomain /\ \A v \in Tenant : v # w => domain'[v] = domain[v]
      BY ONLY <1>3, <1>4, <1>5, <3>1, <3>3, <3>5, <3>6, DomainRowsPut
    <3> QED
      BY <2>1, <3>7
  <2>2. CASE domain[w].id # r
    <3>1. domain' = domain
      BY <1>2, <2>2 DEF CreateRollback
    <3> QED
      BY <1>3, <1>4, <1>5, <2>2, <3>1, DomainRowsKept DEF DomainInv
  <2> QED
    BY <2>1, <2>2
<1>7. ASSUME Owned
      PROVE  Owned'
  <2>1. \A v \in Tenant : Registered(v) => v = w /\ domain[v].id = r
    BY <1>1, <1>2, <1>7 DEF Owned, PastIsAlone, AloneWithSes, Past
  <2>2. \A v \in Tenant : ~ Registered(v)'
    BY <1>6, <2>1 DEF Registered, NoDomain
  <2>3. \A v \in Tenant : domain'[v].status \in {"none", "deleted"}
    BY <1>6, <2>2, DomainRowFields DEF Registered
  <2>4. \A q \in Request : pc'[q] \notin Past
    BY <1>1, <1>3, <1>7 DEF Owned, OnePast, DomainMoves, Past
  <2>5. KeyToStore' /\ OnePast' /\ PastIsAlone'
    BY <2>4, DomainConstants DEF KeyToStore, OnePast, PastIsAlone, Past
  <2> QED
    BY <2>2, <2>3, <2>5 DEF Owned, OneOwner, KeyIsIdentity, NobodyClaims, NobodyUses, Unclaimed
<1> QED
  BY <1>1, <1>3, <1>6, <1>7, DomainConstants DEF DomainInv, Disturbed

LEMMA CleanupStep ==
  ASSUME DomainInv, Cleanup
  PROVE  DomainInv'
<1>1. UNCHANGED <<domain, pc, local, domainHistory>> /\ cleanup > 0 /\ cleanup' = cleanup - 1
      /\ identity' \in Selector /\ cleanup' \in Nat
  BY DEF Cleanup, DomainInv, DomainRows, Selector
<1>2. DomainRequests' /\ DomainRows'
  <2>1. DomainRequests'
    BY <1>1, DomainConstants DEF DomainInv, DomainRequests, HoldsDomain, Started
  <2>2. DomainRows'
    BY <1>1, DomainRowsKept DEF DomainInv, Started
  <2> QED
    BY <2>1, <2>2
<1>3. ASSUME Owned
      PROVE  Owned'
  <2>1. Unclaimed /\ \A r \in Request : pc[r] \notin Past
    BY <1>1, <1>3 DEF Owned, NobodyClaims, PastIsAlone, AloneWithSes, DomainInv, DomainRows
  <2>2. OneOwner' /\ KeyIsIdentity' /\ NobodyClaims' /\ NobodyUses'
    BY <1>1, <1>3, <2>1 DEF Owned, OneOwner, KeyIsIdentity, NobodyClaims, NobodyUses, Unclaimed, Registered
  <2>3. OnePast' /\ PastIsAlone' /\ KeyToStore'
    BY <1>1, <2>1, DomainConstants DEF OnePast, PastIsAlone, KeyToStore, Past
  <2> QED
    BY <2>2, <2>3 DEF Owned
<1> QED
  BY <1>1, <1>2, <1>3, DomainConstants DEF DomainInv, Disturbed

\* The key that is stored is that of the identity, which nobody has touched
\* since this registration made it.
LEMMA CreateUpdateStep ==
  ASSUME DomainInv, NEW r \in Request, CreateUpdate(r)
  PROVE  DomainInv'
<1>1. pc[r] = "create.update" /\ UNCHANGED <<identity, cleanup, domainHistory>>
  BY DEF CreateUpdate
<1>2. PICK w \in Tenant : /\ local[r] \in DomainLocal /\ local[r].id = r
                          /\ local[r].version = 1 /\ local[r].ws = w
  BY <1>1, DomainUnderWay DEF HoldsDomain, DomainLocal, Past
<1>3. CASE ~ Matches(w, r, 1)
  BY <1>1, <1>2, <1>3, DomainReturnStep DEF CreateUpdate
<1>4. CASE Matches(w, r, 1)
  <2>1. Patch(w, [domain[w] EXCEPT !.status = "verifying", !.selector = r]) /\ Return(r, "done")
    BY <1>2, <1>4 DEF CreateUpdate
  <2>2. /\ DomainRequests' /\ DomainMoves(r, Nothing, "done")
        /\ \A q \in Request : Started(q) => Started(q)'
    BY <2>1, DomainReturnOK DEF DomainInv
  <2>3. domain[w].status = "pending" /\ domain[w].id = r
    BY <1>4, DomainRowFields DEF DomainInv, Matches, DomainRowOK
  <2>4. \A q \in Request : pc'[q] = "delete.mark" => pc[q] = "delete.mark" /\ local'[q] = local[q]
    BY <2>2 DEF DomainMoves
  <2>5. DomainRows' /\ Patched(w, "verifying", r)
    <3>1. r \in Selector /\ "verifying" \in {"verifying", "verified", "deleting", "deleted"}
          /\ identity' \in Selector /\ cleanup' \in Nat /\ domain[w].status # "none"
      BY <1>1, <2>3, DomainUnderWay DEF Selector
    <3> QED
      BY <2>1, <2>2, <2>4, <3>1, PatchOK DEF DomainInv
  <2>6. ASSUME Owned
        PROVE  Owned'
    <3>1. identity = r /\ r # NoSelector /\ cleanup = 0
      BY <1>1, <1>2, <1>4, <2>6, SelectorAssumption
      DEF Owned, KeyToStore, PastIsAlone, AloneWithSes, Past
    <3>2. Registered(w) /\ ~ Unclaimed
      BY <2>3 DEF Registered, Unclaimed
    <3>3. \A v \in Tenant : v # w => ~ Registered(v) /\ domain'[v] = domain[v]
      BY <2>5, <2>6, <3>2 DEF Owned, OneOwner, Patched
    <3>4. \A q \in Request : pc[q] \notin {"create.insert", "delete.ses"}
      BY <2>3, <2>6, <3>2 DEF Owned, NobodyClaims, NobodyUses
    <3>5. \A q \in Request : pc'[q] \notin Past \union {"create.insert", "delete.ses"}
      BY <1>1, <2>2, <2>6, <3>4 DEF Owned, OnePast, DomainMoves, Past
    <3>6. OneOwner' /\ KeyIsIdentity'
      BY <1>1, <2>5, <3>1, <3>3 DEF OneOwner, KeyIsIdentity, Patched, Registered
    <3>7. NobodyClaims' /\ NobodyUses' /\ OnePast' /\ PastIsAlone' /\ KeyToStore'
      BY <1>1, <3>1, <3>5, DomainConstants DEF NobodyClaims, NobodyUses, OnePast, PastIsAlone, KeyToStore, Past
    <3> QED
      BY <3>6, <3>7 DEF Owned
  <2> QED
    BY <1>1, <2>2, <2>5, <2>6, DomainConstants DEF DomainInv, Disturbed
<1> QED
  BY <1>3, <1>4

\* A row that is patched while it has a key stays the only one, with its key.
LEMMA VerificationOK ==
  ASSUME Owned, NEW w \in Tenant, NEW s \in {"verifying", "verified"},
         domain[w].status \in {"verifying", "verified"}, Patched(w, s, domain[w].selector),
         DomainRequests', DomainRows', UNCHANGED <<identity, cleanup>>,
         \A q \in Request : pc'[q] \in Past \union {"create.insert", "delete.ses"} =>
           pc'[q] = pc[q] /\ local'[q] = local[q]
  PROVE  Owned'
<1>1. \A q \in Request : pc'[q] \notin Past \union {"create.insert", "delete.ses"}
  BY DEF Owned, PastIsAlone, AloneWithSes, NobodyClaims, NobodyUses, Registered, Unclaimed
<1>2. \A v \in Tenant : Registered(v)' => Registered(v)
  BY DEF Patched, Registered
<1>3. OneOwner' /\ KeyIsIdentity'
  BY <1>2 DEF Owned, OneOwner, KeyIsIdentity, Patched
<1>4. ~ (cleanup > 0)
  BY DEF Owned, NobodyClaims, Unclaimed, Registered
<1>5. NobodyClaims' /\ NobodyUses' /\ OnePast' /\ PastIsAlone' /\ KeyToStore'
  BY <1>1, <1>4, DomainConstants DEF NobodyClaims, NobodyUses, OnePast, PastIsAlone, KeyToStore, Past
<1> QED
  BY <1>3, <1>5 DEF Owned

\* A verification that is requeued before there was a key is noted.
LEMMA RequeueStep ==
  ASSUME DomainInv, NEW r \in Request, NEW w \in Tenant, RequeueVerification(r, w)
  PROVE  DomainInv'
<1> DEFINE H == domainHistory
           keyless == domain[w].selector = NoSelector
<1>1. domain[w].status \in {"pending", "verifying"} /\ Return(r, "done") /\ UNCHANGED <<identity, cleanup>>
      /\ Patch(w, [domain[w] EXCEPT !.status = "verifying"])
      /\ domainHistory' = [H EXCEPT !.early = @ \/ keyless]
  BY DEF RequeueVerification
<1>2. /\ DomainRequests' /\ DomainMoves(r, Nothing, "done")
      /\ \A q \in Request : Started(q) => Started(q)'
  BY <1>1, DomainReturnOK DEF DomainInv
<1>3. /\ domainHistory' \in DomainHistory /\ domainHistory'.overlap = H.overlap
      /\ domainHistory'.early <=> (H.early \/ keyless)
  <2>1. H \in DomainHistory /\ keyless \in BOOLEAN
    BY DEF DomainInv
  <2> HIDE DEF keyless
  <2> QED
    BY <1>1, <2>1, Zenon DEF DomainHistory
<1>4. \A q \in Request :
        pc'[q] \in Past \union {"create.insert", "delete.ses", "delete.mark"} =>
          pc'[q] = pc[q] /\ local'[q] = local[q]
  BY <1>2 DEF DomainMoves, Past
<1>5. DomainRows' /\ Patched(w, "verifying", domain[w].selector)
  <2>1. domain[w].selector \in Selector /\ "verifying" \in {"verifying", "verified", "deleting", "deleted"}
        /\ identity' \in Selector /\ cleanup' \in Nat /\ domain[w].status # "none"
    BY <1>1, DomainUnderWay, DomainRowFields
  <2> QED
    BY <1>1, <1>2, <1>4, <2>1, PatchOK DEF DomainInv
<1>6. ASSUME ~ Disturbed'
      PROVE  Owned'
  <2>1. Owned /\ domain[w].status = "verifying"
    BY <1>1, <1>3, <1>6, DomainRowFields DEF Disturbed, DomainInv, DomainRowOK
  <2> QED
    BY <1>1, <1>2, <1>4, <1>5, <2>1, VerificationOK
<1> QED
  BY <1>2, <1>3, <1>5, <1>6 DEF DomainInv, Disturbed

LEMMA PollStep ==
  ASSUME DomainInv, NEW w \in Tenant, PollVerified(w)
  PROVE  DomainInv'
<1>1. domain[w].status = "verifying" /\ UNCHANGED <<identity, cleanup, pc, local, domainHistory>>
      /\ Patch(w, [domain[w] EXCEPT !.status = "verified"])
  BY DEF PollVerified
<1>2. DomainRequests'
  BY <1>1, DomainConstants DEF DomainInv, DomainRequests, HoldsDomain, Started
<1>3. DomainRows' /\ Patched(w, "verified", domain[w].selector)
  <2>1. domain[w].selector \in Selector /\ "verified" \in {"verifying", "verified", "deleting", "deleted"}
        /\ identity' \in Selector /\ cleanup' \in Nat /\ domain[w].status # "none"
    BY <1>1, DomainRowFields DEF DomainInv, DomainRows
  <2>2. /\ \A q \in Request : Started(q) => Started(q)'
        /\ \A q \in Request : pc'[q] = "delete.mark" => pc[q] = "delete.mark" /\ local'[q] = local[q]
    BY <1>1 DEF Started
  <2> QED
    BY <1>1, <2>1, <2>2, PatchOK DEF DomainInv
<1>4. ASSUME Owned
      PROVE  Owned'
  BY <1>1, <1>2, <1>3, <1>4, VerificationOK
<1> QED
  BY <1>1, <1>2, <1>3, <1>4, DomainConstants DEF DomainInv, Disturbed

LEMMA DeleteReadStep ==
  ASSUME DomainInv, NEW r \in Request, NEW w \in Tenant, DeleteRead(r, w)
  PROVE  DomainInv'
<1> DEFINE l == [op |-> "delete", ws |-> w, id |-> domain[w].id, version |-> domain[w].version]
<1>1. pc[r] = "new" /\ Registered(w) /\ Go(r, l, "delete.mark")
      /\ UNCHANGED <<domain, identity, cleanup, domainHistory>>
  BY DEF DeleteRead
<1>2. /\ domain[w].id \in Request /\ Started(domain[w].id)
      /\ domain[w].version \in Nat /\ domain[w].id \in Selector
  BY <1>1, DomainRowFields, DomainUnderWay DEF DomainRowOK, Registered
<1>3. /\ l \in DomainLocal /\ l \in DomainLocals /\ l.id = domain[w].id
      /\ l.ws = w /\ l.version = domain[w].version
  BY <1>2 DEF DomainLocal, DomainLocals
<1> HIDE DEF l
<1>4. HoldsFor(r, l, "delete.mark")
  BY <1>2, <1>3 DEF HoldsFor, Past
<1>5. "delete.mark" \in DomainSteps /\ "delete.mark" \notin Past \union {"create.insert", "delete.ses"}
  BY DEF DomainSteps, Past
<1>6. /\ DomainRequests' /\ DomainMoves(r, l, "delete.mark")
      /\ \A q \in Request : Started(q) => Started(q)'
  BY <1>1, <1>3, <1>4, <1>5, DomainGoOK DEF DomainInv
<1>7. domain[l.ws].version >= l.version /\ Registered(l.ws)
  BY <1>1, <1>2, <1>3
<1> QED
  BY <1>1, <1>3, <1>5, <1>6, <1>7, QuietStep

\* The row that is marked is still the one that was read, so that it is
\* registered; from here on nobody uses the name.
LEMMA DeleteMarkStep ==
  ASSUME DomainInv, NEW r \in Request, DeleteMark(r)
  PROVE  DomainInv'
<1>1. pc[r] = "delete.mark" /\ UNCHANGED <<identity, cleanup, domainHistory>>
  BY DEF DeleteMark
<1>2. PICK l \in DomainLocal : l = local[r] /\ l.id \in Request /\ Started(l.id)
  BY <1>1, DomainUnderWay DEF HoldsDomain, Deleting
<1>3. PICK w \in Tenant : w = l.ws
  BY DEF DomainLocal
<1>4. CASE ~ Matches(w, l.id, l.version)
  BY <1>1, <1>2, <1>3, <1>4, DomainReturnStep DEF DeleteMark
<1>5. CASE Matches(w, l.id, l.version)
  <2>1. PICK m \in DomainLocal :
          /\ m.id = l.id /\ m.ws = w /\ Go(r, m, "delete.ses")
          /\ Patch(w, [domain[w] EXCEPT !.status = "deleting"])
    <3>1. /\ Go(r, [l EXCEPT !.version = @ + 1], "delete.ses")
          /\ Patch(w, [domain[w] EXCEPT !.status = "deleting"])
      BY <1>2, <1>3, <1>5 DEF DeleteMark
    <3>2. /\ [l EXCEPT !.version = @ + 1] \in DomainLocal
          /\ [l EXCEPT !.version = @ + 1].id = l.id /\ [l EXCEPT !.version = @ + 1].ws = l.ws
      BY DEF DomainLocal
    <3> QED
      BY <1>3, <3>1, <3>2
  <2>2. HoldsFor(r, m, "delete.ses") /\ m \in DomainLocals /\ "delete.ses" \in DomainSteps
    BY <1>2, <2>1 DEF HoldsFor, Past, DomainLocals, DomainSteps
  <2>3. /\ DomainRequests' /\ DomainMoves(r, m, "delete.ses")
        /\ \A q \in Request : Started(q) => Started(q)'
    BY <2>1, <2>2, DomainGoOK DEF DomainInv
  <2>4. Registered(w)
    BY <1>1, <1>2, <1>3, <1>5 DEF DomainInv, DomainRows, SawRegistered, Matches
  <2>5. \A q \in Request : pc'[q] = "delete.mark" => pc[q] = "delete.mark" /\ local'[q] = local[q]
    BY <2>3 DEF DomainMoves
  <2>6. DomainRows' /\ Patched(w, "deleting", domain[w].selector)
    <3>1. domain[w].selector \in Selector /\ "deleting" \in {"verifying", "verified", "deleting", "deleted"}
          /\ identity' \in Selector /\ cleanup' \in Nat /\ domain[w].status # "none"
      BY <1>1, <2>4, DomainUnderWay, DomainRowFields DEF Registered
    <3> QED
      BY <2>1, <2>3, <2>5, <3>1, PatchOK DEF DomainInv
  <2>7. ASSUME Owned
        PROVE  Owned'
    <3>1. \A v \in Tenant : v # w => ~ Registered(v) /\ domain'[v] = domain[v]
      BY <2>4, <2>6, <2>7 DEF Owned, OneOwner, Patched
    <3>2. \A v \in Tenant : domain'[v].status \in {"none", "deleting", "deleted"}
      BY <2>6, <3>1, DomainRowFields DEF DomainInv, Registered, Patched
    <3>3. OneOwner' /\ KeyIsIdentity' /\ NobodyUses'
      BY <3>1, <3>2 DEF OneOwner, KeyIsIdentity, NobodyUses, Registered
    <3>4. cleanup = 0 /\ \A q \in Request : pc[q] # "create.insert"
      BY <2>4, <2>7, DomainUnderWay DEF Owned, NobodyClaims, Unclaimed
    <3>5. \A q \in Request :
            /\ pc'[q] \in Past \union {"create.update"} => pc'[q] = pc[q] /\ local'[q] = local[q]
            /\ pc'[q] # "create.insert"
      BY <2>3, <3>4 DEF DomainMoves, Past
    <3>6. NobodyClaims' /\ OnePast'
      BY <1>1, <2>7, <3>4, <3>5, DomainConstants DEF Owned, NobodyClaims, OnePast
    <3>7. PastIsAlone'
      <4> SUFFICES ASSUME NEW q \in Request, pc'[q] \in Past
                   PROVE  AloneWithSes(q)'
        BY DomainConstants DEF PastIsAlone
      <4>1. pc[q] \in Past /\ local'[q] = local[q] /\ AloneWithSes(q)
        BY <2>7, <3>5 DEF Owned, PastIsAlone
      <4>2. w = local[q].ws /\ domain[w].id = q
        BY <2>4, <4>1 DEF AloneWithSes
      <4> QED
        BY <1>1, <2>6, <3>1, <3>4, <4>1, <4>2 DEF AloneWithSes, Patched, Registered
    <3>8. KeyToStore'
      <4> SUFFICES ASSUME NEW q \in Request, pc'[q] = "create.update", Matches(local[q].ws, q, 1)'
                   PROVE  identity' = q
        BY DEF KeyToStore
      <4>1. pc[q] = "create.update" /\ local'[q] = local[q] /\ local[q].ws \in Tenant
        BY <3>5, DomainUnderWay DEF HoldsDomain, DomainLocal, Past
      <4>2. domain'[local[q].ws] = domain[local[q].ws]
        BY <2>6, <3>1, <4>1 DEF Matches, Patched
      <4> QED
        BY <1>1, <2>7, <4>1, <4>2 DEF Owned, KeyToStore, Matches
    <3> QED
      BY <3>3, <3>6, <3>7, <3>8 DEF Owned
  <2> QED
    BY <1>1, <2>3, <2>6, <2>7, DomainConstants DEF DomainInv, Disturbed
<1> QED
  BY <1>4, <1>5

LEMMA DeleteSesStep ==
  ASSUME DomainInv, NEW r \in Request, DeleteSes(r)
  PROVE  DomainInv'
<1>1. pc[r] = "delete.ses" /\ UNCHANGED <<domain, cleanup, domainHistory>> /\ identity' \in Selector
      /\ Goto(r, "delete.tombstone")
  BY DomainUnderWay DEF DeleteSes, Selector
<1>2. HoldsFor(r, local[r], "delete.tombstone") /\ "delete.tombstone" \in DomainSteps
  BY <1>1, DomainUnderWay DEF HoldsDomain, HoldsFor, Past, Deleting, DomainSteps
<1>3. /\ DomainRequests' /\ DomainMoves(r, local[r], "delete.tombstone")
      /\ \A q \in Request : Started(q) => Started(q)'
  BY <1>1, <1>2, DomainGotoOK DEF DomainInv
<1>4. \A q \in Request :
        /\ local'[q] = local[q]
        /\ pc'[q] \in Past \union {"create.insert", "delete.ses", "delete.mark"} => pc'[q] = pc[q]
  BY <1>3 DEF DomainMoves, Past
<1>5. DomainRows'
  BY <1>1, <1>3, <1>4, DomainRowsKept DEF DomainInv, DomainRows
<1>6. ASSUME Owned
      PROVE  Owned'
  <2>1. \A v \in Tenant : domain[v].status \in {"none", "deleting", "deleted"}
    BY <1>1, <1>6 DEF Owned, NobodyUses
  <2>2. OneOwner' /\ KeyIsIdentity' /\ NobodyClaims' /\ NobodyUses'
    BY <1>1, <1>4, <1>6, <2>1 DEF Owned, OneOwner, KeyIsIdentity, NobodyClaims, NobodyUses, Unclaimed, Registered
  <2>3. OnePast' /\ PastIsAlone'
    BY <1>1, <1>4, <1>6, DomainConstants DEF Owned, OnePast, PastIsAlone, AloneWithSes, Registered
  <2>4. KeyToStore'
    <3> SUFFICES ASSUME NEW q \in Request, pc'[q] = "create.update", Matches(local[q].ws, q, 1)'
                 PROVE  FALSE
      BY DEF KeyToStore
    <3>1. local'[q] = local[q] /\ local[q].ws \in Tenant
      BY <1>4, DomainUnderWay DEF HoldsDomain, DomainLocal, Past
    <3>2. domain[local[q].ws].version = 1
      BY <1>1, <3>1 DEF Matches
    <3>3. domain[local[q].ws].status = "pending"
      BY <3>1, <3>2, DomainRowFields DEF DomainInv, DomainRowOK
    <3> QED
      BY <2>1, <3>1, <3>3
  <2> QED
    BY <2>2, <2>3, <2>4 DEF Owned
<1> QED
  BY <1>1, <1>3, <1>5, <1>6, DomainConstants DEF DomainInv, Disturbed

LEMMA DeleteTombstoneStep ==
  ASSUME DomainInv, NEW r \in Request, DeleteTombstone(r)
  PROVE  DomainInv'
<1>1. pc[r] = "delete.tombstone" /\ UNCHANGED <<identity, cleanup, domainHistory>>
  BY DEF DeleteTombstone
<1>2. PICK l \in DomainLocal : l = local[r]
  BY <1>1, DomainUnderWay DEF HoldsDomain, Deleting
<1>3. PICK w \in Tenant : w = l.ws
  BY DEF DomainLocal
<1>4. CASE domain' = domain /\ Return(r, "failed")
  BY <1>1, <1>4, DomainReturnStep
<1>5. CASE SoftDelete(w, l.id, l.version) /\ Return(r, "done")
  <2>1. Registered(w) /\ Patch(w, [domain[w] EXCEPT !.status = "deleted"])
    BY <1>5 DEF SoftDelete
  <2>2. /\ DomainRequests' /\ DomainMoves(r, Nothing, "done")
        /\ \A q \in Request : Started(q) => Started(q)'
    BY <1>5, DomainReturnOK DEF DomainInv
  <2>3. \A q \in Request :
          pc'[q] \in Past \union {"create.insert", "delete.ses", "delete.mark"} =>
            pc'[q] = pc[q] /\ local'[q] = local[q]
    BY <2>2 DEF DomainMoves, Past
  <2>4. DomainRows' /\ Patched(w, "deleted", domain[w].selector)
    <3>1. domain[w].selector \in Selector /\ "deleted" \in {"verifying", "verified", "deleting", "deleted"}
          /\ identity' \in Selector /\ cleanup' \in Nat /\ domain[w].status # "none"
      BY <1>1, <2>1, DomainUnderWay, DomainRowFields DEF Registered
    <3> QED
      BY <2>1, <2>2, <2>3, <3>1, PatchOK DEF DomainInv
  <2>5. ASSUME Owned
        PROVE  Owned'
    <3>1. \A v \in Tenant : domain'[v] = domain[v] \/ domain'[v].status \in {"none", "deleted"}
      BY <2>4 DEF Patched
    <3> QED
      BY <1>1, <2>2, <2>3, <2>4, <2>5, <3>1, OwnedKept
  <2> QED
    BY <1>1, <2>2, <2>4, <2>5, DomainConstants DEF DomainInv, Disturbed
<1> QED
  BY <1>2, <1>3, <1>4, <1>5 DEF DeleteTombstone
--------------------------------------------------------------------------
LEMMA DomainsInit ==
  ASSUME DomainInit
  PROVE  DomainInv
<1>1. \A r \in Request : pc[r] = "new" /\ local[r] = Nothing
  BY DEF DomainInit, HandlersInit
<1>2. DomainRequests
  <2>1. pc \in [Request -> DomainSteps] /\ local \in [Request -> DomainLocals]
    BY DEF DomainInit, HandlersInit, DomainSteps, DomainLocals
  <2> QED
    BY <1>1, <2>1 DEF DomainRequests, HoldsDomain, Past, Deleting
<1>3. /\ \A w \in Tenant : domain[w] = NoDomain
      /\ NoDomain \in DomainRow /\ NoDomain.id = NoSelector /\ NoDomain.status = "none"
      /\ NoDomain.version = 0 /\ NoDomain.selector = NoSelector
  BY DEF DomainInit, NoDomain, DomainRow, Selector
<1>4. DomainRows
  <2>1. domain \in [Tenant -> DomainRow] /\ identity \in Selector /\ cleanup \in Nat
    BY <1>3 DEF DomainInit, Selector
  <2> QED
    BY <1>1, <1>3, <2>1 DEF DomainRows, DomainRowOK, SawRegistered
<1>5. domainHistory \in DomainHistory
  BY DEF DomainInit, DomainHistory
<1>6. Owned
  BY <1>1, <1>3 DEF Owned, OneOwner, KeyIsIdentity, NobodyClaims, NobodyUses, OnePast, PastIsAlone,
     KeyToStore, Unclaimed, Registered, Past
<1> QED
  BY <1>2, <1>4, <1>5, <1>6 DEF DomainInv

LEMMA DomainStep ==
  ASSUME DomainInv, DomainNext
  PROVE  DomainInv'
<1>1. CASE Cleanup
  BY <1>1, CleanupStep
<1>2. ASSUME NEW w \in Tenant, PollVerified(w)
      PROVE  DomainInv'
  BY <1>2, PollStep
<1>3. ASSUME NEW r \in Request, DomainRequest(r)
      PROVE  DomainInv'
  <2>1. CASE \E w \in Tenant : CreateCheck(r, w) \/ RequeueVerification(r, w) \/ DeleteRead(r, w)
    BY <2>1, CreateCheckStep, RequeueStep, DeleteReadStep
  <2>2. CASE CreateInsert(r)
    BY <2>2, DomainInsertStep
  <2>3. CASE SesGet(r) \/ SesReplace(r) \/ SesCreate(r) \/ SesThrows(r)
    BY <2>3, SesStep
  <2>4. CASE CreateRollback(r) \/ CreateUpdate(r)
    BY <2>4, RollbackStep, CreateUpdateStep
  <2>5. CASE DeleteMark(r) \/ DeleteSes(r) \/ DeleteTombstone(r)
    BY <2>5, DeleteMarkStep, DeleteSesStep, DeleteTombstoneStep
  <2>6. CASE FailDomain(r)
    BY <2>6, DomainReturnStep DEF FailDomain, Stop
  <2> QED
    BY <1>3, <2>1, <2>2, <2>3, <2>4, <2>5, <2>6 DEF DomainRequest
<1> QED
  BY <1>1, <1>2, <1>3 DEF DomainNext

\* The rows of the name, its SES identity and the calls that are under way
\* agree in every reachable state: while no two of them overlapped, a
\* registration is alone with the identity, and its key is the identity's.
THEOREM DomainInvariant == DomainSpec => []DomainInv
<1>1. DomainInv /\ [DomainNext]_domainVars => DomainInv'
  <2> SUFFICES ASSUME DomainInv, UNCHANGED domainVars
               PROVE  DomainInv'
    BY DomainStep
  <2>1. UNCHANGED <<domain, identity, cleanup, domainHistory, pc, local>>
    BY DEF domainVars, domainState
  <2>2. DomainRequests'
    BY <2>1, DomainConstants DEF DomainInv, DomainRequests, HoldsDomain, Started
  <2>3. DomainRows'
    BY <2>1, DomainConstants DEF DomainInv, DomainRows, DomainRowOK, SawRegistered, Registered, Started
  <2>4. Owned => Owned'
    BY <2>1, DomainConstants DEF Owned, OneOwner, KeyIsIdentity, NobodyClaims, NobodyUses, OnePast,
       PastIsAlone, AloneWithSes, KeyToStore, Unclaimed, Registered, Matches
  <2> QED
    BY <2>1, <2>2, <2>3, <2>4, DomainConstants DEF DomainInv, Disturbed
<1> QED
  BY <1>1, DomainsInit, PTL DEF DomainSpec

\* Every row, identity and handler of the domains has its type, and a row has
\* an id exactly while it exists.
THEOREM DomainTypeCorrect == DomainSpec => []DomainTypeOK
<1>1. DomainInv => DomainTypeOK
  BY DEF DomainInv, DomainRequests, DomainRows, DomainRowOK, DomainTypeOK, DomainSteps, DomainLocals
<1> QED
  BY <1>1, DomainInvariant, PTL

\* SendingIsOwned: unless calls of the domain service overlapped or a
\* verification was requeued too early, one workspace has the name and signs
\* with the key that SES has.
THEOREM SendingIsOwnedHolds == DomainSpec => []SendingIsOwned
<1>1. DomainInv => SendingIsOwned
  BY DEF DomainInv, Disturbed, Owned, OneOwner, KeyIsIdentity, SendingIsOwned
<1> QED
  BY <1>1, DomainInvariant, PTL

--------------------------------------------------------------------------
(* Segments *)

\* Whatever a query can return; that these are contacts is shown at the end.
Known == Contact \union UNION {QueryContacts(f) : f \in Filter}
Counts == {Cardinality(S) : S \in SUBSET Known}
AnyFilter == Filter \union {NoFilter}

SegmentSteps == {"new", "update", "member", "count", "count.write", "done", "failed"}

SegmentPatch == [type: {"same", "static", "dynamic"}, filter: AnyFilter]
UpdateLocal == [op: {"update"}, patch: SegmentPatch, type: {"static", "dynamic"}]
MemberLocal == [op: {"add", "remove"}, contact: Contact, count: Counts]
SegmentLocals == UpdateLocal \union MemberLocal \union {Nothing}

SegmentRequests ==
  /\ pc \in [Request -> SegmentSteps]
  /\ local \in [Request -> SegmentLocals]
  /\ \A r \in Request : /\ pc[r] = "update" => local[r] \in UpdateLocal
                        /\ pc[r] \in {"member", "count", "count.write"} => local[r] \in MemberLocal

SegmentTypes == {"static", "dynamic"}
SegmentStates == {"pending", "computing", "ready", "failed"}

SegmentRow ==
  [exists: BOOLEAN, type: SegmentTypes, filter: AnyFilter, status: SegmentStates, count: Counts]

SegmentWorkers ==
  [at: {"down", "idle", "mark", "query", "insert", "finish", "fail"},
   filter: AnyFilter, seen: SUBSET Known]

\* A filter that can be run.
Proper(f) == f # NoFilter /\ ~ Throws(f)

Refreshes(w) == worker[w].at \in {"mark", "query", "insert", "finish", "fail"}

\* Only a proper filter gets as far as the DELETE; without a loss no other
\* fails.
WorkerOK(w) ==
  /\ worker[w].at \in {"insert", "finish"} => Proper(worker[w].filter)
  /\ worker[w].at = "fail" /\ ~ segmentHistory.lost => ~ Proper(worker[w].filter)

SegmentRows ==
  /\ segment \in SegmentRow /\ members \in SUBSET Known
  /\ inbox \in [Worker -> Nat] /\ worker \in [Worker -> SegmentWorkers]
  /\ segmentHistory \in SegmentHistory
  /\ \A w \in Worker : WorkerOK(w)

\* Until the segment is created nobody works on it.
Untouched ==
  ~ segment.exists /\ segment.status = "pending" =>
    /\ members = {}
    /\ \A r \in Request : pc[r] = "new"
    /\ \A w \in Worker : ~ Refreshes(w)

\* The count is that of the members, or somebody is about to write it.
CountComes ==
  segment.exists /\ ~ segmentHistory.lost /\ ~ segmentHistory.overtaken =>
    \/ segment.count = Cardinality(members)
    \/ \E r \in Request : pc[r] \in {"count", "count.write"}
    \/ \E w \in Worker : worker[w].at = "finish"

\* A refresh that read an earlier filter is followed by another one.
StaleIsRepeated ==
  \A w \in Worker : Refreshes(w) /\ worker[w].filter # segment.filter => inbox[w] > 0

\* A refresh that has yet to see the members.
RefreshComes == \E w \in Worker : inbox[w] > 0 \/ worker[w].at \in {"mark", "query"}

Replaces(w) == worker[w].at = "insert" /\ worker[w].filter = segment.filter

\* Who is no member by the filter is among those that a refresh will remove,
\* and who is one and missing will be inserted by a refresh.
MembersCome ==
  LET selected == QueryContacts(segment.filter) IN
  /\ members \subseteq selected \/ \E w \in Worker : Replaces(w) /\ members \ selected \subseteq worker[w].seen
  /\ selected \subseteq members \/ \E w \in Worker : Replaces(w)

ReadyComes ==
  \/ segment.status = "ready" /\ segment.count = Cardinality(QueryContacts(segment.filter))
  \/ \E w \in Worker : worker[w].at \in {"insert", "finish"}

FailureComes == segment.status = "failed" \/ \E w \in Worker : worker[w].at = "fail"

Converging ==
  /\ StaleIsRepeated
  /\ \/ RefreshComes
     \/ Proper(segment.filter) /\ MembersCome /\ ReadyComes
     \/ ~ Proper(segment.filter) /\ FailureComes

Watched == segment.exists /\ segment.type = "dynamic" /\ ~ segmentHistory.lost /\ ~ segmentHistory.raced

SegmentInv ==
  SegmentRequests /\ SegmentRows /\ Untouched /\ CountComes /\ (Watched => Converging)

--------------------------------------------------------------------------
\* A request that moves, with what it holds, leaves the others alone.
LEMMA SegmentGo ==
  ASSUME SegmentRequests, NEW r \in Request, NEW s \in SegmentSteps, NEW l \in SegmentLocals,
         Go(r, l, s),
         s = "update" => l \in UpdateLocal,
         s \in {"member", "count", "count.write"} => l \in MemberLocal
  PROVE  /\ SegmentRequests'
         /\ pc'[r] = s
         /\ \A q \in Request : q # r => pc'[q] = pc[q]
<1>1. UNCHANGED <<SegmentLocals, UpdateLocal, MemberLocal>>
  BY DEF SegmentLocals, UpdateLocal, MemberLocal, SegmentPatch, AnyFilter, Counts, Known, QueryContacts
<1>2. pc' \in [Request -> SegmentSteps] /\ pc'[r] = s /\ \A q \in Request : q # r => pc'[q] = pc[q]
  BY DEF SegmentRequests, Go
<1>3. local' \in [Request -> SegmentLocals]
  BY DEF SegmentRequests, Go
<1>4. local'[r] = l /\ \A q \in Request : q # r => local'[q] = local[q]
  BY DEF SegmentRequests, Go
<1>5. ASSUME NEW q \in Request
      PROVE  /\ pc'[q] = "update" => local'[q] \in UpdateLocal
             /\ pc'[q] \in {"member", "count", "count.write"} => local'[q] \in MemberLocal
  <2>1. CASE q = r
    BY <1>2, <1>4, <2>1
  <2>2. CASE q # r
    <3>1. pc'[q] = pc[q] /\ local'[q] = local[q]
      BY <1>2, <1>4, <2>2
    <3> QED
      BY <3>1 DEF SegmentRequests
  <2> QED
    BY <2>1, <2>2
<1> QED
  BY <1>1, <1>2, <1>3, <1>5 DEF SegmentRequests, SegmentSteps

\* The same of a request that moves on with what it holds.
LEMMA SegmentGoto ==
  ASSUME SegmentRequests, NEW r \in Request, NEW s \in SegmentSteps, Goto(r, s),
         s = "update" => local[r] \in UpdateLocal,
         s \in {"member", "count", "count.write"} => local[r] \in MemberLocal
  PROVE  /\ SegmentRequests'
         /\ pc'[r] = s
         /\ \A q \in Request : q # r => pc'[q] = pc[q]
<1>1. pc \in [Request -> SegmentSteps] /\ local \in [Request -> SegmentLocals]
  BY DEF SegmentRequests
<1>2. local[r] \in SegmentLocals /\ local = [local EXCEPT ![r] = local[r]]
  BY <1>1
<1>3. Go(r, local[r], s)
  BY <1>2 DEF Goto, Go
<1> QED
  BY <1>2, <1>3, SegmentGo

\* A request that ends.
LEMMA SegmentReturn ==
  ASSUME SegmentRequests, NEW r \in Request, NEW s \in {"done", "failed"}, Return(r, s)
  PROVE  /\ SegmentRequests'
         /\ pc'[r] = s
         /\ \A q \in Request : q # r => pc'[q] = pc[q]
<1>1. Go(r, Nothing, s) /\ s \in SegmentSteps /\ Nothing \in SegmentLocals
  BY DEF Return, SegmentSteps, SegmentLocals
<1>2. s # "update" /\ s \notin {"member", "count", "count.write"}
  OBVIOUS
<1> QED
  BY <1>1, <1>2, SegmentGo

\* The parts of a row, and of the history, that the others are told by.
LEMMA SegmentRowFields ==
  ASSUME NEW row \in SegmentRow
  PROVE  /\ row.exists \in BOOLEAN /\ row.type \in {"static", "dynamic"} /\ row.filter \in AnyFilter
         /\ row.status \in {"pending", "computing", "ready", "failed"} /\ row.count \in Counts
BY DEF SegmentRow, SegmentTypes, SegmentStates

\* What one write changes of a row.
Edited(row, type, filter, status) == [row EXCEPT !.type = type, !.filter = filter, !.status = status]

LEMMA SegmentRowUpdated ==
  ASSUME NEW row \in SegmentRow, NEW type \in SegmentTypes, NEW filter \in AnyFilter,
         NEW status \in SegmentStates
  PROVE  LET new == Edited(row, type, filter, status) IN
         /\ new \in SegmentRow
         /\ new.exists = row.exists /\ new.type = type /\ new.filter = filter
         /\ new.status = status /\ new.count = row.count
<1> DEFINE B == BOOLEAN
<1> HIDE DEF B
<1> QED
  BY Zenon DEF SegmentRow, Edited

Counted(row, count, status) == [row EXCEPT !.count = count, !.status = status]

LEMMA SegmentRowCounted ==
  ASSUME NEW row \in SegmentRow, NEW count \in Counts, NEW status \in SegmentStates
  PROVE  LET new == Counted(row, count, status) IN
         /\ new \in SegmentRow
         /\ new.exists = row.exists /\ new.type = row.type /\ new.filter = row.filter
         /\ new.status = status /\ new.count = count
<1> DEFINE B == BOOLEAN
<1> HIDE DEF B
<1> QED
  BY Zenon DEF SegmentRow, Counted

Marked(row, status) == [row EXCEPT !.status = status]

LEMMA SegmentRowMarked ==
  ASSUME NEW row \in SegmentRow, NEW status \in SegmentStates
  PROVE  LET new == Marked(row, status) IN
         /\ new \in SegmentRow
         /\ new.exists = row.exists /\ new.type = row.type /\ new.filter = row.filter
         /\ new.status = status /\ new.count = row.count
<1> DEFINE B == BOOLEAN
<1> HIDE DEF B
<1> QED
  BY Zenon DEF SegmentRow, Marked

\* A write is to the row unless it is deleted.
LEMMA SegmentUpdate ==
  ASSUME segment \in SegmentRow, NEW row \in SegmentRow, row.exists = segment.exists, Update(row)
  PROVE  /\ segment' \in SegmentRow /\ segment'.exists = segment.exists
         /\ segment.exists => segment' = row
         /\ ~ segment.exists => segment' = segment
BY DEF Update

\* A worker that moves, with what it holds, leaves the others alone.
LEMMA SegmentSet ==
  ASSUME worker \in [Worker -> SegmentWorkers], NEW w \in Worker, NEW new \in SegmentWorkers, Set(w, new)
  PROVE  /\ worker' \in [Worker -> SegmentWorkers] /\ worker'[w] = new
         /\ \A u \in Worker : u # w => worker'[u] = worker[u]
BY DEF Set

LEMMA SegmentTo ==
  ASSUME worker \in [Worker -> SegmentWorkers], NEW w \in Worker,
         NEW s \in {"down", "idle", "mark", "query", "insert", "finish", "fail"}, To(w, s)
  PROVE  /\ worker' \in [Worker -> SegmentWorkers]
         /\ worker'[w].at = s /\ worker'[w].filter = worker[w].filter /\ worker'[w].seen = worker[w].seen
         /\ \A u \in Worker : u # w => worker'[u] = worker[u]
<1> DEFINE new == [worker[w] EXCEPT !.at = s]
<1>1. worker[w] \in SegmentWorkers
  OBVIOUS
<1>2. /\ new \in SegmentWorkers
      /\ new.at = s /\ new.filter = worker[w].filter /\ new.seen = worker[w].seen
  BY <1>1, Zenon DEF SegmentWorkers
<1>3. Set(w, new)
  BY DEF To
<1> HIDE DEF new
<1> QED
  BY <1>2, <1>3, SegmentSet

\* What happened is noted for good.
LEMMA SegmentNoted ==
  ASSUME segmentHistory \in SegmentHistory, NEW b \in BOOLEAN, NEW what \in {"lost", "raced", "overtaken"},
         segmentHistory' = Note(what, b)
  PROVE  /\ segmentHistory' \in SegmentHistory
         /\ segmentHistory'.lost <=> segmentHistory.lost \/ (what = "lost" /\ b)
         /\ segmentHistory'.raced <=> segmentHistory.raced \/ (what = "raced" /\ b)
         /\ segmentHistory'.overtaken <=> segmentHistory.overtaken \/ (what = "overtaken" /\ b)
<1>1. segmentHistory \in [lost: BOOLEAN, raced: BOOLEAN, overtaken: BOOLEAN]
  BY DEF SegmentHistory
<1>2. segmentHistory' = [segmentHistory EXCEPT ![what] = @ \/ b]
  BY DEF Note
<1> QED
  BY <1>1, <1>2, Zenon DEF SegmentHistory

LEMMA SegmentStands ==
  ASSUME SegmentRequests, UNCHANGED <<pc, local>>
  PROVE  SegmentRequests'
<1>1. UNCHANGED <<SegmentLocals, UpdateLocal, MemberLocal>>
  BY DEF SegmentLocals, UpdateLocal, MemberLocal, SegmentPatch, AnyFilter, Counts, Known, QueryContacts
<1> QED
  BY <1>1 DEF SegmentRequests, SegmentSteps

\* The message of an edit reaches every worker that is up, or is lost.
LEMMA SegmentEnqueued ==
  ASSUME SegmentRows, NEW raced \in BOOLEAN, EnqueueRefresh(raced), UNCHANGED worker
  PROVE  /\ inbox' \in [Worker -> Nat] /\ segmentHistory' \in SegmentHistory
         /\ segmentHistory.lost => segmentHistory'.lost
         /\ segmentHistory'.overtaken = segmentHistory.overtaken
         /\ segmentHistory'.raced <=> segmentHistory.raced \/ raced
         /\ ~ segmentHistory'.lost =>
              /\ \E w \in Worker : inbox'[w] > 0
              /\ \A w \in Worker : Refreshes(w) => inbox'[w] > 0
<1>1. /\ segmentHistory \in [lost: BOOLEAN, raced: BOOLEAN, overtaken: BOOLEAN]
      /\ inbox \in [Worker -> Nat]
  BY DEF SegmentRows, SegmentHistory
<1>2. CASE /\ inbox' = [w \in Worker |-> IF Up(w) THEN inbox[w] + 1 ELSE inbox[w]]
           /\ segmentHistory' = [segmentHistory EXCEPT !.lost = @ \/ \A w \in Worker : ~ Up(w), !.raced = @ \/ raced]
  <2> DEFINE none == \A w \in Worker : ~ Up(w)
  <2>1. none \in BOOLEAN
    OBVIOUS
  <2>2. segmentHistory' = [segmentHistory EXCEPT !.lost = @ \/ none, !.raced = @ \/ raced]
    BY <1>2
  <2> HIDE DEF none
  <2>3. /\ segmentHistory' \in SegmentHistory
        /\ segmentHistory'.lost <=> segmentHistory.lost \/ none
        /\ segmentHistory'.overtaken = segmentHistory.overtaken
        /\ segmentHistory'.raced <=> segmentHistory.raced \/ raced
    BY <1>1, <2>1, <2>2, Zenon DEF SegmentHistory
  <2>4. inbox' \in [Worker -> Nat] /\ \A w \in Worker : Up(w) => inbox'[w] > 0
    BY <1>1, <1>2
  <2>5. \A w \in Worker : Refreshes(w) => Up(w)
    BY DEF Refreshes, Up
  <2>6. ~ none => \E w \in Worker : Up(w)
    BY DEF none
  <2> QED
    BY <2>3, <2>4, <2>5, <2>6
<1>3. CASE segmentHistory' = [segmentHistory EXCEPT !.lost = TRUE, !.raced = @ \/ raced] /\ UNCHANGED inbox
  <2>1. /\ segmentHistory' \in SegmentHistory
        /\ segmentHistory'.lost
        /\ segmentHistory'.overtaken = segmentHistory.overtaken
        /\ segmentHistory'.raced <=> segmentHistory.raced \/ raced
    BY <1>1, <1>3, Zenon DEF SegmentHistory
  <2> QED
    BY <1>1, <1>3, <2>1
<1> QED
  BY <1>2, <1>3 DEF EnqueueRefresh

\* A handler that touches neither the segment nor a worker.
LEMMA SegmentQuiet ==
  ASSUME SegmentInv, UNCHANGED <<segment, members, inbox, worker>>, segmentHistory' \in SegmentHistory,
         segmentHistory'.lost = segmentHistory.lost, segmentHistory'.raced = segmentHistory.raced
  PROVE  SegmentRows' /\ (Watched' => Converging')
<1>1. UNCHANGED <<SegmentRow, Known, SegmentWorkers>>
  BY DEF SegmentRow, Known, SegmentWorkers, AnyFilter, Counts, QueryContacts
<1>2. SegmentRows'
  BY <1>1 DEF SegmentInv, SegmentRows, WorkerOK, Proper
<1>3. Watched' => Watched
  BY DEF Watched
<1>4. Converging => Converging'
  BY DEF Converging, StaleIsRepeated, RefreshComes, Proper, MembersCome, ReadyComes, FailureComes,
     Refreshes, Replaces, QueryContacts
<1> QED
  BY <1>2, <1>3, <1>4 DEF SegmentInv

LEMMA UpdateReadInv ==
  ASSUME SegmentInv, NEW r \in Request, NEW patch \in SegmentPatch, UpdateRead(r, patch)
  PROVE  SegmentInv'
<1> DEFINE l == [op |-> "update", patch |-> patch, type |-> segment.type]
<1>1. /\ SegmentRequests /\ segment \in SegmentRow
      /\ pc[r] = "new" /\ segment.exists /\ Go(r, l, "update")
      /\ UNCHANGED <<segment, members, inbox, worker, segmentHistory>>
  BY DEF UpdateRead, SegmentInv, SegmentRows
<1>2. segment.type \in {"static", "dynamic"}
  BY <1>1, SegmentRowFields
<1>3. l \in UpdateLocal
  BY <1>2 DEF UpdateLocal
<1>4. l \in SegmentLocals /\ "update" \in SegmentSteps
  BY <1>3 DEF SegmentLocals, SegmentSteps
<1> HIDE DEF l
<1>5. SegmentRequests' /\ pc'[r] = "update" /\ \A q \in Request : q # r => pc'[q] = pc[q]
  BY <1>1, <1>3, <1>4, SegmentGo
<1>6. SegmentRows' /\ (Watched' => Converging')
  BY <1>1, SegmentQuiet DEF SegmentInv, SegmentRows
<1>7. Untouched'
  BY <1>1 DEF Untouched
<1>8. CountComes'
  BY <1>1, <1>5 DEF SegmentInv, CountComes
<1> QED
  BY <1>5, <1>6, <1>7, <1>8 DEF SegmentInv

LEMMA MemberFindInv ==
  ASSUME SegmentInv, NEW r \in Request, NEW op \in {"add", "remove"}, NEW c \in Contact, MemberFind(r, op, c)
  PROVE  SegmentInv'
<1> DEFINE l == [op |-> op, contact |-> c, count |-> 0]
<1>1. /\ SegmentRequests /\ segment \in SegmentRow
      /\ pc[r] = "new" /\ segment.exists /\ Go(r, l, "member")
      /\ UNCHANGED <<segment, members, inbox, worker, segmentHistory>>
  BY DEF MemberFind, SegmentInv, SegmentRows
<1>2. 0 \in Counts
  BY FS_EmptySet DEF Counts
<1>3. l \in MemberLocal
  BY <1>2 DEF MemberLocal
<1>4. l \in SegmentLocals /\ "member" \in SegmentSteps
  BY <1>3 DEF SegmentLocals, SegmentSteps
<1> HIDE DEF l
<1>5. SegmentRequests' /\ pc'[r] = "member" /\ \A q \in Request : q # r => pc'[q] = pc[q]
  BY <1>1, <1>3, <1>4, SegmentGo
<1>6. SegmentRows' /\ (Watched' => Converging')
  BY <1>1, SegmentQuiet DEF SegmentInv, SegmentRows
<1>7. Untouched'
  BY <1>1 DEF Untouched
<1>8. CountComes'
  BY <1>1, <1>5 DEF SegmentInv, CountComes
<1> QED
  BY <1>5, <1>6, <1>7, <1>8 DEF SegmentInv

LEMMA MemberCountInv ==
  ASSUME SegmentInv, NEW r \in Request, MemberCount(r)
  PROVE  SegmentInv'
<1> DEFINE l == [local[r] EXCEPT !.count = Cardinality(members)]
<1>1. /\ SegmentRequests /\ pc[r] = "count" /\ Go(r, l, "count.write")
      /\ UNCHANGED <<segment, members, inbox, worker, segmentHistory>>
  BY DEF MemberCount, SegmentInv
<1>2. local[r] \in MemberLocal /\ Cardinality(members) \in Counts
  BY <1>1 DEF SegmentInv, SegmentRequests, SegmentRows, Counts
<1>3. l \in MemberLocal
  BY <1>2 DEF MemberLocal
<1>4. l \in SegmentLocals /\ "count.write" \in SegmentSteps
  BY <1>3 DEF SegmentLocals, SegmentSteps
<1> HIDE DEF l
<1>5. SegmentRequests' /\ pc'[r] = "count.write" /\ \A q \in Request : q # r => pc'[q] = pc[q]
  BY <1>1, <1>3, <1>4, SegmentGo
<1>6. SegmentRows' /\ (Watched' => Converging')
  BY <1>1, SegmentQuiet DEF SegmentInv, SegmentRows
<1>7. Untouched'
  BY <1>1 DEF SegmentInv, Untouched
<1>8. CountComes'
  BY <1>1, <1>5 DEF SegmentInv, CountComes
<1> QED
  BY <1>5, <1>6, <1>7, <1>8 DEF SegmentInv

LEMMA FailSegmentRequestInv ==
  ASSUME SegmentInv, NEW r \in Request, FailRequest(r)
  PROVE  SegmentInv'
<1> DEFINE cut == pc[r] \in {"count", "count.write"}
<1>1. /\ SegmentRequests /\ pc[r] # "new" /\ Return(r, "failed")
      /\ segmentHistory' = Note("overtaken", cut)
      /\ UNCHANGED <<segment, members, inbox, worker>>
  BY DEF FailRequest, Stop, Idle, SegmentInv
<1>2. cut \in BOOLEAN /\ segmentHistory \in SegmentHistory
  BY DEF SegmentInv, SegmentRows
<1>3. cut <=> pc[r] \in {"count", "count.write"}
  OBVIOUS
<1> HIDE DEF cut
<1>4. /\ segmentHistory' \in SegmentHistory
      /\ segmentHistory'.lost <=> segmentHistory.lost
      /\ segmentHistory'.raced <=> segmentHistory.raced
      /\ segmentHistory'.overtaken <=> segmentHistory.overtaken \/ cut
  BY <1>1, <1>2, SegmentNoted
<1>9. segmentHistory'.lost = segmentHistory.lost /\ segmentHistory'.raced = segmentHistory.raced
  BY <1>4, <1>2 DEF SegmentHistory
<1>5. SegmentRequests' /\ pc'[r] = "failed" /\ \A q \in Request : q # r => pc'[q] = pc[q]
  BY <1>1, SegmentReturn
<1>6. SegmentRows' /\ (Watched' => Converging')
  BY <1>1, <1>4, <1>9, SegmentQuiet DEF SegmentInv, SegmentRows
<1>7. Untouched'
  BY <1>1 DEF SegmentInv, Untouched
<1>8. CountComes'
  BY <1>1, <1>3, <1>4, <1>5 DEF SegmentInv, CountComes
<1> QED
  BY <1>5, <1>6, <1>7, <1>8 DEF SegmentInv

\* A refresh is asked for, of the segment as it is now.
LEMMA SegmentAsked ==
  ASSUME SegmentInv, segment' \in SegmentRow, EnqueueRefresh(FALSE) \/ EnqueueRefresh(TRUE),
         segment'.exists, segment'.count = segment.count, segment.exists, UNCHANGED <<members, worker>>,
         NEW r \in Request, pc[r] \in {"new", "update"},
         \A q \in Request : q # r => pc'[q] = pc[q]
  PROVE  SegmentRows' /\ Untouched' /\ CountComes' /\ (Watched' => Converging')
<1>1. PICK raced \in BOOLEAN : EnqueueRefresh(raced)
  OBVIOUS
<1>2. SegmentRows
  BY DEF SegmentInv
<1>3. /\ inbox' \in [Worker -> Nat] /\ segmentHistory' \in SegmentHistory
      /\ segmentHistory.lost => segmentHistory'.lost
      /\ segmentHistory'.overtaken = segmentHistory.overtaken
      /\ ~ segmentHistory'.lost =>
           /\ \E w \in Worker : inbox'[w] > 0
           /\ \A w \in Worker : Refreshes(w) => inbox'[w] > 0
  BY <1>1, <1>2, SegmentEnqueued
<1>4. UNCHANGED <<SegmentRow, Known, SegmentWorkers>>
  BY DEF SegmentRow, Known, SegmentWorkers, AnyFilter, Counts, QueryContacts
<1>5. \A w \in Worker : WorkerOK(w)'
  BY <1>2, <1>3 DEF SegmentRows, WorkerOK, Proper
<1>6. SegmentRows'
  BY <1>2, <1>3, <1>4, <1>5 DEF SegmentRows
<1>7. Untouched'
  BY DEF Untouched
<1>8. CountComes'
  BY <1>3 DEF SegmentInv, CountComes
<1>9. ASSUME Watched'
      PROVE  Converging'
  <2>1. RefreshComes' /\ \A w \in Worker : Refreshes(w) => inbox'[w] > 0
    BY <1>3, <1>9 DEF Watched, RefreshComes
  <2>2. StaleIsRepeated'
    BY <2>1 DEF StaleIsRepeated, Refreshes
  <2> QED
    BY <2>1, <2>2 DEF Converging
<1> QED
  BY <1>6, <1>7, <1>8, <1>9

\* A step after which the segment is not there, or is watched no more.
LEMMA SegmentUnwatched ==
  ASSUME SegmentInv, segment' \in SegmentRow, members' \in SUBSET Known,
         UNCHANGED inbox, worker' \in [Worker -> SegmentWorkers],
         \A w \in Worker : worker'[w].at = worker[w].at /\ worker'[w].filter = worker[w].filter,
         segmentHistory' \in SegmentHistory, segmentHistory'.lost = segmentHistory.lost, ~ Watched'
  PROVE  SegmentRows' /\ (Watched' => Converging')
<1>1. UNCHANGED <<SegmentRow, Known, SegmentWorkers>>
  BY DEF SegmentRow, Known, SegmentWorkers, AnyFilter, Counts, QueryContacts
<1> QED
  BY <1>1 DEF SegmentInv, SegmentRows, WorkerOK, Proper

LEMMA UpdateWriteInv ==
  ASSUME SegmentInv, NEW r \in Request, UpdateWrite(r)
  PROVE  SegmentInv'
<1> DEFINE patch == local[r].patch
           type == IF patch.type = "same" THEN local[r].type ELSE patch.type
           T == IF patch.type = "same" THEN segment.type ELSE patch.type
           F == IF patch.filter = NoFilter THEN segment.filter ELSE patch.filter
           S == IF type = "static" THEN "ready" ELSE "pending"
           row == [segment EXCEPT !.type = T, !.filter = F, !.status = S]
           raced == segment'.type # type
<1>1. /\ pc[r] = "update" /\ Return(r, "done") /\ Update(row) /\ UNCHANGED <<members, worker>>
      /\ IF type = "dynamic" /\ segment.exists
         THEN EnqueueRefresh(segment.type # type /\ patch.type = "same")
         ELSE segmentHistory' = Note("raced", raced) /\ UNCHANGED inbox
  BY DEF UpdateWrite
<1>2. SegmentRequests /\ segment \in SegmentRow /\ segmentHistory \in SegmentHistory /\ local[r] \in UpdateLocal
  BY <1>1 DEF SegmentInv, SegmentRows, SegmentRequests
<1>3. patch \in SegmentPatch /\ local[r].type \in {"static", "dynamic"}
  BY <1>2 DEF UpdateLocal
<1>4. /\ segment.type \in {"static", "dynamic"} /\ segment.filter \in AnyFilter
  BY <1>2, SegmentRowFields
<1>5. T \in {"static", "dynamic"} /\ F \in AnyFilter /\ type \in {"static", "dynamic"}
  BY <1>3, <1>4 DEF SegmentPatch
<1>6. S \in {"pending", "computing", "ready", "failed"} /\ raced \in BOOLEAN
  OBVIOUS
<1> HIDE DEF T, F, S
<1>7. row \in SegmentRow /\ row.exists = segment.exists /\ row.count = segment.count
  <2>1. row = Edited(segment, T, F, S)
    BY DEF Edited
  <2>2. segment \in SegmentRow /\ T \in SegmentTypes /\ F \in AnyFilter /\ S \in SegmentStates
    BY <1>2, <1>5, <1>6 DEF SegmentTypes, SegmentStates
  <2>3. /\ Edited(segment, T, F, S) \in SegmentRow
        /\ Edited(segment, T, F, S).exists = segment.exists
        /\ Edited(segment, T, F, S).count = segment.count
    BY ONLY <2>2, SegmentRowUpdated
  <2> QED
    BY ONLY <2>1, <2>3
<1> HIDE DEF row
<1>8. /\ segment' \in SegmentRow /\ segment'.exists = segment.exists
      /\ segment.exists => segment' = row
      /\ ~ segment.exists => segment' = segment
  BY <1>1, <1>2, <1>7, SegmentUpdate
<1>9. segment'.count = segment.count
  BY <1>2, <1>7, <1>8 DEF SegmentRow
<1>10. SegmentRequests' /\ \A q \in Request : q # r => pc'[q] = pc[q]
  BY <1>1, <1>2, SegmentReturn
<1>11. CASE type = "dynamic" /\ segment.exists
  <2>1. EnqueueRefresh(FALSE) \/ EnqueueRefresh(TRUE)
    <3>1. (segment.type # type /\ patch.type = "same") \in BOOLEAN
      OBVIOUS
    <3>2. EnqueueRefresh(segment.type # type /\ patch.type = "same")
      BY <1>1, <1>11
    <3> DEFINE both == segment.type # type /\ patch.type = "same"
    <3>3. both = TRUE \/ both = FALSE
      OBVIOUS
    <3>4. EnqueueRefresh(both)
      BY <3>2
    <3> HIDE DEF both
    <3> QED
      BY <3>3, <3>4
  <2>2. SegmentRows' /\ Untouched' /\ CountComes' /\ (Watched' => Converging')
    BY <1>1, <1>8, <1>9, <1>10, <1>11, <2>1, SegmentAsked
  <2> QED
    BY <1>10, <2>2 DEF SegmentInv
<1>12. CASE ~ (type = "dynamic" /\ segment.exists)
  <2>1. segmentHistory' = Note("raced", raced) /\ UNCHANGED inbox
    BY <1>1, <1>12
  <2>2. raced <=> segment'.type # type
    OBVIOUS
  <2> HIDE DEF raced
  <2>3. /\ segmentHistory' \in SegmentHistory
        /\ segmentHistory'.lost <=> segmentHistory.lost
        /\ segmentHistory'.raced <=> segmentHistory.raced \/ raced
        /\ segmentHistory'.overtaken <=> segmentHistory.overtaken
    BY <1>2, <1>6, <2>1, SegmentNoted
  <2>4. segmentHistory'.lost = segmentHistory.lost
    BY <1>2, <2>3 DEF SegmentHistory
  <2>5. ~ Watched'
    <3>1. segment.exists => type = "static"
      BY <1>5, <1>12
    <3>2. segment'.type = "dynamic" /\ segment.exists => segmentHistory'.raced
      BY <3>1, <2>2, <2>3
    <3> QED
      BY <3>2, <1>8 DEF Watched
  <2>6. members' \in SUBSET Known
    BY <1>1 DEF SegmentInv, SegmentRows
  <2>10. /\ worker' \in [Worker -> SegmentWorkers]
         /\ \A w \in Worker : worker'[w].at = worker[w].at /\ worker'[w].filter = worker[w].filter
    BY <1>1 DEF SegmentInv, SegmentRows
  <2>7. SegmentRows' /\ (Watched' => Converging')
    BY <1>8, <2>1, <2>3, <2>4, <2>5, <2>6, <2>10, SegmentUnwatched
  <2>8. Untouched'
    BY <1>1, <1>8 DEF SegmentInv, Untouched
  <2>9. CountComes'
    BY <1>1, <1>8, <1>9, <1>10, <2>3 DEF SegmentInv, CountComes
  <2> QED
    BY <1>10, <2>7, <2>8, <2>9 DEF SegmentInv
<1> QED
  BY <1>11, <1>12

LEMMA RefreshSegmentInv ==
  ASSUME SegmentInv, NEW r \in Request, RefreshSegment(r)
  PROVE  SegmentInv'
<1> DEFINE row == [segment EXCEPT !.status = "pending"]
<1>1. /\ pc[r] = "new" /\ segment.exists /\ segment' = row /\ EnqueueRefresh(FALSE)
      /\ Return(r, "done") /\ UNCHANGED <<members, worker>>
      /\ SegmentRequests /\ segment \in SegmentRow
  BY DEF RefreshSegment, SegmentInv, SegmentRows
<1>2. row \in SegmentRow /\ row.exists = segment.exists /\ row.count = segment.count
  <2>1. row = Marked(segment, "pending")
    BY DEF Marked
  <2> HIDE DEF row
  <2> QED
    BY <1>1, <2>1, SegmentRowMarked DEF SegmentStates
<1> HIDE DEF row
<1>3. SegmentRequests' /\ \A q \in Request : q # r => pc'[q] = pc[q]
  BY <1>1, SegmentReturn
<1>4. segment' \in SegmentRow /\ segment'.exists /\ segment'.count = segment.count
  BY <1>1, <1>2
<1>5. SegmentRows' /\ Untouched' /\ CountComes' /\ (Watched' => Converging')
  BY <1>1, <1>3, <1>4, SegmentAsked
<1> QED
  BY <1>3, <1>5 DEF SegmentInv

LEMMA DeleteSegmentInv ==
  ASSUME SegmentInv, NEW r \in Request, DeleteSegment(r)
  PROVE  SegmentInv'
<1>1. /\ pc[r] = "new" /\ segment.exists /\ Return(r, "done")
      /\ UNCHANGED <<members, inbox, worker, segmentHistory>>
      /\ SegmentRequests /\ segment \in SegmentRow
  BY DEF DeleteSegment, SegmentInv, SegmentRows
<1>2. segment' = [segment EXCEPT !.exists = FALSE, !.status = "ready"]
  BY DEF DeleteSegment
<1>3. segment' \in SegmentRow /\ ~ segment'.exists /\ segment'.status = "ready"
  BY <1>1, <1>2 DEF SegmentRow, SegmentStates
<1>4. SegmentRequests'
  BY <1>1, SegmentReturn
<1>5. SegmentRows' /\ (Watched' => Converging')
  BY <1>1, <1>3, SegmentUnwatched DEF SegmentInv, SegmentRows, Watched
<1>6. Untouched' /\ CountComes'
  BY <1>3 DEF Untouched, CountComes
<1> QED
  BY <1>4, <1>5, <1>6 DEF SegmentInv

LEMMA SegmentUnseen ==
  ASSUME worker \in [Worker -> SegmentWorkers], NEW rows
  PROVE  /\ Unseen(rows) \in [Worker -> SegmentWorkers]
         /\ \A u \in Worker : /\ Unseen(rows)[u].at = worker[u].at
                              /\ Unseen(rows)[u].filter = worker[u].filter
                              /\ Unseen(rows)[u].seen = worker[u].seen \ rows
<1>1. ASSUME NEW u \in Worker
      PROVE  LET new == [worker[u] EXCEPT !.seen = @ \ rows] IN
             /\ new \in SegmentWorkers
             /\ new.at = worker[u].at /\ new.filter = worker[u].filter /\ new.seen = worker[u].seen \ rows
  BY DEF SegmentWorkers
<1> QED
  BY <1>1 DEF Unseen

LEMMA MemberWriteInv ==
  ASSUME SegmentInv, NEW r \in Request, MemberWrite(r)
  PROVE  SegmentInv'
<1> DEFINE c == local[r].contact
           raced == segment.type = "dynamic"
<1>1. /\ pc[r] = "member" /\ Goto(r, "count") /\ UNCHANGED <<segment, inbox>>
      /\ members' = IF local[r].op = "add" THEN members \union {c} ELSE members \ {c}
      /\ worker' = IF c \in members' THEN worker ELSE Unseen({c})
      /\ segmentHistory' = Note("raced", raced)
  BY DEF MemberWrite
<1>2. /\ SegmentRequests /\ segment \in SegmentRow /\ segmentHistory \in SegmentHistory
      /\ local[r] \in MemberLocal /\ members \in SUBSET Known /\ worker \in [Worker -> SegmentWorkers]
  BY <1>1 DEF SegmentInv, SegmentRows, SegmentRequests
<1>3. c \in Known
  BY <1>2 DEF MemberLocal, Known
<1>4. members' \in SUBSET Known
  BY <1>1, <1>2, <1>3
<1>5. /\ worker' \in [Worker -> SegmentWorkers]
      /\ \A w \in Worker : worker'[w].at = worker[w].at /\ worker'[w].filter = worker[w].filter
  BY <1>1, <1>2, SegmentUnseen
<1>6. raced \in BOOLEAN /\ (raced <=> segment.type = "dynamic")
  OBVIOUS
<1> HIDE DEF raced
<1>7. /\ segmentHistory' \in SegmentHistory
      /\ segmentHistory'.lost <=> segmentHistory.lost
      /\ segmentHistory'.raced <=> segmentHistory.raced \/ raced
  BY <1>1, <1>2, <1>6, SegmentNoted
<1>8. segmentHistory'.lost = segmentHistory.lost
  BY <1>2, <1>7 DEF SegmentHistory
<1>9. SegmentRequests' /\ pc'[r] = "count"
  BY <1>1, <1>2, SegmentGoto DEF SegmentSteps
<1>10. ~ Watched'
  BY <1>1, <1>6, <1>7 DEF Watched
<1>11. SegmentRows' /\ (Watched' => Converging')
  BY <1>1, <1>2, <1>4, <1>5, <1>7, <1>8, <1>10, SegmentUnwatched
<1>12. Untouched' /\ CountComes'
  BY <1>1, <1>9 DEF SegmentInv, Untouched, CountComes
<1> QED
  BY <1>9, <1>11, <1>12 DEF SegmentInv

LEMMA MemberFinishInv ==
  ASSUME SegmentInv, NEW r \in Request, MemberFinish(r)
  PROVE  SegmentInv'
<1> DEFINE count == local[r].count
           S == IF local[r].op = "add" THEN "ready" ELSE segment.status
           row == [segment EXCEPT !.count = count, !.status = S]
           raced == segment.type = "dynamic"
           overtaken == count # Cardinality(members)
<1>1. /\ pc[r] = "count.write" /\ Update(row) /\ Return(r, "done") /\ UNCHANGED <<members, inbox, worker>>
      /\ segmentHistory' = [segmentHistory EXCEPT !.raced = @ \/ raced, !.overtaken = @ \/ overtaken]
  BY DEF MemberFinish
<1>2. /\ SegmentRequests /\ segment \in SegmentRow /\ local[r] \in MemberLocal
      /\ segmentHistory \in SegmentHistory
  BY <1>1 DEF SegmentInv, SegmentRows, SegmentRequests
<1>3. count \in Counts /\ S \in SegmentStates
  BY <1>2, SegmentRowFields DEF MemberLocal, SegmentStates
<1>4. row = Counted(segment, count, S)
  BY DEF Counted
<1>5. /\ raced \in BOOLEAN /\ (raced <=> segment.type = "dynamic")
      /\ overtaken \in BOOLEAN /\ (overtaken <=> count # Cardinality(members))
  OBVIOUS
<1> HIDE DEF count, S, row, raced, overtaken
<1>6. row \in SegmentRow /\ row.exists = segment.exists /\ row.type = segment.type /\ row.count = count
  BY <1>2, <1>3, <1>4, SegmentRowCounted
<1>7. /\ segmentHistory' \in SegmentHistory /\ segmentHistory'.lost = segmentHistory.lost
      /\ segmentHistory'.raced <=> segmentHistory.raced \/ raced
      /\ segmentHistory'.overtaken <=> segmentHistory.overtaken \/ overtaken
  BY <1>1, <1>2, <1>5, Zenon DEF SegmentHistory
<1>8. /\ segment' \in SegmentRow /\ segment'.exists = segment.exists
      /\ segment.exists => segment' = row
      /\ ~ segment.exists => segment' = segment
  BY <1>1, <1>2, <1>6, SegmentUpdate
<1>9. SegmentRequests'
  BY <1>1, <1>2, SegmentReturn
<1>10. ~ Watched'
  BY <1>5, <1>6, <1>7, <1>8 DEF Watched
<1>11. SegmentRows' /\ (Watched' => Converging')
  BY <1>1, <1>7, <1>8, <1>10, SegmentUnwatched DEF SegmentInv, SegmentRows
<1>12. Untouched'
  BY <1>1, <1>8 DEF SegmentInv, Untouched
<1>13. CountComes'
  BY <1>1, <1>5, <1>6, <1>7, <1>8 DEF CountComes
<1> QED
  BY <1>9, <1>11, <1>12, <1>13 DEF SegmentInv

LEMMA CreateSegmentInv ==
  ASSUME SegmentInv, NEW type \in {"static", "dynamic"}, NEW filter \in AnyFilter, CreateSegment(type, filter)
  PROVE  SegmentInv'
<1> DEFINE S == IF type = "static" THEN "ready" ELSE "pending"
<1>1. /\ ~ segment.exists /\ segment.status = "pending" /\ UNCHANGED <<members, worker, pc, local>>
      /\ segment' = [exists |-> TRUE, type |-> type, filter |-> filter, count |-> 0, status |-> S]
      /\ IF type = "dynamic" THEN EnqueueRefresh(FALSE) ELSE UNCHANGED <<inbox, segmentHistory>>
  BY DEF CreateSegment
<1>2. SegmentRows /\ SegmentRequests /\ members = {} /\ \A w \in Worker : ~ Refreshes(w)
  BY <1>1 DEF SegmentInv, Untouched
<1>3. 0 \in Counts /\ Cardinality({}) = 0 /\ S \in SegmentStates
  BY FS_EmptySet DEF Counts, SegmentStates
<1> HIDE DEF S
<1>4. segment' \in SegmentRow /\ segment'.exists /\ segment'.type = type /\ segment'.count = 0
  BY <1>1, <1>3 DEF SegmentRow, SegmentTypes
<1>5. UNCHANGED <<SegmentRow, Known, SegmentWorkers>>
  BY DEF SegmentRow, Known, SegmentWorkers, AnyFilter, Counts, QueryContacts
<1>6. /\ inbox' \in [Worker -> Nat] /\ segmentHistory' \in SegmentHistory
      /\ segmentHistory.lost => segmentHistory'.lost
      /\ type = "dynamic" /\ ~ segmentHistory'.lost => \E w \in Worker : inbox'[w] > 0
  <2>1. CASE type = "dynamic"
    BY <1>1, <1>2, <2>1, SegmentEnqueued
  <2>2. CASE type # "dynamic"
    BY <1>1, <1>2, <2>2 DEF SegmentRows
  <2> QED
    BY <2>1, <2>2
<1>7. SegmentRows'
  BY <1>1, <1>2, <1>4, <1>5, <1>6 DEF SegmentRows, WorkerOK, Proper
<1>8. Watched' => Converging'
  <2>1. StaleIsRepeated'
    BY <1>1, <1>2 DEF StaleIsRepeated, Refreshes
  <2>2. Watched' => RefreshComes'
    BY <1>4, <1>6 DEF Watched, RefreshComes
  <2> QED
    BY <2>1, <2>2 DEF Converging
<1>9. SegmentRequests' /\ Untouched' /\ CountComes'
  BY <1>1, <1>2, <1>3, <1>4, SegmentStands DEF Untouched, CountComes
<1> QED
  BY <1>7, <1>8, <1>9 DEF SegmentInv

\* The idle worker and one that took a message hold no old rows.
LEMMA SegmentWorkerStates ==
  /\ IdleWorker \in SegmentWorkers /\ IdleWorker.at = "idle"
  /\ Down \in SegmentWorkers /\ Down.at = "down"
  /\ \A f \in AnyFilter : LET new == [IdleWorker EXCEPT !.at = "mark", !.filter = f] IN
       new \in SegmentWorkers /\ new.at = "mark" /\ new.filter = f
BY DEF IdleWorker, Down, SegmentWorkers, AnyFilter

\* What a step of a worker leaves of the handlers.
LEMMA SegmentWorkerRows ==
  ASSUME SegmentInv, UNCHANGED <<pc, local>>, segment' \in SegmentRow, members' \in SUBSET Known,
         inbox' \in [Worker -> Nat], worker' \in [Worker -> SegmentWorkers], segmentHistory' \in SegmentHistory,
         \A u \in Worker : WorkerOK(u)'
  PROVE  SegmentRequests' /\ SegmentRows'
<1>1. UNCHANGED <<SegmentRow, Known, SegmentWorkers>>
  BY DEF SegmentRow, Known, SegmentWorkers, AnyFilter, Counts, QueryContacts, SegmentTypes, SegmentStates
<1> QED
  BY <1>1, SegmentStands DEF SegmentInv, SegmentRows

LEMMA ReceiveInv ==
  ASSUME SegmentInv, NEW w \in Worker, Receive(w)
  PROVE  SegmentInv'
<1> DEFINE new == [IdleWorker EXCEPT !.at = "mark", !.filter = segment.filter]
<1>1. /\ worker[w].at = "idle" /\ inbox[w] > 0 /\ inbox' = [inbox EXCEPT ![w] = @ - 1]
      /\ IF segment.exists /\ segment.type = "dynamic" THEN Set(w, new) ELSE UNCHANGED worker
      /\ UNCHANGED <<segment, members, pc, local, segmentHistory>>
  BY DEF Receive
<1>2. /\ segment \in SegmentRow /\ members \in SUBSET Known /\ inbox \in [Worker -> Nat]
      /\ worker \in [Worker -> SegmentWorkers] /\ segmentHistory \in SegmentHistory
      /\ \A u \in Worker : WorkerOK(u)
  BY DEF SegmentInv, SegmentRows
<1>3. segment.filter \in AnyFilter
  BY <1>2, SegmentRowFields
<1>4. new \in SegmentWorkers /\ new.at = "mark" /\ new.filter = segment.filter
  BY <1>3, SegmentWorkerStates
<1> HIDE DEF new
<1>5. inbox' \in [Worker -> Nat] /\ \A u \in Worker : u # w => inbox'[u] = inbox[u]
  BY <1>1, <1>2
<1>6. CASE segment.exists /\ segment.type = "dynamic"
  <2>1. /\ worker' \in [Worker -> SegmentWorkers] /\ worker'[w] = new
        /\ \A u \in Worker : u # w => worker'[u] = worker[u]
    BY <1>1, <1>2, <1>4, <1>6, SegmentSet
  <2>2. \A u \in Worker : WorkerOK(u)'
    BY <1>1, <1>2, <1>4, <2>1 DEF WorkerOK, Proper
  <2>3. SegmentRequests' /\ SegmentRows'
    BY <1>1, <1>2, <1>5, <2>1, <2>2, SegmentWorkerRows
  <2>4. Untouched'
    BY <1>1, <1>6 DEF Untouched
  <2>5. CountComes'
    BY <1>1, <2>1 DEF SegmentInv, CountComes
  <2>6. ASSUME Watched'
        PROVE  Converging'
    <3>1. StaleIsRepeated
      BY <1>1, <2>6 DEF SegmentInv, Watched, Converging
    <3>2. StaleIsRepeated'
      BY <1>1, <1>4, <1>5, <2>1, <3>1 DEF StaleIsRepeated, Refreshes
    <3>3. RefreshComes'
      BY <1>4, <2>1 DEF RefreshComes
    <3> QED
      BY <3>2, <3>3 DEF Converging
  <2> QED
    BY <2>3, <2>4, <2>5, <2>6 DEF SegmentInv
<1>7. CASE ~ (segment.exists /\ segment.type = "dynamic")
  <2>1. UNCHANGED worker
    BY <1>1, <1>7
  <2>2. \A u \in Worker : WorkerOK(u)'
    BY <1>1, <1>2, <2>1 DEF WorkerOK, Proper
  <2>3. SegmentRequests' /\ SegmentRows'
    BY <1>1, <1>2, <1>5, <2>1, <2>2, SegmentWorkerRows
  <2>4. Untouched' /\ CountComes' /\ ~ Watched'
    BY <1>1, <1>7, <2>1 DEF SegmentInv, Untouched, CountComes, Watched, Refreshes
  <2> QED
    BY <2>3, <2>4 DEF SegmentInv
<1> QED
  BY <1>6, <1>7

LEMMA MarkInv ==
  ASSUME SegmentInv, NEW w \in Worker, Mark(w)
  PROVE  SegmentInv'
<1> DEFINE row == [segment EXCEPT !.status = "computing"]
<1>1. /\ worker[w].at = "mark" /\ Update(row) /\ To(w, "query")
      /\ UNCHANGED <<members, inbox, pc, local, segmentHistory>>
  BY DEF Mark
<1>2. /\ segment \in SegmentRow /\ members \in SUBSET Known /\ inbox \in [Worker -> Nat]
      /\ worker \in [Worker -> SegmentWorkers] /\ segmentHistory \in SegmentHistory
      /\ \A u \in Worker : WorkerOK(u)
  BY DEF SegmentInv, SegmentRows
<1>3. row = Marked(segment, "computing") /\ "computing" \in SegmentStates
  BY DEF Marked, SegmentStates
<1> HIDE DEF row
<1>4. /\ row \in SegmentRow /\ row.exists = segment.exists /\ row.type = segment.type
      /\ row.filter = segment.filter /\ row.count = segment.count
  BY <1>2, <1>3, SegmentRowMarked
<1>5. /\ segment' \in SegmentRow /\ segment'.exists = segment.exists
      /\ segment.exists => segment' = row
      /\ ~ segment.exists => segment' = segment
  BY <1>1, <1>2, <1>4, SegmentUpdate
<1>6. /\ worker' \in [Worker -> SegmentWorkers]
      /\ worker'[w].at = "query" /\ worker'[w].filter = worker[w].filter
      /\ \A u \in Worker : u # w => worker'[u] = worker[u]
  BY <1>1, <1>2, SegmentTo
<1>7. \A u \in Worker : WorkerOK(u)'
  BY <1>1, <1>2, <1>6 DEF WorkerOK, Proper
<1>8. SegmentRequests' /\ SegmentRows'
  BY <1>1, <1>2, <1>5, <1>6, <1>7, SegmentWorkerRows
<1>9. Untouched'
  BY <1>1, <1>5 DEF SegmentInv, Untouched, Refreshes
<1>10. CountComes'
  BY <1>1, <1>4, <1>5, <1>6 DEF SegmentInv, CountComes
<1>11. ASSUME Watched'
       PROVE  Converging'
  <2>1. StaleIsRepeated /\ segment'.filter = segment.filter
    BY <1>1, <1>4, <1>5, <1>11 DEF SegmentInv, Watched, Converging
  <2>2. StaleIsRepeated'
    BY <1>1, <1>6, <2>1 DEF StaleIsRepeated, Refreshes
  <2>3. RefreshComes'
    BY <1>6 DEF RefreshComes
  <2> QED
    BY <2>2, <2>3 DEF Converging
<1> QED
  BY <1>8, <1>9, <1>10, <1>11 DEF SegmentInv

LEMMA QueryInv ==
  ASSUME SegmentInv, NEW w \in Worker, Query(w)
  PROVE  SegmentInv'
<1> DEFINE new == [worker[w] EXCEPT !.at = "insert", !.seen = members]
<1>1. /\ worker[w].at = "query"
      /\ IF Proper(worker[w].filter) THEN Set(w, new) ELSE To(w, "fail")
      /\ UNCHANGED <<segment, members, inbox, pc, local, segmentHistory>>
  BY DEF Query, Proper
<1>2. /\ segment \in SegmentRow /\ members \in SUBSET Known /\ inbox \in [Worker -> Nat]
      /\ worker \in [Worker -> SegmentWorkers] /\ segmentHistory \in SegmentHistory
      /\ \A u \in Worker : WorkerOK(u)
  BY DEF SegmentInv, SegmentRows
<1>3. /\ new \in SegmentWorkers /\ new.at = "insert"
      /\ new.filter = worker[w].filter /\ new.seen = members
  <2>1. worker[w] \in SegmentWorkers
    BY <1>2
  <2> QED
    BY <1>2, <2>1, Zenon DEF SegmentWorkers
<1> HIDE DEF new
<1>4. /\ worker' \in [Worker -> SegmentWorkers] /\ worker'[w].filter = worker[w].filter
      /\ Proper(worker[w].filter) => worker'[w].at = "insert" /\ worker'[w].seen = members
      /\ ~ Proper(worker[w].filter) => worker'[w].at = "fail"
      /\ \A u \in Worker : u # w => worker'[u] = worker[u]
  <2>1. CASE Proper(worker[w].filter)
    BY <1>1, <1>2, <1>3, <2>1, SegmentSet
  <2>2. CASE ~ Proper(worker[w].filter)
    BY <1>1, <1>2, <2>2, SegmentTo
  <2> QED
    BY <2>1, <2>2
<1>5. \A u \in Worker : WorkerOK(u)'
  BY <1>1, <1>2, <1>4 DEF WorkerOK, Proper
<1>6. SegmentRequests' /\ SegmentRows'
  BY <1>1, <1>2, <1>4, <1>5, SegmentWorkerRows
<1>7. Untouched'
  BY <1>1 DEF SegmentInv, Untouched, Refreshes
<1>8. CountComes'
  BY <1>1, <1>4 DEF SegmentInv, CountComes
<1>9. ASSUME Watched'
      PROVE  Converging'
  <2>1. StaleIsRepeated
    BY <1>1, <1>9 DEF SegmentInv, Watched, Converging
  <2>2. StaleIsRepeated'
    BY <1>1, <1>4, <2>1 DEF StaleIsRepeated, Refreshes
  <2>3. CASE worker[w].filter # segment.filter
    <3>1. RefreshComes'
      BY <1>1, <2>1, <2>3 DEF StaleIsRepeated, Refreshes, RefreshComes
    <3> QED
      BY <2>2, <3>1 DEF Converging
  <2>4. CASE worker[w].filter = segment.filter /\ Proper(segment.filter)
    <3>1. worker'[w].at = "insert" /\ worker'[w].filter = segment'.filter /\ worker'[w].seen = members'
      BY <1>1, <1>4, <2>4
    <3>2. Replaces(w)' /\ members' \ QueryContacts(segment'.filter) \subseteq worker'[w].seen
      BY <3>1 DEF Replaces
    <3>3. MembersCome'
      BY <3>2 DEF MembersCome
    <3>4. ReadyComes'
      BY <3>1 DEF ReadyComes
    <3>5. Proper(segment.filter)'
      BY <1>1, <2>4 DEF Proper
    <3> QED
      BY <2>2, <3>3, <3>4, <3>5 DEF Converging
  <2>5. CASE worker[w].filter = segment.filter /\ ~ Proper(segment.filter)
    <3>1. FailureComes' /\ ~ Proper(segment.filter)'
      BY <1>1, <1>4, <2>5 DEF FailureComes, Proper
    <3> QED
      BY <2>2, <3>1 DEF Converging
  <2> QED
    BY <2>3, <2>4, <2>5
<1> QED
  BY <1>6, <1>7, <1>8, <1>9 DEF SegmentInv

LEMMA InsertInv ==
  ASSUME SegmentInv, NEW w \in Worker, Insert(w)
  PROVE  SegmentInv'
<1> DEFINE seen == worker[w].seen
           new == [worker[w] EXCEPT !.at = "finish", !.seen = {}]
           selected == QueryContacts(worker[w].filter)
<1>1. /\ worker[w].at = "insert"
      /\ members' = (members \ seen) \union selected
      /\ worker' = [Unseen(seen) EXCEPT ![w] = new]
      /\ UNCHANGED <<segment, inbox, pc, local, segmentHistory>>
  BY DEF Insert
<1>2. /\ segment \in SegmentRow /\ members \in SUBSET Known /\ inbox \in [Worker -> Nat]
      /\ worker \in [Worker -> SegmentWorkers] /\ segmentHistory \in SegmentHistory
      /\ \A u \in Worker : WorkerOK(u)
  BY DEF SegmentInv, SegmentRows
<1>3. new \in SegmentWorkers /\ new.at = "finish" /\ new.filter = worker[w].filter
  <2>1. worker[w] \in SegmentWorkers
    BY <1>2
  <2> QED
    BY <2>1 DEF SegmentWorkers
<1> HIDE DEF new
<1>4. worker' \in [Worker -> SegmentWorkers] /\ worker'[w] = new
  BY <1>1, <1>2, <1>3, SegmentUnseen
<1>5. \A u \in Worker : u # w =>
        /\ worker'[u].at = worker[u].at /\ worker'[u].filter = worker[u].filter
        /\ worker'[u].seen = worker[u].seen \ seen
  BY <1>1, <1>2, SegmentUnseen
<1>6. \A u \in Worker : worker'[u].filter = worker[u].filter
  BY <1>3, <1>4, <1>5
<1>7. Proper(worker[w].filter)
  BY <1>1, <1>2 DEF WorkerOK
<1>8. members' \in SUBSET Known
  <2>1. worker[w].filter \in Filter
    BY <1>2, <1>7 DEF SegmentWorkers, AnyFilter, Proper
  <2>2. selected \subseteq Known
    BY <2>1 DEF Known
  <2> QED
    BY <1>1, <1>2, <2>2
<1>9. \A u \in Worker : WorkerOK(u)'
  <2> SUFFICES ASSUME NEW u \in Worker
               PROVE  WorkerOK(u)'
    OBVIOUS
  <2>1. CASE u = w
    BY <1>3, <1>4, <1>7, <2>1 DEF WorkerOK, Proper
  <2>2. CASE u # w
    BY <1>1, <1>2, <1>5, <2>2 DEF WorkerOK, Proper
  <2> QED
    BY <2>1, <2>2
<1>10. SegmentRequests' /\ SegmentRows'
  BY <1>1, <1>2, <1>4, <1>8, <1>9, SegmentWorkerRows
<1>11. Untouched'
  BY <1>1 DEF SegmentInv, Untouched, Refreshes
<1>12. CountComes'
  BY <1>3, <1>4 DEF CountComes
<1>13. ASSUME Watched'
       PROVE  Converging'
  <2>1. Converging
    BY <1>1, <1>13 DEF SegmentInv, Watched
  <2>2. \A u \in Worker : Refreshes(u)' => Refreshes(u)
    BY <1>1, <1>3, <1>4, <1>5 DEF Refreshes
  <2>3. StaleIsRepeated'
    BY <1>1, <1>6, <2>1, <2>2 DEF Converging, StaleIsRepeated
  <2>4. RefreshComes => RefreshComes'
    BY <1>1, <1>5 DEF RefreshComes
  <2>5. CASE RefreshComes
    BY <2>3, <2>4, <2>5 DEF Converging
  <2>6. CASE ~ RefreshComes
    <3>1. worker[w].filter = segment.filter
      BY <1>1, <2>1, <2>6 DEF Converging, StaleIsRepeated, Refreshes, RefreshComes
    <3>2. Proper(segment.filter) /\ MembersCome
      BY <1>7, <2>1, <2>6, <3>1 DEF Converging
    <3>3. selected = QueryContacts(segment'.filter) /\ selected = QueryContacts(segment.filter)
      BY <1>1, <3>1
    <3>4. selected \subseteq members'
      BY <1>1
    <3>5. \/ members' \subseteq selected
          \/ \E u \in Worker : Replaces(u)' /\ members' \ selected \subseteq worker'[u].seen
      <4>1. CASE members \subseteq selected
        BY <1>1, <4>1
      <4>2. ASSUME NEW u \in Worker, Replaces(u), members \ selected \subseteq worker[u].seen
            PROVE  \/ members' \subseteq selected
                   \/ Replaces(u)' /\ members' \ selected \subseteq worker'[u].seen
        <5>1. CASE u = w
          BY <1>1, <4>2, <5>1
        <5>2. CASE u # w
          <6>1. Replaces(u)'
            BY <1>1, <1>5, <4>2, <5>2 DEF Replaces
          <6>2. members' \ selected \subseteq worker[u].seen \ seen
            BY <1>1, <4>2
          <6> QED
            BY <1>5, <5>2, <6>1, <6>2
        <5> QED
          BY <5>1, <5>2
      <4> QED
        BY <3>2, <3>3, <4>1, <4>2 DEF MembersCome
    <3> HIDE DEF selected
    <3>6. MembersCome'
      BY <3>3, <3>4, <3>5 DEF MembersCome
    <3>7. ReadyComes' /\ Proper(segment.filter)'
      BY <1>1, <1>3, <1>4, <3>2 DEF ReadyComes, Proper
    <3> QED
      BY <2>3, <3>6, <3>7 DEF Converging
  <2> QED
    BY <2>5, <2>6
<1> QED
  BY <1>10, <1>11, <1>12, <1>13 DEF SegmentInv

LEMMA FinishInv ==
  ASSUME SegmentInv, NEW w \in Worker, Finish(w)
  PROVE  SegmentInv'
<1> DEFINE found == Cardinality(QueryContacts(worker[w].filter))
           row == [segment EXCEPT !.status = "ready", !.count = found]
           overtaken == found # Cardinality(members)
<1>1. /\ worker[w].at = "finish" /\ Update(row) /\ Set(w, IdleWorker)
      /\ UNCHANGED <<members, inbox, pc, local>>
      /\ segmentHistory' = Note("overtaken", overtaken)
  BY DEF Finish
<1>2. /\ segment \in SegmentRow /\ members \in SUBSET Known /\ inbox \in [Worker -> Nat]
      /\ worker \in [Worker -> SegmentWorkers] /\ segmentHistory \in SegmentHistory
      /\ \A u \in Worker : WorkerOK(u)
  BY DEF SegmentInv, SegmentRows
<1>3. Proper(worker[w].filter)
  BY <1>1, <1>2 DEF WorkerOK
<1>4. found \in Counts /\ "ready" \in SegmentStates
  <2>1. worker[w].filter \in Filter
    BY <1>2, <1>3 DEF SegmentWorkers, AnyFilter, Proper
  <2>2. QueryContacts(worker[w].filter) \in SUBSET Known
    BY <2>1 DEF Known
  <2> QED
    BY <2>2 DEF Counts, SegmentStates
<1>5. row = Counted(segment, found, "ready")
  BY DEF Counted
<1>6. overtaken \in BOOLEAN /\ (overtaken <=> found # Cardinality(members))
  OBVIOUS
<1>7. worker[w].filter = segment.filter => found = Cardinality(QueryContacts(segment.filter))
  OBVIOUS
<1> HIDE DEF found, row, overtaken
<1>8. /\ row \in SegmentRow /\ row.exists = segment.exists /\ row.type = segment.type
      /\ row.filter = segment.filter /\ row.status = "ready" /\ row.count = found
  BY <1>2, <1>4, <1>5, SegmentRowCounted
<1>9. /\ segment' \in SegmentRow /\ segment'.exists = segment.exists
      /\ segment.exists => segment' = row
      /\ ~ segment.exists => segment' = segment
  BY <1>1, <1>2, <1>8, SegmentUpdate
<1>10. /\ segmentHistory' \in SegmentHistory
       /\ segmentHistory'.lost <=> segmentHistory.lost
       /\ segmentHistory'.raced <=> segmentHistory.raced
       /\ segmentHistory'.overtaken <=> segmentHistory.overtaken \/ overtaken
  BY <1>1, <1>2, <1>6, SegmentNoted
<1>11. /\ worker' \in [Worker -> SegmentWorkers] /\ worker'[w].at = "idle"
       /\ \A u \in Worker : u # w => worker'[u] = worker[u]
  BY <1>1, <1>2, SegmentWorkerStates, SegmentSet
<1>12. \A u \in Worker : WorkerOK(u)'
  BY <1>2, <1>10, <1>11 DEF WorkerOK, Proper
<1>13. SegmentRequests' /\ SegmentRows'
  BY <1>1, <1>2, <1>9, <1>10, <1>11, <1>12, SegmentWorkerRows
<1>14. Untouched'
  BY <1>1, <1>9 DEF SegmentInv, Untouched, Refreshes
<1>15. CountComes'
  BY <1>1, <1>6, <1>8, <1>9, <1>10 DEF CountComes
<1>16. ASSUME Watched'
       PROVE  Converging'
  <2>1. Converging /\ segment' = row
    BY <1>8, <1>9, <1>10, <1>16 DEF SegmentInv, Watched
  <2>2. StaleIsRepeated'
    BY <1>1, <1>8, <1>11, <2>1 DEF Converging, StaleIsRepeated, Refreshes
  <2>3. RefreshComes => RefreshComes'
    BY <1>1, <1>11 DEF RefreshComes
  <2>4. CASE RefreshComes
    BY <2>2, <2>3, <2>4 DEF Converging
  <2>5. CASE ~ RefreshComes
    <3>1. worker[w].filter = segment.filter
      BY <1>1, <2>1, <2>5 DEF Converging, StaleIsRepeated, Refreshes, RefreshComes
    <3>2. Proper(segment.filter) /\ MembersCome
      BY <1>3, <2>1, <2>5, <3>1 DEF Converging
    <3>3. segment'.filter = segment.filter
      BY <1>8, <2>1
    <3>4. QueryContacts(segment.filter)' = QueryContacts(segment.filter) /\ Proper(segment.filter)'
      BY <3>2, <3>3 DEF Proper, QueryContacts
    <3>5. \A u \in Worker : Replaces(u) => Replaces(u)' /\ worker'[u].seen = worker[u].seen
      BY <1>1, <1>11, <3>3 DEF Replaces
    <3>6. MembersCome'
      BY <1>1, <3>2, <3>4, <3>5 DEF MembersCome
    <3>7. ReadyComes'
      BY <1>7, <1>8, <2>1, <3>1, <3>4 DEF ReadyComes
    <3> QED
      BY <2>2, <3>4, <3>6, <3>7 DEF Converging
  <2> QED
    BY <2>4, <2>5
<1> QED
  BY <1>13, <1>14, <1>15, <1>16 DEF SegmentInv

LEMMA FailedInv ==
  ASSUME SegmentInv, NEW w \in Worker, Failed(w)
  PROVE  SegmentInv'
<1> DEFINE row == [segment EXCEPT !.status = "failed"]
<1>1. /\ worker[w].at = "fail" /\ Update(row) /\ Set(w, IdleWorker)
      /\ UNCHANGED <<members, inbox, pc, local, segmentHistory>>
  BY DEF Failed
<1>2. /\ segment \in SegmentRow /\ members \in SUBSET Known /\ inbox \in [Worker -> Nat]
      /\ worker \in [Worker -> SegmentWorkers] /\ segmentHistory \in SegmentHistory
      /\ \A u \in Worker : WorkerOK(u)
  BY DEF SegmentInv, SegmentRows
<1>3. row = Marked(segment, "failed") /\ "failed" \in SegmentStates
  BY DEF Marked, SegmentStates
<1> HIDE DEF row
<1>4. /\ row \in SegmentRow /\ row.exists = segment.exists /\ row.type = segment.type
      /\ row.filter = segment.filter /\ row.status = "failed" /\ row.count = segment.count
  BY <1>2, <1>3, SegmentRowMarked
<1>5. /\ segment' \in SegmentRow /\ segment'.exists = segment.exists
      /\ segment.exists => segment' = row
      /\ ~ segment.exists => segment' = segment
  BY <1>1, <1>2, <1>4, SegmentUpdate
<1>6. /\ worker' \in [Worker -> SegmentWorkers] /\ worker'[w].at = "idle"
      /\ \A u \in Worker : u # w => worker'[u] = worker[u]
  BY <1>1, <1>2, SegmentWorkerStates, SegmentSet
<1>7. \A u \in Worker : WorkerOK(u)'
  BY <1>1, <1>2, <1>6 DEF WorkerOK, Proper
<1>8. SegmentRequests' /\ SegmentRows'
  BY <1>1, <1>2, <1>5, <1>6, <1>7, SegmentWorkerRows
<1>9. Untouched'
  BY <1>1, <1>5 DEF SegmentInv, Untouched, Refreshes
<1>10. CountComes'
  BY <1>1, <1>4, <1>5, <1>6 DEF SegmentInv, CountComes
<1>11. ASSUME Watched'
       PROVE  Converging'
  <2>1. Converging /\ segment' = row /\ ~ segmentHistory.lost
    BY <1>1, <1>4, <1>5, <1>11 DEF SegmentInv, Watched
  <2>2. StaleIsRepeated'
    BY <1>1, <1>4, <1>6, <2>1 DEF Converging, StaleIsRepeated, Refreshes
  <2>3. CASE worker[w].filter # segment.filter
    <3>1. inbox[w] > 0
      BY <1>1, <2>1, <2>3 DEF Converging, StaleIsRepeated, Refreshes
    <3>2. RefreshComes'
      BY <1>1, <3>1 DEF RefreshComes
    <3> QED
      BY <2>2, <3>2 DEF Converging
  <2>4. CASE worker[w].filter = segment.filter
    <3>1. ~ Proper(segment.filter)'
      BY <1>1, <1>2, <1>4, <2>1, <2>4 DEF WorkerOK, Proper
    <3>2. FailureComes'
      BY <1>4, <2>1 DEF FailureComes
    <3> QED
      BY <2>2, <3>1, <3>2 DEF Converging
  <2> QED
    BY <2>3, <2>4
<1> QED
  BY <1>8, <1>9, <1>10, <1>11 DEF SegmentInv

LEMMA QueryThrowsInv ==
  ASSUME SegmentInv, NEW w \in Worker, QueryThrows(w)
  PROVE  SegmentInv'
<1>1. /\ worker[w].at \in {"query", "insert"} /\ To(w, "fail") /\ segmentHistory' = Note("lost", TRUE)
      /\ UNCHANGED <<segment, members, inbox, pc, local>>
  BY DEF QueryThrows
<1>2. /\ segment \in SegmentRow /\ members \in SUBSET Known /\ inbox \in [Worker -> Nat]
      /\ worker \in [Worker -> SegmentWorkers] /\ segmentHistory \in SegmentHistory
      /\ \A u \in Worker : WorkerOK(u)
  BY DEF SegmentInv, SegmentRows
<1>3. segmentHistory' \in SegmentHistory /\ segmentHistory'.lost
  BY <1>1, <1>2, SegmentNoted
<1>4. /\ worker' \in [Worker -> SegmentWorkers] /\ worker'[w].at = "fail"
      /\ \A u \in Worker : u # w => worker'[u] = worker[u]
  BY <1>1, <1>2, SegmentTo
<1>5. \A u \in Worker : WorkerOK(u)'
  BY <1>2, <1>3, <1>4 DEF WorkerOK, Proper
<1>6. SegmentRequests' /\ SegmentRows'
  BY <1>1, <1>2, <1>3, <1>4, <1>5, SegmentWorkerRows
<1>7. Untouched'
  BY <1>1 DEF SegmentInv, Untouched, Refreshes
<1>8. CountComes' /\ ~ Watched'
  BY <1>3 DEF CountComes, Watched
<1> QED
  BY <1>6, <1>7, <1>8 DEF SegmentInv

\* A worker that stands still starts or stops.
LEMMA SegmentIdleInv ==
  ASSUME SegmentInv, NEW w \in Worker, NEW new \in {IdleWorker, Down}, Set(w, new),
         worker[w].at \in {"idle", "down"}, inbox' \in [Worker -> Nat],
         \A u \in Worker : inbox'[u] = inbox[u],
         UNCHANGED <<segment, members, pc, local>>,
         segmentHistory' \in SegmentHistory, segmentHistory'.lost = segmentHistory.lost,
         segmentHistory'.raced = segmentHistory.raced, segmentHistory'.overtaken = segmentHistory.overtaken
  PROVE  SegmentInv'
<1>2. /\ segment \in SegmentRow /\ members \in SUBSET Known /\ inbox \in [Worker -> Nat]
      /\ worker \in [Worker -> SegmentWorkers] /\ segmentHistory \in SegmentHistory
      /\ \A u \in Worker : WorkerOK(u)
  BY DEF SegmentInv, SegmentRows
<1>3. /\ worker' \in [Worker -> SegmentWorkers] /\ worker'[w].at \in {"idle", "down"}
      /\ \A u \in Worker : u # w => worker'[u] = worker[u]
  <2>1. new \in SegmentWorkers /\ new.at \in {"idle", "down"}
    BY SegmentWorkerStates
  <2> QED
    BY <1>2, <2>1, SegmentSet
<1>4. \A u \in Worker : WorkerOK(u)'
  BY <1>2, <1>3 DEF WorkerOK, Proper
<1>5. SegmentRequests' /\ SegmentRows'
  BY <1>2, <1>3, <1>4, SegmentWorkerRows
<1>6. Untouched'
  BY <1>3 DEF SegmentInv, Untouched, Refreshes
<1>7. CountComes'
  BY <1>3 DEF SegmentInv, CountComes
<1>8. ASSUME Watched'
      PROVE  Converging'
  <2>1. Converging
    BY <1>8 DEF SegmentInv, Watched
  <2>2. StaleIsRepeated'
    BY <1>3, <2>1 DEF Converging, StaleIsRepeated, Refreshes
  <2>3. RefreshComes => RefreshComes'
    BY <1>3 DEF RefreshComes
  <2>4. Proper(segment.filter)' = Proper(segment.filter)
    BY DEF Proper
  <2>5. \A u \in Worker : Replaces(u) => Replaces(u)' /\ worker'[u].seen = worker[u].seen
    BY <1>3 DEF Replaces
  <2>6. MembersCome => MembersCome'
    BY <2>5 DEF MembersCome
  <2>7. ReadyComes => ReadyComes'
    BY <1>3 DEF ReadyComes
  <2>8. FailureComes => FailureComes'
    BY <1>3 DEF FailureComes
  <2> QED
    BY <2>1, <2>2, <2>3, <2>4, <2>6, <2>7, <2>8 DEF Converging
<1> QED
  BY <1>5, <1>6, <1>7, <1>8 DEF SegmentInv

LEMMA WorkerCrashInv ==
  ASSUME SegmentInv, NEW w \in Worker, WorkerCrash(w)
  PROVE  SegmentInv'
<1> DEFINE cut == worker[w].at # "idle" \/ inbox[w] > 0
<1>1. /\ Set(w, Down) /\ inbox' = [inbox EXCEPT ![w] = 0] /\ segmentHistory' = Note("lost", cut)
      /\ UNCHANGED <<segment, members, pc, local>>
  BY DEF WorkerCrash
<1>2. /\ segment \in SegmentRow /\ members \in SUBSET Known /\ inbox \in [Worker -> Nat]
      /\ worker \in [Worker -> SegmentWorkers] /\ segmentHistory \in SegmentHistory
      /\ \A u \in Worker : WorkerOK(u)
  BY DEF SegmentInv, SegmentRows
<1>3. cut \in BOOLEAN /\ (cut <=> worker[w].at # "idle" \/ inbox[w] > 0)
  OBVIOUS
<1> HIDE DEF cut
<1>4. /\ segmentHistory' \in SegmentHistory
      /\ segmentHistory'.lost <=> segmentHistory.lost \/ cut
      /\ segmentHistory'.raced <=> segmentHistory.raced
      /\ segmentHistory'.overtaken <=> segmentHistory.overtaken
  BY <1>1, <1>2, <1>3, SegmentNoted
<1>5. inbox' \in [Worker -> Nat]
  BY <1>1, <1>2
<1>6. CASE cut
  <2>1. /\ worker' \in [Worker -> SegmentWorkers] /\ worker'[w].at = "down"
        /\ \A u \in Worker : u # w => worker'[u] = worker[u]
    BY <1>1, <1>2, SegmentWorkerStates, SegmentSet
  <2>2. \A u \in Worker : WorkerOK(u)'
    BY <1>2, <1>4, <1>6, <2>1 DEF WorkerOK, Proper
  <2>3. SegmentRequests' /\ SegmentRows'
    BY <1>1, <1>2, <1>4, <1>5, <2>1, <2>2, SegmentWorkerRows
  <2>4. Untouched'
    BY <1>1, <2>1 DEF SegmentInv, Untouched, Refreshes
  <2>5. CountComes' /\ ~ Watched'
    BY <1>4, <1>6 DEF CountComes, Watched
  <2> QED
    BY <2>3, <2>4, <2>5 DEF SegmentInv
<1>7. CASE ~ cut
  <2>1. worker[w].at = "idle" /\ \A u \in Worker : inbox'[u] = inbox[u]
    BY <1>1, <1>2, <1>3, <1>7
  <2>2. /\ segmentHistory'.lost = segmentHistory.lost
        /\ segmentHistory'.raced = segmentHistory.raced /\ segmentHistory'.overtaken = segmentHistory.overtaken
    BY <1>2, <1>4, <1>7 DEF SegmentHistory
  <2> QED
    BY <1>1, <1>4, <1>5, <2>1, <2>2, SegmentIdleInv
<1> QED
  BY <1>6, <1>7

LEMMA WorkerStartInv ==
  ASSUME SegmentInv, NEW w \in Worker, WorkerStart(w)
  PROVE  SegmentInv'
<1>1. /\ Set(w, IdleWorker) /\ worker[w].at = "down"
      /\ UNCHANGED <<segment, members, inbox, pc, local, segmentHistory>>
  BY DEF WorkerStart, Up
<1>2. inbox' \in [Worker -> Nat] /\ segmentHistory' \in SegmentHistory
  BY <1>1 DEF SegmentInv, SegmentRows
<1> QED
  BY <1>1, <1>2, SegmentIdleInv

\* SegmentInv holds in every state: the messages and the refreshes on their
\* way are what the segment needs to become what its filter selects.
THEOREM SegmentInvariant == SegmentSpec => []SegmentInv
<1>1. SegmentInit => SegmentInv
  <2> SUFFICES ASSUME SegmentInit
               PROVE  SegmentInv
    OBVIOUS
  <2>1. /\ pc = [r \in Request |-> "new"] /\ local = [r \in Request |-> Nothing]
        /\ segment = [exists |-> FALSE, type |-> "static", filter |-> NoFilter,
                      status |-> "pending", count |-> 0]
        /\ members = {} /\ inbox = [w \in Worker |-> 0] /\ worker = [w \in Worker |-> IdleWorker]
        /\ segmentHistory = [lost |-> FALSE, raced |-> FALSE, overtaken |-> FALSE]
    BY DEF SegmentInit, HandlersInit
  <2>2. SegmentRequests
    BY <2>1 DEF SegmentRequests, SegmentSteps, SegmentLocals
  <2>3. 0 \in Counts /\ Cardinality({}) = 0
    BY FS_EmptySet DEF Counts
  <2>4. segment \in SegmentRow /\ segmentHistory \in SegmentHistory /\ ~ segment.exists
    BY <2>1, <2>3 DEF SegmentRow, SegmentTypes, SegmentStates, AnyFilter, SegmentHistory
  <2>5. SegmentRows
    BY <2>1, <2>4, SegmentWorkerStates DEF SegmentRows, WorkerOK
  <2>6. Untouched
    BY <2>1, SegmentWorkerStates DEF Untouched, Refreshes
  <2> QED
    BY <2>2, <2>4, <2>5, <2>6 DEF SegmentInv, CountComes, Watched
<1>2. SegmentInv /\ [SegmentNext]_segmentVars => SegmentInv'
  <2> SUFFICES ASSUME SegmentInv, [SegmentNext]_segmentVars
               PROVE  SegmentInv'
    OBVIOUS
  <2>1. ASSUME NEW type \in {"static", "dynamic"}, NEW f \in Filter \union {NoFilter}, CreateSegment(type, f)
        PROVE  SegmentInv'
    BY <2>1, CreateSegmentInv DEF AnyFilter
  <2>2. ASSUME NEW r \in Request, SegmentRequest(r)
        PROVE  SegmentInv'
    <3>1. ASSUME NEW type \in {"same", "static", "dynamic"}, NEW f \in Filter \union {NoFilter},
                 UpdateRead(r, [type |-> type, filter |-> f])
          PROVE  SegmentInv'
      <4>1. [type |-> type, filter |-> f] \in SegmentPatch
        BY DEF SegmentPatch, AnyFilter
      <4> QED
        BY <3>1, <4>1, UpdateReadInv
    <3>2. ASSUME NEW c \in Contact, NEW op \in {"add", "remove"}, MemberFind(r, op, c)
          PROVE  SegmentInv'
      BY <3>2, MemberFindInv
    <3> QED
      BY <2>2, <3>1, <3>2, UpdateWriteInv, DeleteSegmentInv, RefreshSegmentInv, MemberWriteInv,
         MemberCountInv, MemberFinishInv, FailSegmentRequestInv
         DEF SegmentRequest
  <2>3. ASSUME NEW w \in Worker, SegmentWorker(w)
        PROVE  SegmentInv'
    BY <2>3, ReceiveInv, MarkInv, QueryInv, InsertInv, FinishInv, FailedInv, QueryThrowsInv,
       WorkerCrashInv, WorkerStartInv
       DEF SegmentWorker
  <2>4. CASE UNCHANGED segmentVars
    <3>1. UNCHANGED <<segment, members, inbox, worker, segmentHistory, pc, local>>
      BY <2>4 DEF segmentVars, segmentState
    <3>2. SegmentRows' /\ (Watched' => Converging')
      BY <3>1, SegmentQuiet DEF SegmentInv, SegmentRows
    <3>3. SegmentRequests' /\ Untouched' /\ CountComes'
      BY <3>1, SegmentStands DEF SegmentInv, Untouched, CountComes, Refreshes
    <3> QED
      BY <3>2, <3>3 DEF SegmentInv
  <2> QED
    BY <2>1, <2>2, <2>3, <2>4 DEF SegmentNext
<1> QED
  BY <1>1, <1>2, PTL DEF SegmentSpec

\* A segment that nothing is under way for is what its filter selects,
\* unless a message was lost or an edit raced with a handler.
THEOREM SegmentConvergesHolds == SegmentSpec => []SegmentConverges
<1>1. SegmentInv => SegmentConverges
  <2> SUFFICES ASSUME SegmentInv, SegmentSettled, segment.exists
               PROVE  /\ segment.type = "dynamic" /\ ~ segmentHistory.lost /\ ~ segmentHistory.raced =>
                           IF segment.filter = NoFilter \/ Throws(segment.filter) THEN segment.status = "failed"
                           ELSE /\ segment.status = "ready"
                                /\ members = QueryContacts(segment.filter)
                                /\ segment.count = Cardinality(members)
                      /\ segment.type = "static" /\ ~ segmentHistory.lost /\ ~ segmentHistory.raced
                           /\ ~ segmentHistory.overtaken => segment.count = Cardinality(members)
    BY DEF SegmentConverges
  <2>1. /\ \A w \in Worker : inbox[w] = 0 /\ worker[w].at \in {"idle", "down"}
        /\ \A r \in Request : pc[r] \notin {"count", "count.write"}
    BY DEF SegmentSettled, Idle, Ended
  <2>2. ASSUME segment.type = "dynamic", ~ segmentHistory.lost, ~ segmentHistory.raced
        PROVE  IF segment.filter = NoFilter \/ Throws(segment.filter) THEN segment.status = "failed"
               ELSE /\ segment.status = "ready"
                    /\ members = QueryContacts(segment.filter)
                    /\ segment.count = Cardinality(members)
    <3>1. Converging
      BY <2>2 DEF SegmentInv, Watched
    <3>2. ~ RefreshComes /\ \A w \in Worker : ~ Replaces(w) /\ worker[w].at \notin {"fail", "finish", "insert"}
      BY <2>1 DEF RefreshComes, Replaces
    <3>3. CASE Proper(segment.filter)
      <4>1. MembersCome /\ ReadyComes
        BY <3>1, <3>2, <3>3 DEF Converging
      <4>2. members = QueryContacts(segment.filter)
        BY <3>2, <4>1 DEF MembersCome
      <4>3. segment.status = "ready" /\ segment.count = Cardinality(QueryContacts(segment.filter))
        BY <3>2, <4>1 DEF ReadyComes
      <4> QED
        BY <3>3, <4>2, <4>3 DEF Proper
    <3>4. CASE ~ Proper(segment.filter)
      <4>1. segment.status = "failed"
        BY <3>1, <3>2, <3>4 DEF Converging, FailureComes
      <4> QED
        BY <3>4, <4>1 DEF Proper
    <3> QED
      BY <3>3, <3>4
  <2>3. ASSUME ~ segmentHistory.lost, ~ segmentHistory.overtaken
        PROVE  segment.count = Cardinality(members)
    BY <2>1, <2>3 DEF SegmentInv, CountComes
  <2> QED
    BY <2>2, <2>3
<1> QED
  BY <1>1, SegmentInvariant, PTL

--------------------------------------------------------------------------
(* Where is well defined, and selects contacts.                             *)

\* Where of one rule, given that of the rules in a group.
Compiled(where, rule) ==
  IF ~ IsGroup(rule) THEN rule
  ELSE LET conditions == Conditions(rule, where)
           sets == {c.matches : c \in conditions}
       IN
       IF [kind |-> "throws"] \in conditions THEN [kind |-> "throws"]
       ELSE IF conditions = {} THEN [kind |-> "dropped"]
       ELSE [kind |-> "set",
             matches |-> IF rule.operator = "AND" THEN {c \in Contact : \A s \in sets : c \in s}
                         ELSE UNION sets]

Below(rule, x) == IsGroup(rule) /\ \E i \in DOMAIN rule.rules : x = rule.rules[i]

\* The compilation of some rules, with all that is below them.
IsCompilation(S, g) ==
  /\ \A rule \in S : \A x : Below(rule, x) => x \in S
  /\ g = [rule \in S |-> Compiled(g, rule)]

\* Of any rules, one has none of them below it.
LEMMA LowestRule ==
  ASSUME NEW S \in SUBSET Rule, S # {}
  PROVE  \E rule \in S : \A x : Below(rule, x) => x \notin S
<1>1. PICK rule \in S : IsGroup(rule) => \A i \in DOMAIN rule.rules : rule.rules[i] \notin S
  BY RulesAssumption, Zenon
<1>. QED  BY <1>1 DEF Below

LEMMA BelowIsRule ==
  ASSUME NEW rule \in Rule, NEW x, Below(rule, x)
  PROVE  x \in Rule
BY RulesAssumption DEF Below

\* Only what is below a rule matters to it.
LEMMA CompiledBelow ==
  ASSUME NEW rule, NEW g, NEW h, \A x : Below(rule, x) => g[x] = h[x]
  PROVE  Compiled(g, rule) = Compiled(h, rule)
<1>1. CASE IsGroup(rule)
  <2>1. \A i \in DOMAIN rule.rules : g[rule.rules[i]] = h[rule.rules[i]]
    BY <1>1 DEF Below
  <2>2. {g[rule.rules[i]] : i \in DOMAIN rule.rules} = {h[rule.rules[i]] : i \in DOMAIN rule.rules}
    BY <2>1
  <2>3. Conditions(rule, g) = Conditions(rule, h)
    BY <2>2, Zenon DEF Conditions
  <2>. QED  BY <2>3, Zenon DEF Compiled
<1>2. CASE ~ IsGroup(rule)
  BY <1>2, Zenon DEF Compiled
<1>. QED  BY <1>1, <1>2

\* Two compilations agree on what both compile.
LEMMA CompilationsAgree ==
  ASSUME NEW S \in SUBSET Rule, NEW T \in SUBSET Rule, NEW g, NEW h,
         IsCompilation(S, g), IsCompilation(T, h), NEW rule \in S \cap T
  PROVE  g[rule] = h[rule]
<1> DEFINE D == {r \in S \cap T : g[r] # h[r]}
<1>1. SUFFICES ASSUME D # {} PROVE FALSE
  OBVIOUS
<1>2. D \in SUBSET Rule
  OBVIOUS
<1>3. PICK r \in D : \A x : Below(r, x) => x \notin D
  BY <1>1, <1>2, LowestRule
<1>4. \A x : Below(r, x) => x \in S \cap T
  BY <1>3 DEF IsCompilation
<1>5. \A x : Below(r, x) => g[x] = h[x]
  BY <1>3, <1>4
<1>6. Compiled(g, r) = Compiled(h, r)
  BY <1>5, CompiledBelow
<1>7. g[r] = Compiled(g, r)
  BY <1>3 DEF IsCompilation
<1>8. h[r] = Compiled(h, r)
  BY <1>3 DEF IsCompilation
<1>. QED  BY <1>3, <1>6, <1>7, <1>8

\* What some compilation compiles, all of them together compile.
LEMMA CompilationExists == \E f : f = [rule \in Rule |-> Compiled(f, rule)]
<1> DEFINE P(rule, v) == \E S \in SUBSET Rule : \E g : IsCompilation(S, g) /\ rule \in S /\ v = g[rule]
           D == {rule \in Rule : \E v : P(rule, v)}
           H == [rule \in D |-> CHOOSE v : P(rule, v)]
<1>1. ASSUME NEW S \in SUBSET Rule, NEW g, IsCompilation(S, g), NEW rule \in S
      PROVE  rule \in D /\ H[rule] = g[rule]
  <2>1. P(rule, g[rule])
    BY <1>1
  <2>2. rule \in D
    BY <2>1
  <2>3. H[rule] = CHOOSE v : P(rule, v)
    BY <2>2
  <2>4. ASSUME NEW v, P(rule, v) PROVE v = g[rule]
    BY <1>1, <2>4, CompilationsAgree
  <2>5. (CHOOSE v : P(rule, v)) = g[rule]
    BY <2>1, <2>4
  <2>. QED  BY <2>2, <2>3, <2>5
<1>2. ASSUME NEW rule \in D
      PROVE  /\ H[rule] = Compiled(H, rule)
             /\ \A x : Below(rule, x) => x \in D
  <2>1. PICK S \in SUBSET Rule : \E g : IsCompilation(S, g) /\ rule \in S
    OBVIOUS
  <2>2. PICK g : IsCompilation(S, g) /\ rule \in S
    BY <2>1
  <2>3. \A x \in S : x \in D /\ H[x] = g[x]
    BY <1>1, <2>2
  <2>4. \A x : Below(rule, x) => x \in S
    BY <2>2 DEF IsCompilation
  <2>5. g[rule] = Compiled(g, rule)
    BY <2>2 DEF IsCompilation
  <2> HIDE DEF H, D
  <2>6. Compiled(g, rule) = Compiled(H, rule)
    BY <2>3, <2>4, CompiledBelow
  <2>. QED  BY <2>2, <2>3, <2>4, <2>5, <2>6
<1>3. D \in SUBSET Rule /\ H = [rule \in D |-> H[rule]]
  OBVIOUS
<1>4. ASSUME Rule \ D # {} PROVE FALSE
  <2>1. Rule \ D \in SUBSET Rule
    OBVIOUS
  <2>2. PICK m \in Rule \ D : \A x : Below(m, x) => x \notin Rule \ D
    BY <1>4, <2>1, LowestRule
  <2>3. \A x : Below(m, x) => x \in D
    BY <2>2, BelowIsRule
  <2> DEFINE S == D \union {m}
             g == [r \in S |-> IF r = m THEN Compiled(H, m) ELSE H[r]]
  <2> HIDE DEF D, H
  <2>4. \A r \in D : g[r] = H[r]
    BY <2>2
  <2>5. g[m] = Compiled(H, m)
    OBVIOUS
  <2>6. S \in SUBSET Rule /\ g = [r \in S |-> g[r]]
    BY <1>3, <2>2
  <2> HIDE DEF g
  <2>7. ASSUME NEW r \in S PROVE g[r] = Compiled(g, r) /\ \A x : Below(r, x) => x \in S
    <3>1. \A x : Below(r, x) => x \in D
      BY <1>2, <2>3
    <3>2. \A x : Below(r, x) => g[x] = H[x]
      BY <2>4, <3>1
    <3>3. Compiled(g, r) = Compiled(H, r)
      BY <3>2, CompiledBelow
    <3>. QED  BY <1>2, <2>4, <2>5, <3>1, <3>3
  <2> HIDE DEF S
  <2>8. g = [r \in S |-> Compiled(g, r)]
    BY <2>6, <2>7
  <2>9. IsCompilation(S, g)
    BY <2>7, <2>8 DEF IsCompilation
  <2>10. m \in S
    BY DEF S
  <2>11. m \in D
    BY <1>1, <2>6, <2>9, <2>10
  <2>. QED  BY <2>2, <2>11
<1>5. D = Rule
  BY <1>3, <1>4
<1> HIDE DEF D, H
<1>6. H = [rule \in Rule |-> Compiled(H, rule)]
  BY <1>2, <1>3, <1>5
<1>. QED  BY <1>6

\* Where compiles every rule from those below it.
LEMMA WhereIs == Where = [rule \in Rule |-> Compiled(Where, rule)]
BY CompilationExists, Zenon DEF Where, Compiled

\* What a rule compiles to is a condition: it selects contacts.
LEMMA WhereIsCondition == \A rule \in Rule : Where[rule] \in Condition
<1> DEFINE D == {rule \in Rule : Where[rule] \notin Condition}
<1>1. SUFFICES ASSUME D # {} PROVE FALSE
  OBVIOUS
<1>2. D \in SUBSET Rule
  OBVIOUS
<1>3. PICK rule \in D : \A x : Below(rule, x) => x \notin D
  BY <1>1, <1>2, LowestRule
<1>4. \A x : Below(rule, x) => Where[x] \in Condition
  BY <1>3, BelowIsRule
<1>5. rule \in Rule /\ Where[rule] = Compiled(Where, rule)
  BY <1>3, WhereIs
<1>6. Where[rule] \notin Condition
  BY <1>3
<1> HIDE DEF D
<1>7. CASE ~ IsGroup(rule)
  <2>1. Where[rule] = rule
    BY <1>5, <1>7 DEF Compiled
  <2>. QED  BY <1>5, <1>6, <1>7, <2>1, RulesAssumption
<1>8. CASE IsGroup(rule)
  <2> DEFINE conditions == Conditions(rule, Where)
             sets == {c.matches : c \in conditions}
  <2>1. conditions \in SUBSET Condition /\ [kind |-> "dropped"] \notin conditions
    BY <1>4, <1>8 DEF Conditions, Below
  <2> HIDE DEF conditions
  <2>2. CASE [kind |-> "throws"] \in conditions
    <3>1. Where[rule] = [kind |-> "throws"]
      BY <1>5, <1>8, <2>2 DEF Compiled, conditions
    <3>. QED  BY <1>6, <3>1 DEF Condition
  <2>3. CASE conditions = {}
    <3>1. Where[rule] = [kind |-> "dropped"]
      BY <1>5, <1>8, <2>3 DEF Compiled, conditions
    <3>. QED  BY <1>6, <3>1 DEF Condition
  <2>4. CASE [kind |-> "throws"] \notin conditions /\ conditions # {}
    <3> DEFINE chosen == IF rule.operator = "AND" THEN {c \in Contact : \A s \in sets : c \in s}
                         ELSE UNION sets
    <3>1. Where[rule] = [kind |-> "set", matches |-> chosen]
      BY <1>5, <1>8, <2>4 DEF Compiled, conditions
    <3>2. \A c \in conditions : c.matches \in SUBSET Contact
      <4>1. ASSUME NEW c \in Condition, c # [kind |-> "throws"], c # [kind |-> "dropped"]
            PROVE  c.matches \in SUBSET Contact
        BY <4>1 DEF Condition
      <4>. QED  BY <2>1, <2>4, <4>1
    <3>3. chosen \in SUBSET Contact
      BY <3>2
    <3> HIDE DEF chosen
    <3>. QED  BY <1>6, <3>1, <3>3 DEF Condition
  <2>. QED  BY <2>2, <2>3, <2>4
<1>. QED  BY <1>7, <1>8

\* A filter selects contacts.
LEMMA QuerySelects ==
  ASSUME NEW f \in Filter
  PROVE  QueryContacts(f) \in SUBSET Contact
<1>1. Where[f] \in Condition
  BY WhereIsCondition, RulesAssumption
<1>2. Where[f].kind = "set" => Where[f].matches \in SUBSET Contact
  BY <1>1 DEF Condition
<1>. QED  BY <1>2 DEF QueryContacts

\* So all that a segment ever counts are contacts.
LEMMA KnownAreContacts ==
  /\ Known = Contact
  /\ Counts \subseteq 0 .. Cardinality(Contact)
<1>1. Known = Contact
  BY QuerySelects DEF Known
<1>2. ASSUME NEW S \in SUBSET Contact PROVE Cardinality(S) \in 0 .. Cardinality(Contact)
  <2>1. IsFiniteSet(Contact) /\ IsFiniteSet(S) /\ Cardinality(S) <= Cardinality(Contact)
    BY ContactsAssumption, FS_Subset
  <2>2. Cardinality(S) \in Nat /\ Cardinality(Contact) \in Nat
    BY <2>1, FS_CardinalityType
  <2>. QED  BY <2>1, <2>2
<1>. QED  BY <1>1, <1>2 DEF Counts

\* Every variable of the segment module has its type: members, counts and
\* what a worker has seen are of contacts.
THEOREM SegmentTypeCorrect == SegmentSpec => []SegmentTypeOK
<1>1. SegmentInv => SegmentTypeOK
  <2> SUFFICES ASSUME SegmentInv PROVE SegmentTypeOK
    OBVIOUS
  <2>1. SegmentRequests /\ SegmentRows
    BY DEF SegmentInv
  <2>2. segment \in Row
    <3>1. segment \in SegmentRow
      BY <2>1 DEF SegmentRows
    <3> DEFINE B == BOOLEAN
    <3>2. SegmentRow = [exists: B, type: SegmentTypes, filter: AnyFilter, status: SegmentStates, count: Counts]
      BY DEF SegmentRow
    <3>3. Row = [exists: B, type: SegmentTypes, filter: AnyFilter, status: SegmentStates, count: 0 .. Cardinality(Contact)]
      BY DEF Row, SegmentTypes, AnyFilter, SegmentStates
    <3> HIDE DEF B
    <3>. QED  BY <3>1, <3>2, <3>3, KnownAreContacts
  <2>3. members \subseteq Contact /\ inbox \in [Worker -> Nat] /\ segmentHistory \in SegmentHistory
    BY <2>1, KnownAreContacts DEF SegmentRows
  <2>4. worker \in [Worker -> WorkerState]
    BY <2>1, KnownAreContacts DEF SegmentRows, SegmentWorkers, WorkerState, AnyFilter
  <2>5. pc \in [Request -> {"new", "update", "member", "count", "count.write", "done", "failed"}]
    BY <2>1 DEF SegmentRequests, SegmentSteps
  <2>6. local \in [Request -> SegmentLocal \union {Nothing}]
    <3>1. MemberLocal \subseteq [op: {"add", "remove"}, contact: Contact, count: 0 .. Cardinality(Contact)]
      BY KnownAreContacts DEF MemberLocal
    <3>2. SegmentLocals \subseteq SegmentLocal \union {Nothing}
      BY <3>1 DEF SegmentLocals, SegmentLocal, UpdateLocal, SegmentPatch, AnyFilter
    <3>. QED  BY <2>1, <3>2 DEF SegmentRequests
  <2>. QED  BY <2>2, <2>3, <2>4, <2>5, <2>6 DEF SegmentTypeOK
<1>. QED  BY <1>1, SegmentInvariant, PTL

--------------------------------------------------------------------------
(* GraphValidator: the two searches.                                        *)

GraphNode == [id: NodeId, type: STRING, configured: BOOLEAN]
DfsCall == [node: NodeId, todo: SUBSET NodeId]
Colored(c) == {i \in NodeId : color[i] = c}

PathInv ==
  /\ stack \in Seq(DfsCall)
  /\ \A j, k \in 1 .. Len(stack) : stack[j].node = stack[k].node => j = k
  /\ \A k \in 1 .. Len(stack) :
       /\ stack[k].node \in Ids
       /\ stack[k].todo \subseteq Successors(stack[k].node)
  /\ \A k \in 1 .. Len(stack) - 1 : stack[k + 1].node \in Successors(stack[k].node)

FollowedInv ==
  \A k \in 1 .. Len(stack) : \A v \in Successors(stack[k].node) \ stack[k].todo :
     \/ color[v] = "black"
     \/ (k < Len(stack) /\ v = stack[k + 1].node)

BlackInv ==
  /\ \A i \in Colored("black") : Successors(i) \subseteq Colored("black")
  /\ \A S \in SUBSET Colored("black") : S # {} => \E i \in S : Successors(i) \cap S = {}

SearchInv ==
  /\ Trigger \in visited \union queue
  /\ visited \union queue \subseteq Ids
  /\ \A i \in visited : Successors(i) \subseteq visited \union queue
  /\ \A i \in visited \union queue : LeadsTo(Trigger, i)

Fresh ==
  /\ color = [i \in NodeId |-> "white"]
  /\ stack = << >> /\ visited = {} /\ queue = {}

ValidatorInv ==
  /\ ValidatorTypeOK
  /\ phase \in {"new", "nodes"} => Fresh
  /\ phase \in {"cycle", "reach"} => WellFormed
  /\ phase = "cycle" => PathInv /\ FollowedInv /\ BlackInv /\ visited = {}
  /\ phase = "reach" => Acyclic /\ SearchInv
  /\ VerdictRight

\* The successors of a node are where its edges lead to.
LEMMA SuccessorsAre ==
  ASSUME ValidatorTypeOK, NEW i
  PROVE  /\ \A v : v \in Successors(i) <=> <<i, v>> \in graph.edges
         /\ Successors(i) \subseteq NodeId \union {Stranger}
<1>1. \A e \in graph.edges : e = <<e[1], e[2]>> /\ e[1] \in NodeId /\ e[2] \in NodeId \union {Stranger}
  <2>1. graph.edges \in SUBSET (NodeId \X NodeId) \/ \E j \in NodeId : graph.edges = {<<j, Stranger>>}
    BY DEF ValidatorTypeOK, Edges
  <2>2. CASE graph.edges \in SUBSET (NodeId \X NodeId)
    BY <2>2
  <2>3. CASE \E j \in NodeId : graph.edges = {<<j, Stranger>>}
    BY <2>3
  <2>. QED  BY <2>1, <2>2, <2>3
<1>. QED  BY <1>1 DEF Successors

\* The nodes of the graph are a list of nodes.
LEMMA NodesAre ==
  ASSUME ValidatorTypeOK
  PROVE  /\ graph.nodes \in Seq(GraphNode)
         /\ \A k \in DOMAIN graph.nodes : graph.nodes[k] \in GraphNode
         /\ \A k \in DOMAIN graph.nodes : graph.nodes[k].id \in Ids
         /\ Ids \subseteq NodeId
         /\ \A i \in Ids : \E k \in DOMAIN graph.nodes : graph.nodes[k].id = i
<1>1. graph.nodes \in Seq(GraphNode)
  <2>1. CASE graph.nodes = << >>
    BY <2>1
  <2>2. CASE graph.nodes \in NodeList
    BY <2>2, NodesAssumption DEF GraphNode
  <2>. QED  BY <2>1, <2>2 DEF ValidatorTypeOK
<1>2. \A k \in DOMAIN graph.nodes : graph.nodes[k] \in GraphNode
  BY <1>1
<1>3. /\ \A k \in DOMAIN graph.nodes : graph.nodes[k].id \in Ids
      /\ \A i \in Ids : \E k \in DOMAIN graph.nodes : graph.nodes[k].id = i
  BY DEF Ids, Nodes
<1>4. \A k \in DOMAIN graph.nodes : graph.nodes[k].id \in NodeId
  BY <1>2 DEF GraphNode
<1>. QED  BY <1>1, <1>2, <1>3, <1>4

\* In a well-formed graph edges lead to nodes, and the trigger is a node.
LEMMA WellFormedGraph ==
  ASSUME ValidatorTypeOK, WellFormed
  PROVE  /\ \A i : Successors(i) \subseteq Ids
         /\ Trigger \in Ids
<1>1. ASSUME NEW i PROVE Successors(i) \subseteq Ids
  <2>1. \A e \in graph.edges : e[2] \in Ids
    BY DEF WellFormed
  <2>2. \A v \in Successors(i) : <<i, v>>[2] \in Ids
    BY <2>1, SuccessorsAre
  <2>. QED  BY <2>2
<1>2. Trigger \in Ids
  <2>1. PICK k \in DOMAIN graph.nodes : OfType("trigger") = {k}
    BY DEF WellFormed
  <2>2. (CHOOSE j \in OfType("trigger") : TRUE) = k
    BY <2>1
  <2>. QED  BY <2>1, <2>2, NodesAre DEF Trigger
<1>. QED  BY <1>1, <1>2

\* What is about the graph stays as long as the graph does.
LEMMA SameGraph ==
  ASSUME graph' = graph
  PROVE  /\ Ids' = Ids /\ Trigger' = Trigger /\ WellFormed' = WellFormed /\ Acyclic' = Acyclic
         /\ \A i : Successors(i)' = Successors(i)
         /\ \A i, j : LeadsTo(i, j)' = LeadsTo(i, j)
<1>1. Ids' = Ids
  BY DEF Ids, Nodes
<1>2. \A i : Successors(i)' = Successors(i)
  BY DEF Successors
<1>3. Trigger' = Trigger
  BY DEF Trigger, OfType
<1>4. WellFormed' = WellFormed
  BY DEF WellFormed, OfType, Nodes, Ids
<1>5. Acyclic' = Acyclic
  BY DEF Acyclic, Ids, Nodes, Successors
<1>6. \A i, j : LeadsTo(i, j)' = LeadsTo(i, j)
  BY DEF LeadsTo, Ids, Nodes, Successors
<1>. QED  BY <1>1, <1>2, <1>3, <1>4, <1>5, <1>6

\* A set of numbers has a least one.
LEMMA LeastOf ==
  ASSUME NEW S \in SUBSET Nat, S # {}
  PROVE  \E m \in S : \A k \in S : m <= k
<1> DEFINE R == OpToRel(<, Nat)
<1>1. IsWellFoundedOn(R, Nat)
  BY NatLessThanWellFounded
<1>2. \A x \in Nat, y \in Nat : y < x => <<y, x>> \in R
  BY DEF OpToRel
<1> HIDE DEF R
<1>3. PICK m \in S : \A k \in S : ~ (<<k, m>> \in R)
  BY <1>1, WFMin
<1>4. ASSUME NEW k \in S
      PROVE  m <= k
  <2>1. m \in Nat /\ k \in Nat /\ ~ (<<k, m>> \in R)
    BY <1>3
  <2>2. ~ (k < m)
    BY <1>2, <2>1, Zenon
  <2> QED
    BY <2>1, <2>2
<1> QED
  BY <1>3, <1>4

\* A function on 1 .. n is a sequence of length n.
LEMMA SequenceOf ==
  ASSUME NEW C, NEW n \in Nat, NEW t \in [1 .. n -> C]
  PROVE  t \in Seq(C) /\ Len(t) = n
OBVIOUS

\* A sequence without its last element, and with it replaced.
LEMMA PoppedSequence ==
  ASSUME NEW C, NEW s \in Seq(C), s # << >>
  PROVE  /\ Len(s) \in Nat \ {0} /\ s[Len(s)] \in C
         /\ SubSeq(s, 1, Len(s) - 1) \in Seq(C)
         /\ Len(SubSeq(s, 1, Len(s) - 1)) = Len(s) - 1
         /\ \A k \in 1 .. Len(s) - 1 : SubSeq(s, 1, Len(s) - 1)[k] = s[k]
<1> DEFINE n == Len(s) - 1
           t == SubSeq(s, 1, n)
<1>1. n \in Nat /\ Len(s) \in Nat \ {0} /\ s[Len(s)] \in C
  OBVIOUS
<1>2. t = [k \in 1 .. n |-> s[k]]
  BY <1>1
<1>3. \A k \in 1 .. n : s[k] \in C
  BY <1>1
<1> HIDE DEF n, t
<1>4. t \in [1 .. n -> C]
  BY <1>2, <1>3
<1>5. t \in Seq(C) /\ Len(t) = n
  BY <1>1, <1>4, SequenceOf
<1>6. \A k \in 1 .. n : t[k] = s[k]
  BY <1>2
<1>. QED  BY <1>1, <1>5, <1>6 DEF n, t

LEMMA ReplacedLast ==
  ASSUME NEW C, NEW s \in Seq(C), s # << >>, NEW c \in C
  PROVE  /\ Append(SubSeq(s, 1, Len(s) - 1), c) \in Seq(C)
         /\ Len(Append(SubSeq(s, 1, Len(s) - 1), c)) = Len(s)
         /\ Append(SubSeq(s, 1, Len(s) - 1), c)[Len(s)] = c
         /\ \A k \in 1 .. Len(s) - 1 : Append(SubSeq(s, 1, Len(s) - 1), c)[k] = s[k]
<1> DEFINE p == SubSeq(s, 1, Len(s) - 1)
<1>1. /\ Len(s) \in Nat \ {0}
      /\ p \in Seq(C) /\ Len(p) = Len(s) - 1
      /\ \A k \in 1 .. Len(s) - 1 : p[k] = s[k]
  BY PoppedSequence, Zenon
<1> HIDE DEF p
<1>2. /\ Append(p, c) \in Seq(C) /\ Len(Append(p, c)) = Len(s) /\ Append(p, c)[Len(s)] = c
      /\ \A k \in 1 .. Len(s) - 1 : Append(p, c)[k] = s[k]
  BY <1>1
<1>. QED  BY <1>2 DEF p

LEMMA PushedSequence ==
  ASSUME NEW C, NEW s \in Seq(C), NEW c \in C, NEW t, t = Append(s, c)
  PROVE  /\ t \in Seq(C) /\ Len(t) = Len(s) + 1 /\ t[Len(s) + 1] = c /\ Len(s) \in Nat
         /\ \A k \in 1 .. Len(s) : t[k] = s[k]
OBVIOUS

\* An action that leaves the graph and the verdict open keeps the verdict
\* property.
LEMMA NoVerdict ==
  ASSUME phase \notin {"accepted", "rejected"}
  PROVE  VerdictRight
BY DEF VerdictRight

LEMMA InitialValidator == ValidatorInit => ValidatorInv
<1> SUFFICES ASSUME ValidatorInit PROVE ValidatorInv
  OBVIOUS
<1> USE DEF ValidatorInit
<1>1. Fresh /\ phase = "new"
  BY DEF Fresh
<1>2. ValidatorTypeOK
  <2>1. graph.nodes = << >> /\ graph.edges \in Edges
    BY DEF Edges
  <2>2. {stack[k].node : k \in DOMAIN stack} = {i \in NodeId : color[i] = "gray"}
    OBVIOUS
  <2>. QED  BY <2>1, <2>2 DEF ValidatorTypeOK
<1>3. VerdictRight
  BY <1>1, NoVerdict
<1>. QED  BY <1>1, <1>2, <1>3 DEF ValidatorInv

LEMMA ValidateGraphInv ==
  ASSUME ValidatorInv, NEW nodes \in NodeList, NEW edges \in Edges, ValidateGraph(nodes, edges)
  PROVE  ValidatorInv'
<1> USE DEF ValidateGraph
<1>1. ValidatorTypeOK'
  <2>1. graph'.nodes = nodes /\ graph'.edges = edges
    OBVIOUS
  <2>. QED  BY <2>1 DEF ValidatorInv, ValidatorTypeOK
<1>2. Fresh' /\ phase' = "nodes"
  BY DEF ValidatorInv, Fresh
<1>3. VerdictRight'
  BY <1>2 DEF VerdictRight
<1>. QED  BY <1>1, <1>2, <1>3 DEF ValidatorInv

LEMMA CheckNodesInv ==
  ASSUME ValidatorInv, CheckNodes
  PROVE  ValidatorInv'
<1> USE DEF CheckNodes
<1>1. ValidatorTypeOK'
  BY DEF ValidatorInv, ValidatorTypeOK
<1>2. Fresh /\ Fresh'
  BY DEF ValidatorInv, Fresh
<1>3. WellFormed' = WellFormed /\ (\A i : Successors(i)' = Successors(i))
  BY SameGraph
<1>4. CASE WellFormed
  <2>1. phase' = "cycle" /\ WellFormed' /\ visited' = {}
    BY <1>2, <1>3, <1>4 DEF Fresh
  <2>2. PathInv'
    <3>1. stack' = << >> /\ Len(stack') = 0 /\ stack' \in Seq(DfsCall)
      BY <1>2 DEF Fresh
    <3>. QED  BY <3>1 DEF PathInv, DfsCall
  <2>3. FollowedInv'
    <3>1. Len(stack') = 0
      BY <1>2 DEF Fresh
    <3>. QED  BY <3>1 DEF FollowedInv
  <2>4. BlackInv'
    <3>1. Colored("black")' = {}
      BY <1>2 DEF Fresh, Colored
    <3>. QED  BY <3>1 DEF BlackInv
  <2>5. VerdictRight'
    BY <2>1 DEF VerdictRight
  <2>. QED  BY <1>1, <2>1, <2>2, <2>3, <2>4, <2>5 DEF ValidatorInv
<1>5. CASE ~ WellFormed
  <2>1. phase' = "rejected" /\ ~ WellFormed'
    BY <1>3, <1>5
  <2>2. VerdictRight'
    BY <2>1 DEF VerdictRight
  <2>. QED  BY <1>1, <2>1, <2>2 DEF ValidatorInv
<1>. QED  BY <1>4, <1>5

\* Between two searches no node is gray: the black ones are all that are
\* not white.
LEMMA StartDfsInv ==
  ASSUME ValidatorInv, StartDfs
  PROVE  ValidatorInv'
<1> DEFINE white == {k \in DOMAIN graph.nodes : color[graph.nodes[k].id] = "white"}
<1>1. /\ phase = "cycle" /\ stack = << >> /\ graph' = graph /\ visited' = visited
      /\ ValidatorTypeOK /\ WellFormed /\ PathInv /\ FollowedInv /\ BlackInv /\ visited = {}
  BY DEF StartDfs, ValidatorInv
<1>2. /\ WellFormed' /\ Ids' = Ids /\ Trigger' = Trigger /\ Acyclic' = Acyclic
      /\ \A i : Successors(i)' = Successors(i)
      /\ \A i, j : LeadsTo(i, j)' = LeadsTo(i, j)
  BY <1>1, SameGraph
<1>3. CASE white = {}
  <2>1. phase' = "reach" /\ queue' = {Trigger} /\ color' = color /\ stack' = stack
    BY <1>3 DEF StartDfs
  <2>2. Trigger \in Ids /\ Ids \subseteq NodeId
    BY <1>1, WellFormedGraph, NodesAre
  <2>3. ValidatorTypeOK'
    BY <1>1, <2>1, <2>2 DEF ValidatorTypeOK
  <2>4. \A i \in NodeId : color[i] # "gray"
    BY <1>1 DEF ValidatorTypeOK
  <2>5. Ids \subseteq Colored("black")
    <3>1. \A i \in Ids : color[i] # "white"
      BY <1>1, <1>3, NodesAre
    <3>2. \A i \in Ids : color[i] \in {"white", "gray", "black"}
      BY <2>2, <1>1 DEF ValidatorTypeOK
    <3>. QED  BY <2>2, <2>4, <3>1, <3>2 DEF Colored
  <2>6. Acyclic
    BY <1>1, <2>5 DEF BlackInv, Acyclic
  <2>7. LeadsTo(Trigger, Trigger)
    BY DEF LeadsTo
  <2>8. SearchInv'
    BY <1>1, <1>2, <2>1, <2>2, <2>7 DEF SearchInv
  <2>9. VerdictRight'
    BY <2>1 DEF VerdictRight
  <2>. QED  BY <1>2, <2>1, <2>3, <2>6, <2>8, <2>9 DEF ValidatorInv
<1>4. CASE white # {}
  <2> DEFINE first == CHOOSE k \in white : \A j \in white : k <= j
             i == graph.nodes[first].id
  <2>1. /\ stack' = <<Call(i)>> /\ color' = [color EXCEPT ![i] = "gray"]
        /\ phase' = phase /\ queue' = queue
    BY <1>4 DEF StartDfs
  <2>2. first \in white
    <3>1. white \subseteq Nat
      BY <1>1, NodesAre
    <3>2. \E k \in white : \A j \in white : k <= j
      BY <1>4, <3>1, LeastOf
    <3>. QED  BY <3>2
  <2>3. i \in Ids /\ i \in NodeId /\ color[i] = "white"
    BY <1>1, <2>2, NodesAre
  <2> HIDE DEF i
  <2>4. Call(i) \in DfsCall /\ Call(i).node = i /\ Call(i).todo = Successors(i)
    <3>1. Successors(i) \subseteq NodeId
      BY <1>1, WellFormedGraph, NodesAre
    <3>. QED  BY <2>3, <3>1 DEF Call, DfsCall
  <2>5. stack' \in Seq(DfsCall) /\ Len(stack') = 1 /\ stack'[1] = Call(i) /\ DOMAIN stack' = {1}
    BY <2>1, <2>4
  <2>6. /\ color' \in [NodeId -> {"white", "gray", "black"}]
        /\ \A j \in NodeId : color'[j] = IF j = i THEN "gray" ELSE color[j]
    BY <1>1, <2>1, <2>3 DEF ValidatorTypeOK
  <2>7. ValidatorTypeOK'
    <3>1. \A j \in NodeId : color[j] # "gray"
      BY <1>1 DEF ValidatorTypeOK
    <3>2. {stack'[k].node : k \in DOMAIN stack'} = {j \in NodeId : color'[j] = "gray"}
      BY <2>3, <2>4, <2>5, <2>6, <3>1
    <3>. QED  BY <1>1, <2>1, <2>6, <3>2 DEF ValidatorTypeOK
  <2>8. PathInv'
    BY <1>2, <2>3, <2>4, <2>5 DEF PathInv, DfsCall
  <2>9. FollowedInv'
    BY <1>2, <2>4, <2>5 DEF FollowedInv
  <2>10. BlackInv'
    <3>1. Colored("black")' = Colored("black")
      BY <2>3, <2>6 DEF Colored
    <3>. QED  BY <1>1, <1>2, <3>1 DEF BlackInv
  <2>11. VerdictRight'
    BY <1>1, <2>1 DEF VerdictRight
  <2>. QED  BY <1>1, <1>2, <2>1, <2>7, <2>8, <2>9, <2>10, <2>11 DEF ValidatorInv
<1>. QED  BY <1>3, <1>4

\* The calls from a gray node on are nodes with an edge from each to the
\* next, and from the last back to it.
LEMMA GrayIsCycle ==
  ASSUME ValidatorTypeOK, WellFormed, PathInv, stack # << >>,
         NEW v \in Last(stack).todo, color[v] = "gray"
  PROVE  ~ Acyclic
<1> DEFINE n == Len(stack)
<1>1. /\ n \in Nat \ {0}
      /\ v \in Successors(stack[n].node)
      /\ v \in NodeId
  <2>1. n \in Nat \ {0}
    BY DEF PathInv
  <2>2. v \in Successors(stack[n].node)
    BY <2>1 DEF PathInv, Last
  <2>. QED  BY <2>1, <2>2, WellFormedGraph, NodesAre
<1>2. DOMAIN stack = 1 .. n
  BY DEF PathInv
<1>3. PICK k \in 1 .. n : v = stack[k].node
  BY <1>1, <1>2 DEF ValidatorTypeOK
<1> DEFINE S == {stack[j].node : j \in k .. n}
<1>4. S \subseteq Ids /\ S # {}
  BY <1>1, <1>3 DEF PathInv
<1>5. ASSUME NEW j \in k .. n PROVE Successors(stack[j].node) \cap S # {}
  <2>1. CASE j = n
    <3>1. v \in S
      BY <1>1, <1>3
    <3>. QED  BY <1>1, <2>1, <3>1
  <2>2. CASE j < n
    <3>1. j \in 1 .. n - 1 /\ j + 1 \in k .. n
      BY <1>1, <1>3, <2>2
    <3>2. stack[j + 1].node \in Successors(stack[j].node) /\ stack[j + 1].node \in S
      BY <3>1 DEF PathInv
    <3>. QED  BY <3>2
  <2>. QED  BY <1>1, <1>3, <2>1, <2>2
<1>6. \A i \in S : Successors(i) \cap S # {}
  BY <1>5
<1> HIDE DEF S
<1>. QED  BY <1>4, <1>6 DEF Acyclic

LEMMA FollowEdgeInv ==
  ASSUME ValidatorInv, NEW v \in NodeId, FollowEdge(v)
  PROVE  ValidatorInv'
<1> DEFINE n == Len(stack)
           left == [Last(stack) EXCEPT !.todo = @ \ {v}]
           rest == Append(Caller, left)
<1>1. /\ phase = "cycle" /\ stack # << >> /\ v \in Last(stack).todo
      /\ graph' = graph /\ visited' = visited /\ queue' = queue
      /\ ValidatorTypeOK /\ WellFormed /\ PathInv /\ FollowedInv /\ BlackInv /\ visited = {}
  BY DEF FollowEdge, ValidatorInv
<1>2. /\ WellFormed' /\ Ids' = Ids /\ Trigger' = Trigger /\ Acyclic' = Acyclic
      /\ \A i : Successors(i)' = Successors(i)
      /\ \A i, j : LeadsTo(i, j)' = LeadsTo(i, j)
  BY <1>1, SameGraph
<1>3. n \in Nat \ {0} /\ Last(stack) = stack[n] /\ stack[n] \in DfsCall /\ DOMAIN stack = 1 .. n
  BY <1>1 DEF PathInv, Last
<1>4. n \in Nat \ {0}
  BY <1>3
<1>5. CASE color[v] = "gray"
  <2>1. phase' = "rejected" /\ color' = color /\ stack' = stack
    BY <1>5 DEF FollowEdge
  <2>2. ValidatorTypeOK'
    BY <1>1, <2>1 DEF ValidatorTypeOK
  <2>3. ~ Acyclic'
    BY <1>1, <1>2, <1>5, GrayIsCycle
  <2>4. VerdictRight'
    BY <2>1, <2>3 DEF VerdictRight
  <2>. QED  BY <2>1, <2>2, <2>4 DEF ValidatorInv
<1>6. CASE color[v] # "gray"
  <2>1. /\ phase' = phase
        /\ stack' = IF color[v] = "white" THEN Append(rest, Call(v)) ELSE rest
        /\ color' = IF color[v] = "white" THEN [color EXCEPT ![v] = "gray"] ELSE color
    BY <1>6 DEF FollowEdge
  <2>2. left \in DfsCall /\ left.node = stack[n].node /\ left.todo = stack[n].todo \ {v}
    BY <1>3 DEF DfsCall
  <2> HIDE DEF left
  <2>3. /\ rest \in Seq(DfsCall) /\ Len(rest) = n /\ rest[n] = left
        /\ \A k \in 1 .. n - 1 : rest[k] = stack[k]
    <3>1. stack \in Seq(DfsCall) /\ stack # << >> /\ left \in DfsCall
      BY <1>1, <2>2 DEF PathInv
    <3>2. rest = Append(SubSeq(stack, 1, Len(stack) - 1), left)
      BY DEF Caller
    <3>3. /\ Append(SubSeq(stack, 1, Len(stack) - 1), left) \in Seq(DfsCall)
          /\ Len(Append(SubSeq(stack, 1, Len(stack) - 1), left)) = Len(stack)
          /\ Append(SubSeq(stack, 1, Len(stack) - 1), left)[Len(stack)] = left
          /\ \A k \in 1 .. Len(stack) - 1 : Append(SubSeq(stack, 1, Len(stack) - 1), left)[k] = stack[k]
      BY <3>1, ReplacedLast
    <3>. QED  BY <3>2, <3>3, Zenon
  <2> HIDE DEF rest
  <2>4. \A k \in 1 .. n : rest[k].node = stack[k].node /\ rest[k].todo \subseteq stack[k].todo
    BY <1>3, <2>2, <2>3
  <2>5. v \in Successors(stack[n].node) /\ v \in Ids
    BY <1>1, <1>3, WellFormedGraph DEF PathInv
  <2>6. VerdictRight'
    BY <1>1, <2>1 DEF VerdictRight
  <2>7. CASE color[v] = "white"
    <3>1. Call(v) \in DfsCall /\ Call(v).node = v /\ Call(v).todo = Successors(v)
      <4>1. Successors(v) \subseteq NodeId
        BY <1>1, WellFormedGraph, NodesAre
      <4>. QED  BY <4>1 DEF Call, DfsCall
    <3>2. /\ stack' \in Seq(DfsCall) /\ Len(stack') = n + 1 /\ stack'[n + 1] = Call(v)
          /\ \A k \in 1 .. n : stack'[k] = rest[k]
      BY <2>1, <2>3, <2>7, <3>1
    <3>3. /\ color' \in [NodeId -> {"white", "gray", "black"}]
          /\ \A j \in NodeId : color'[j] = IF j = v THEN "gray" ELSE color[j]
      BY <1>1, <2>1, <2>7 DEF ValidatorTypeOK
    <3>4. /\ \A k \in 1 .. n : stack'[k].node = stack[k].node /\ stack'[k].todo \subseteq stack[k].todo
          /\ stack'[n + 1].node = v /\ stack'[n + 1].todo = Successors(v)
          /\ DOMAIN stack' = 1 .. n + 1
      BY <1>3, <2>4, <3>1, <3>2
    <3>5. \A k \in 1 .. n : color[stack[k].node] = "gray"
      BY <1>1, <1>3 DEF ValidatorTypeOK
    <3>6. ValidatorTypeOK'
      <4>1. {stack[k].node : k \in 1 .. n} = {j \in NodeId : color[j] = "gray"}
        BY <1>1, <1>3 DEF ValidatorTypeOK
      <4>2. \A k \in 1 .. n : stack'[k].node \in NodeId /\ color'[stack'[k].node] = "gray"
        BY <3>3, <3>4, <3>5, <4>1
      <4>3. \A j \in NodeId : color'[j] = "gray" => \E k \in 1 .. n + 1 : stack'[k].node = j
        <5>1. \A j \in NodeId : color[j] = "gray" => \E k \in 1 .. n : stack[k].node = j
          BY <4>1
        <5>2. n + 1 \in 1 .. n + 1 /\ \A k \in 1 .. n : k \in 1 .. n + 1
          BY <1>3
        <5>. QED  BY <3>3, <3>4, <5>1, <5>2
      <4>4. color'[v] = "gray" /\ \A k \in 1 .. n + 1 : k \in 1 .. n \/ k = n + 1
        BY <1>3, <3>3
      <4>5. {stack'[k].node : k \in DOMAIN stack'} = {j \in NodeId : color'[j] = "gray"}
        BY <3>4, <4>2, <4>3, <4>4
      <4>. QED  BY <1>1, <2>1, <3>3, <4>5 DEF ValidatorTypeOK
    <3>7. PathInv'
      <4>1. \A j, k \in 1 .. n + 1 : stack'[j].node = stack'[k].node => j = k
        <5>1. \A j, k \in 1 .. n : stack[j].node = stack[k].node => j = k
          BY <1>1 DEF PathInv
        <5>2. \A k \in 1 .. n : stack[k].node # v
          BY <2>7, <3>5
        <5>3. \A k \in 1 .. n + 1 : k \in 1 .. n \/ k = n + 1
          BY <1>3
        <5>. QED  BY <3>4, <5>1, <5>2, <5>3
      <4>2. \A k \in 1 .. n + 1 :
               stack'[k].node \in Ids /\ stack'[k].todo \subseteq Successors(stack'[k].node)
        <5>1. \A k \in 1 .. n : stack[k].node \in Ids /\ stack[k].todo \subseteq Successors(stack[k].node)
          BY <1>1 DEF PathInv
        <5>. QED  BY <1>3, <2>5, <3>4, <5>1
      <4>3. \A k \in 1 .. n : stack'[k + 1].node \in Successors(stack'[k].node)
        <5> SUFFICES ASSUME NEW k \in 1 .. n
                     PROVE  stack'[k + 1].node \in Successors(stack'[k].node)
          OBVIOUS
        <5>1. CASE k < n
          <6>1. k \in 1 .. n - 1 /\ k + 1 \in 1 .. n
            BY <1>3, <5>1
          <6>. QED  BY <1>1, <3>4, <6>1 DEF PathInv
        <5>2. CASE k = n
          BY <1>3, <2>5, <3>4, <5>2
        <5>. QED  BY <1>4, <5>1, <5>2
      <4>. QED  BY <1>2, <1>3, <3>2, <4>1, <4>2, <4>3 DEF PathInv, DfsCall
    <3>8. FollowedInv'
      <4>1. ASSUME NEW k \in 1 .. n + 1, NEW w \in Successors(stack'[k].node) \ stack'[k].todo
            PROVE  color'[w] = "black" \/ (k < n + 1 /\ w = stack'[k + 1].node)
        <5>1. CASE k < n
          <6>1. stack'[k] = stack[k] /\ k \in 1 .. n /\ k + 1 \in 1 .. n /\ k \in 1 .. n - 1
            BY <1>3, <2>3, <3>2, <5>1
          <6>2. color[w] = "black" \/ w = stack[k + 1].node
            BY <1>1, <6>1, <4>1 DEF FollowedInv
          <6>3. w \in NodeId
            BY <1>1, <4>1, WellFormedGraph, NodesAre
          <6>4. color[w] = "black" => color'[w] = "black"
            BY <2>7, <3>3, <6>3
          <6>. QED  BY <1>3, <3>4, <5>1, <6>1, <6>2, <6>4
        <5>2. CASE k = n
          <6>1. w \in Successors(stack[n].node) /\ (w \notin stack[n].todo \/ w = v)
            BY <1>3, <2>2, <2>3, <3>2, <4>1, <5>2
          <6>2. w # v => color[w] = "black"
            BY <1>1, <1>3, <6>1 DEF FollowedInv
          <6>3. w \in NodeId
            BY <1>1, <6>1, WellFormedGraph, NodesAre
          <6>. QED  BY <1>3, <3>3, <3>4, <5>2, <6>2, <6>3
        <5>3. CASE k = n + 1
          BY <3>4, <4>1, <5>3
        <5>. QED  BY <1>4, <5>1, <5>2, <5>3
      <4>2. Len(stack') = n + 1
        BY <3>2
      <4>. QED  BY <1>2, <4>1, <4>2 DEF FollowedInv
    <3>9. BlackInv'
      <4>1. Colored("black")' = Colored("black")
        BY <2>7, <3>3 DEF Colored
      <4>. QED  BY <1>1, <1>2, <4>1 DEF BlackInv
    <3>. QED  BY <1>1, <1>2, <2>1, <2>6, <3>6, <3>7, <3>8, <3>9 DEF ValidatorInv
  <2>8. CASE color[v] # "white"
    <3>1. stack' = rest /\ color' = color
      BY <2>1, <2>8
    <3>2. color[v] = "black"
      BY <1>1, <1>6, <2>8 DEF ValidatorTypeOK
    <3>3. DOMAIN stack' = 1 .. n /\ \A k \in 1 .. n : stack'[k].node = stack[k].node
      BY <1>3, <2>3, <2>4, <3>1
    <3>4. ValidatorTypeOK'
      <4>1. {stack'[k].node : k \in DOMAIN stack'} = {stack[k].node : k \in DOMAIN stack}
        BY <1>3, <3>3
      <4>. QED  BY <1>1, <2>1, <3>1, <4>1 DEF ValidatorTypeOK
    <3>5. PathInv'
      <4>1. \A j, k \in 1 .. n : stack'[j].node = stack'[k].node => j = k
        BY <1>1, <3>3 DEF PathInv
      <4>2. \A k \in 1 .. n :
               stack'[k].node \in Ids /\ stack'[k].todo \subseteq Successors(stack'[k].node)
        BY <1>1, <2>4, <3>1 DEF PathInv
      <4>3. ASSUME NEW k \in 1 .. n - 1 PROVE stack'[k + 1].node \in Successors(stack'[k].node)
        <5>1. k \in 1 .. n /\ k + 1 \in 1 .. n
          BY <1>3
        <5>. QED  BY <1>1, <3>3, <5>1 DEF PathInv
      <4>. QED  BY <1>2, <2>3, <3>1, <4>1, <4>2, <4>3 DEF PathInv, DfsCall
    <3>6. FollowedInv'
      <4>1. ASSUME NEW k \in 1 .. n, NEW w \in Successors(stack'[k].node) \ stack'[k].todo
            PROVE  color'[w] = "black" \/ (k < n /\ w = stack'[k + 1].node)
        <5>1. CASE k < n
          <6>1. stack'[k] = stack[k] /\ k + 1 \in 1 .. n
            BY <1>3, <2>3, <3>1, <5>1
          <6>. QED  BY <1>1, <3>1, <3>3, <4>1, <5>1, <6>1 DEF FollowedInv
        <5>2. CASE k = n
          <6>1. w \in Successors(stack[n].node) /\ (w \notin stack[n].todo \/ w = v)
            BY <1>3, <2>2, <2>3, <3>1, <4>1, <5>2
          <6>2. w # v => color[w] = "black"
            BY <1>1, <1>3, <6>1 DEF FollowedInv
          <6>. QED  BY <3>1, <3>2, <6>2
        <5>. QED  BY <1>4, <5>1, <5>2
      <4>2. Len(stack') = n
        BY <2>3, <3>1
      <4>. QED  BY <1>2, <4>1, <4>2 DEF FollowedInv
    <3>7. BlackInv'
      BY <1>1, <1>2, <3>1 DEF BlackInv, Colored
    <3>. QED  BY <1>1, <1>2, <2>1, <2>6, <3>4, <3>5, <3>6, <3>7 DEF ValidatorInv
  <2>. QED  BY <2>7, <2>8
<1>. QED  BY <1>5, <1>6

\* The node whose call ends has no edge but to black ones, and is not one of
\* them: black nodes stay without a cycle.
LEMMA EndDfsInv ==
  ASSUME ValidatorInv, EndDfs
  PROVE  ValidatorInv'
<1> DEFINE n == Len(stack)
           u == stack[n].node
<1>1. /\ phase = "cycle" /\ stack # << >>
      /\ graph' = graph /\ phase' = phase /\ visited' = visited /\ queue' = queue
      /\ ValidatorTypeOK /\ WellFormed /\ PathInv /\ FollowedInv /\ BlackInv /\ visited = {}
  BY DEF EndDfs, ValidatorInv
<1>2. /\ WellFormed' /\ Ids' = Ids /\ Trigger' = Trigger /\ Acyclic' = Acyclic
      /\ \A i : Successors(i)' = Successors(i)
      /\ \A i, j : LeadsTo(i, j)' = LeadsTo(i, j)
  BY <1>1, SameGraph
<1>3. Last(stack) = stack[n] /\ stack[n] \in DfsCall /\ DOMAIN stack = 1 .. n /\ n \in 1 .. n
  BY <1>1 DEF PathInv, Last
<1>4. n \in Nat \ {0}
  BY <1>1 DEF PathInv
<1>5. /\ stack' \in Seq(DfsCall) /\ Len(stack') = n - 1
      /\ \A k \in 1 .. n - 1 : stack'[k] = stack[k]
  <2>1. stack \in Seq(DfsCall) /\ stack # << >>
    BY <1>1 DEF PathInv
  <2>2. stack' = SubSeq(stack, 1, Len(stack) - 1)
    BY DEF EndDfs, Caller
  <2>. QED  BY <2>1, <2>2, PoppedSequence
<1>6. DOMAIN stack' = 1 .. n - 1
  BY <1>5
<1>7. u \in NodeId /\ stack[n].todo = {} /\ color' = [color EXCEPT ![u] = "black"]
  BY <1>3 DEF EndDfs, DfsCall
<1>8. {stack[k].node : k \in 1 .. n} = {j \in NodeId : color[j] = "gray"}
  BY <1>1, <1>3 DEF ValidatorTypeOK
<1>9. color[u] = "gray"
  BY <1>3, <1>7, <1>8
<1>10. /\ color' \in [NodeId -> {"white", "gray", "black"}]
       /\ \A j \in NodeId : color'[j] = IF j = u THEN "black" ELSE color[j]
  BY <1>1, <1>7 DEF ValidatorTypeOK
<1>11. \A w \in Successors(u) : color[w] = "black" /\ w \in NodeId /\ w # u
  <2>1. \A w \in Successors(u) : color[w] = "black"
    BY <1>1, <1>3, <1>4, <1>7 DEF FollowedInv
  <2>. QED  BY <1>1, <1>9, <2>1, WellFormedGraph, NodesAre
<1> HIDE DEF u
<1>12. ValidatorTypeOK'
  <2>1. \A k \in 1 .. n - 1 : k \in 1 .. n /\ k # n
    BY <1>4
  <2>2. \A k \in 1 .. n : k = n \/ k \in 1 .. n - 1
    BY <1>4
  <2>3. \A k \in 1 .. n - 1 : stack[k].node # u
    BY <1>1, <1>3, <2>1 DEF PathInv, u
  <2>4. \A k \in 1 .. n - 1 : stack'[k].node \in NodeId /\ color'[stack'[k].node] = "gray"
    <3>1. \A k \in 1 .. n - 1 : stack[k].node \in NodeId /\ color[stack[k].node] = "gray"
      BY <1>8, <2>1
    <3>. QED  BY <1>5, <1>10, <2>3, <3>1
  <2>5. ASSUME NEW j \in NodeId, color'[j] = "gray" PROVE \E k \in 1 .. n - 1 : stack'[k].node = j
    <3>1. j # u /\ color[j] = "gray"
      BY <1>10, <2>5
    <3>2. PICK k \in 1 .. n : stack[k].node = j
      BY <1>8, <3>1
    <3>3. k # n
      BY <3>1, <3>2 DEF u
    <3>. QED  BY <1>5, <2>2, <3>2, <3>3
  <2>6. {stack'[k].node : k \in DOMAIN stack'} = {j \in NodeId : color'[j] = "gray"}
    BY <1>6, <2>4, <2>5
  <2>. QED  BY <1>1, <1>10, <2>6 DEF ValidatorTypeOK
<1>13. PathInv'
  <2>1. \A k \in 1 .. n - 1 : k \in 1 .. n
    BY <1>4
  <2>2. \A j, k \in 1 .. n - 1 : stack'[j].node = stack'[k].node => j = k
    BY <1>1, <1>5, <2>1 DEF PathInv
  <2>3. \A k \in 1 .. n - 1 :
           stack'[k].node \in Ids /\ stack'[k].todo \subseteq Successors(stack'[k].node)
    BY <1>1, <1>5, <2>1 DEF PathInv
  <2>4. ASSUME NEW k \in 1 .. n - 1 - 1
        PROVE  stack'[k + 1].node \in Successors(stack'[k].node)
    <3>1. k \in 1 .. n - 1 /\ k + 1 \in 1 .. n - 1
      BY <1>4
    <3>. QED  BY <1>1, <1>5, <3>1 DEF PathInv
  <2>. QED  BY <1>2, <1>5, <2>2, <2>3, <2>4 DEF PathInv, DfsCall
<1>14. FollowedInv'
  <2>1. ASSUME NEW k \in 1 .. n - 1, NEW w \in Successors(stack'[k].node) \ stack'[k].todo
        PROVE  color'[w] = "black" \/ (k < n - 1 /\ w = stack'[k + 1].node)
    <3>1. stack'[k] = stack[k] /\ k \in 1 .. n /\ k < n
      BY <1>4, <1>5
    <3>2. color[w] = "black" \/ w = stack[k + 1].node
      BY <1>1, <2>1, <3>1 DEF FollowedInv
    <3>3. w \in NodeId
      BY <1>1, <2>1, WellFormedGraph, NodesAre
    <3>4. CASE color[w] = "black"
      BY <1>10, <3>3, <3>4
    <3>5. CASE w = stack[k + 1].node
      <4>1. CASE k = n - 1
        <5>1. w = u
          BY <1>4, <3>5, <4>1 DEF u
        <5>. QED  BY <1>10, <3>3, <5>1
      <4>2. CASE k < n - 1
        <5>1. k + 1 \in 1 .. n - 1
          BY <1>4, <4>2
        <5>. QED  BY <1>5, <3>5, <4>2, <5>1
      <4>. QED  BY <1>4, <4>1, <4>2
    <3>. QED  BY <3>2, <3>4, <3>5
  <2>. QED  BY <1>2, <1>5, <2>1 DEF FollowedInv
<1>15. BlackInv'
  <2>1. Colored("black")' = Colored("black") \union {u}
    BY <1>7, <1>10 DEF Colored
  <2>2. \A i \in Colored("black") : Successors(i) \subseteq Colored("black")
    BY <1>1 DEF BlackInv
  <2>3. Successors(u) \subseteq Colored("black") /\ u \notin Colored("black") /\ u \notin Successors(u)
    BY <1>9, <1>11 DEF Colored
  <2>4. ASSUME NEW S \in SUBSET (Colored("black") \union {u}), S # {}
        PROVE  \E i \in S : Successors(i) \cap S = {}
    <3>1. CASE S \ {u} = {}
      <4>1. S = {u}
        BY <2>4, <3>1
      <4>. QED  BY <2>3, <4>1
    <3>2. CASE S \ {u} # {}
      <4>1. S \ {u} \in SUBSET Colored("black")
        BY <2>4
      <4>2. PICK i \in S \ {u} : Successors(i) \cap (S \ {u}) = {}
        BY <1>1, <3>2, <4>1 DEF BlackInv
      <4>3. u \notin Successors(i)
        BY <2>2, <2>3, <4>1, <4>2
      <4>. QED  BY <4>2, <4>3
    <3>. QED  BY <3>1, <3>2
  <2>. QED  BY <1>2, <2>1, <2>2, <2>3, <2>4 DEF BlackInv
<1>16. VerdictRight'
  BY <1>1 DEF VerdictRight
<1>. QED  BY <1>1, <1>2, <1>12, <1>13, <1>14, <1>15, <1>16 DEF ValidatorInv

\* What the search from the trigger visits, it has found by edges.
LEMMA VisitInv ==
  ASSUME ValidatorInv, NEW i \in NodeId, Visit(i)
  PROVE  ValidatorInv'
<1>1. /\ phase = "reach" /\ i \in queue /\ graph' = graph /\ phase' = phase
      /\ color' = color /\ stack' = stack
      /\ visited' = visited \union {i}
      /\ queue' = (queue \ {i}) \union (IF i \in visited THEN {} ELSE Successors(i))
      /\ ValidatorTypeOK /\ WellFormed /\ Acyclic /\ SearchInv
  BY DEF Visit, ValidatorInv
<1>2. /\ WellFormed' /\ Ids' = Ids /\ Trigger' = Trigger /\ Acyclic' = Acyclic
      /\ \A j : Successors(j)' = Successors(j)
      /\ \A j, k : LeadsTo(j, k)' = LeadsTo(j, k)
  BY <1>1, SameGraph
<1>3. Successors(i) \subseteq Ids /\ Ids \subseteq NodeId
  BY <1>1, WellFormedGraph, NodesAre
<1>4. ValidatorTypeOK'
  BY <1>1, <1>3 DEF ValidatorTypeOK
<1>5. visited' \union queue' = visited \union queue \union Successors(i)
  BY <1>1 DEF SearchInv
<1>6. \A j \in Successors(i) : LeadsTo(Trigger, j)
  <2>1. LeadsTo(Trigger, i) /\ i \in Ids
    BY <1>1 DEF SearchInv
  <2>. QED  BY <2>1 DEF LeadsTo
<1>7. SearchInv'
  <2>1. Trigger' \in visited' \union queue' /\ visited' \union queue' \subseteq Ids'
    BY <1>1, <1>2, <1>3, <1>5 DEF SearchInv
  <2>2. \A j \in visited' : Successors(j) \subseteq visited' \union queue'
    BY <1>1, <1>5 DEF SearchInv
  <2>3. \A j \in visited' \union queue' : LeadsTo(Trigger, j)
    BY <1>1, <1>5, <1>6 DEF SearchInv
  <2>. QED  BY <1>2, <2>1, <2>2, <2>3 DEF SearchInv
<1>8. VerdictRight'
  BY <1>1 DEF VerdictRight
<1>. QED  BY <1>1, <1>2, <1>4, <1>7, <1>8 DEF ValidatorInv

LEMMA ConcludeInv ==
  ASSUME ValidatorInv, Conclude
  PROVE  ValidatorInv'
<1>1. /\ phase = "reach" /\ queue = {} /\ graph' = graph
      /\ phase' = IF Ids \subseteq visited THEN "accepted" ELSE "rejected"
      /\ color' = color /\ stack' = stack /\ visited' = visited /\ queue' = queue
      /\ ValidatorTypeOK /\ WellFormed /\ Acyclic /\ SearchInv
  BY DEF Conclude, ValidatorInv
<1>2. /\ WellFormed' /\ Ids' = Ids /\ Trigger' = Trigger /\ Acyclic' = Acyclic
      /\ \A i, j : LeadsTo(i, j)' = LeadsTo(i, j)
  BY <1>1, SameGraph
<1>3. ValidatorTypeOK'
  BY <1>1 DEF ValidatorTypeOK
<1>4. Ids \subseteq visited <=> \A i \in Ids : LeadsTo(Trigger, i)
  <2>1. /\ visited \in SUBSET Ids /\ Trigger \in visited
        /\ \A i \in visited : Successors(i) \subseteq visited
        /\ \A i \in visited : LeadsTo(Trigger, i)
    BY <1>1 DEF SearchInv
  <2>2. ASSUME NEW i \in Ids, LeadsTo(Trigger, i) PROVE i \in visited
    BY <2>1, <2>2 DEF LeadsTo
  <2>. QED  BY <2>1, <2>2
<1>5. VerdictRight'
  BY <1>1, <1>2, <1>4 DEF VerdictRight
<1>. QED  BY <1>1, <1>3, <1>5 DEF ValidatorInv

\* The types, the discipline of the two searches and the verdict are kept by
\* every step.
THEOREM ValidatorInvariant == ValidatorSpec => []ValidatorInv
<1>1. ValidatorInv /\ [ValidatorNext]_validatorVars => ValidatorInv'
  <2> SUFFICES ASSUME ValidatorInv, [ValidatorNext]_validatorVars
               PROVE  ValidatorInv'
    OBVIOUS
  <2>1. ASSUME NEW nodes \in NodeList, NEW edges \in Edges, ValidateGraph(nodes, edges)
        PROVE  ValidatorInv'
    BY <2>1, ValidateGraphInv
  <2>2. CASE CheckNodes
    BY <2>2, CheckNodesInv
  <2>3. CASE StartDfs
    BY <2>3, StartDfsInv
  <2>4. CASE EndDfs
    BY <2>4, EndDfsInv
  <2>5. CASE Conclude
    BY <2>5, ConcludeInv
  <2>6. ASSUME NEW i \in NodeId, FollowEdge(i) PROVE ValidatorInv'
    BY <2>6, FollowEdgeInv
  <2>7. ASSUME NEW i \in NodeId, Visit(i) PROVE ValidatorInv'
    BY <2>7, VisitInv
  <2>8. CASE UNCHANGED validatorVars
    <3>1. graph' = graph /\ phase' = phase /\ color' = color /\ stack' = stack
          /\ visited' = visited /\ queue' = queue
      BY <2>8 DEF validatorVars
    <3>2. /\ WellFormed' = WellFormed /\ Ids' = Ids /\ Trigger' = Trigger /\ Acyclic' = Acyclic
          /\ \A i : Successors(i)' = Successors(i)
          /\ \A i, j : LeadsTo(i, j)' = LeadsTo(i, j)
      BY <3>1, SameGraph
    <3>3. ValidatorTypeOK' /\ (Fresh => Fresh') /\ (PathInv => PathInv') /\ (FollowedInv => FollowedInv')
      BY <3>1, <3>2 DEF ValidatorInv, ValidatorTypeOK, Fresh, PathInv, FollowedInv
    <3>4. (BlackInv => BlackInv') /\ (SearchInv => SearchInv') /\ VerdictRight'
      BY <3>1, <3>2 DEF ValidatorInv, BlackInv, Colored, SearchInv, VerdictRight
    <3>. QED  BY <3>1, <3>2, <3>3, <3>4 DEF ValidatorInv
  <2>. QED  BY <2>1, <2>2, <2>3, <2>4, <2>5, <2>6, <2>7, <2>8 DEF ValidatorNext
<1>. QED  BY <1>1, InitialValidator, PTL DEF ValidatorSpec

\* The validator accepts exactly the well-formed graphs without a cycle in
\* which a path leads from the trigger to every node.
THEOREM VerdictRightHolds == ValidatorSpec => []VerdictRight
<1>1. ValidatorInv => VerdictRight
  BY DEF ValidatorInv
<1>. QED  BY <1>1, ValidatorInvariant, PTL

\* The variables of the validator have their types, and the gray nodes are
\* those of the calls of the search.
THEOREM ValidatorTypeCorrect == ValidatorSpec => []ValidatorTypeOK
<1>1. ValidatorInv => ValidatorTypeOK
  BY DEF ValidatorInv
<1>. QED  BY <1>1, ValidatorInvariant, PTL

--------------------------------------------------------------------------
(* The verdict in terms of paths: LeadsTo and Acyclic, which quantify over  *)
(* sets, say what they should say of the paths of the module Graphs.        *)

Digraphs == INSTANCE Graphs

Digraph == [node |-> Ids, edge |-> graph.edges]

CyclicPath(p) == p \in Digraphs!Path(Digraph) /\ Len(p) > 1 /\ p[1] = p[Len(p)]

VerdictByPaths ==
  phase \in {"accepted", "rejected"} =>
    (phase = "accepted" <=>
       /\ WellFormed
       /\ ~ \E p : CyclicPath(p)
       /\ \A i \in Ids : Digraphs!AreConnectedIn(Trigger, i, Digraph))

\* A path is a nonempty sequence of nodes with an edge from each to the next.
LEMMA PathIs ==
  ASSUME ValidatorTypeOK, NEW p
  PROVE  p \in Digraphs!Path(Digraph) <=>
           /\ p \in Seq(Ids) /\ p # << >>
           /\ \A k \in 1 .. Len(p) - 1 : p[k + 1] \in Successors(p[k])
<1>1. Digraph.node = Ids /\ Digraph.edge = graph.edges
  BY DEF Digraph
<1>2. \A i, j : <<i, j>> \in graph.edges <=> j \in Successors(i)
  BY SuccessorsAre
<1>. QED  BY <1>1, <1>2 DEF Digraphs!Path

\* A node alone is a path.
LEMMA NodeIsPath ==
  ASSUME ValidatorTypeOK, NEW i \in Ids
  PROVE  \E p \in Digraphs!Path(Digraph) : Len(p) = 1 /\ p[1] = i
<1> DEFINE p == <<i>>
<1>1. p \in Seq(Ids) /\ p # << >> /\ Len(p) = 1 /\ p[1] = i
  OBVIOUS
<1> HIDE DEF p
<1>2. \A k \in 1 .. Len(p) - 1 : p[k + 1] \in Successors(p[k])
  BY <1>1
<1>3. p \in Digraphs!Path(Digraph)
  BY <1>1, <1>2, PathIs
<1>. QED  BY <1>1, <1>3

\* A path can be followed along one more edge.
LEMMA LongerPath ==
  ASSUME ValidatorTypeOK, WellFormed, NEW p \in Digraphs!Path(Digraph),
         NEW v \in Successors(p[Len(p)])
  PROVE  \E q \in Digraphs!Path(Digraph) :
           Len(q) = Len(p) + 1 /\ q[1] = p[1] /\ q[Len(q)] = v
<1>1. /\ p \in Seq(Ids) /\ p # << >>
      /\ \A k \in 1 .. Len(p) - 1 : p[k + 1] \in Successors(p[k])
  BY PathIs
<1>2. v \in Ids
  BY WellFormedGraph
<1> DEFINE q == Append(p, v)
<1>3. /\ q \in Seq(Ids) /\ Len(q) = Len(p) + 1 /\ q[Len(p) + 1] = v
      /\ \A k \in 1 .. Len(p) : q[k] = p[k]
  BY <1>1, <1>2, PushedSequence
<1>4. Len(p) \in Nat \ {0}
  BY <1>1
<1> HIDE DEF q
<1>5. ASSUME NEW k \in 1 .. Len(q) - 1 PROVE q[k + 1] \in Successors(q[k])
  <2>1. k \in 1 .. Len(p)
    BY <1>3, <1>4
  <2>2. CASE k = Len(p)
    BY <1>3, <2>1, <2>2
  <2>3. CASE k < Len(p)
    <3>1. k \in 1 .. Len(p) - 1 /\ k + 1 \in 1 .. Len(p)
      BY <1>4, <2>1, <2>3
    <3>. QED  BY <1>1, <1>3, <2>1, <3>1
  <2>. QED  BY <1>4, <2>1, <2>2, <2>3
<1>6. q \in Digraphs!Path(Digraph)
  <2>1. q # << >>
    BY <1>3, <1>4
  <2>. QED  BY <1>3, <1>5, <2>1, PathIs
<1>. QED  BY <1>3, <1>4, <1>6

\* LeadsTo: along a path each node is in a set that no edge leaves; and the
\* nodes that paths lead to are such a set.
LEMMA LeadsToIsPath ==
  ASSUME ValidatorTypeOK, WellFormed, NEW i \in Ids, NEW j \in Ids
  PROVE  LeadsTo(i, j) <=> Digraphs!AreConnectedIn(i, j, Digraph)
<1>1. ASSUME LeadsTo(i, j) PROVE Digraphs!AreConnectedIn(i, j, Digraph)
  <2> DEFINE S == {k \in Ids : Digraphs!AreConnectedIn(i, k, Digraph)}
  <2>1. i \in S
    <3>1. PICK p \in Digraphs!Path(Digraph) : Len(p) = 1 /\ p[1] = i
      BY NodeIsPath
    <3>. QED  BY <3>1 DEF Digraphs!AreConnectedIn
  <2>2. ASSUME NEW k \in S, NEW v \in Successors(k) PROVE v \in S
    <3>1. PICK p \in Digraphs!Path(Digraph) : p[1] = i /\ p[Len(p)] = k
      BY <2>2 DEF Digraphs!AreConnectedIn
    <3>2. v \in Ids
      BY WellFormedGraph
    <3>3. PICK q \in Digraphs!Path(Digraph) : q[1] = p[1] /\ q[Len(q)] = v
      BY <3>1, LongerPath
    <3>. QED  BY <3>1, <3>2, <3>3 DEF Digraphs!AreConnectedIn
  <2>3. S \in SUBSET Ids /\ \A k \in S : Successors(k) \subseteq S
    BY <2>2
  <2> HIDE DEF S
  <2>4. j \in S
    BY <1>1, <2>1, <2>3 DEF LeadsTo
  <2>. QED  BY <2>4 DEF S
<1>2. ASSUME Digraphs!AreConnectedIn(i, j, Digraph) PROVE LeadsTo(i, j)
  <2> SUFFICES ASSUME NEW S \in SUBSET Ids, i \in S, \A k \in S : Successors(k) \subseteq S
               PROVE  j \in S
    BY DEF LeadsTo
  <2>1. PICK p \in Digraphs!Path(Digraph) : p[1] = i /\ p[Len(p)] = j
    BY <1>2 DEF Digraphs!AreConnectedIn
  <2>2. /\ p \in Seq(Ids) /\ Len(p) \in Nat \ {0}
        /\ \A k \in 1 .. Len(p) - 1 : p[k + 1] \in Successors(p[k])
    BY PathIs
  <2> DEFINE T == {k \in 1 .. Len(p) : p[k] \notin S}
  <2>3. SUFFICES ASSUME T # {} PROVE FALSE
    <3>1. \A k \in 1 .. Len(p) : p[k] \in S
      BY <2>3
    <3>. QED  BY <2>1, <2>2, <3>1
  <2>4. T \in SUBSET Nat
    BY <2>2
  <2>5. PICK m \in T : \A k \in T : m <= k
    BY <2>3, <2>4, LeastOf
  <2>6. m \in 1 .. Len(p) /\ p[m] \notin S
    BY <2>5
  <2>7. m # 1
    BY <2>1, <2>6
  <2>8. m - 1 \in 1 .. Len(p) - 1 /\ m - 1 \in 1 .. Len(p)
    BY <2>2, <2>6, <2>7
  <2>9. m - 1 \notin T
    BY <2>4, <2>5, <2>6
  <2>10. p[m - 1] \in S
    BY <2>8, <2>9
  <2>11. p[(m - 1) + 1] \in Successors(p[m - 1]) /\ (m - 1) + 1 = m
    BY <2>2, <2>6, <2>8
  <2>. QED  BY <2>6, <2>10, <2>11
<1>. QED  BY <1>1, <1>2

LEMMA FiniteIds ==
  ASSUME ValidatorTypeOK
  PROVE  IsFiniteSet(Ids)
<1> DEFINE n == Len(graph.nodes)
           f == [k \in 1 .. n |-> graph.nodes[k].id]
<1>1. n \in Nat /\ DOMAIN graph.nodes = 1 .. n
  BY NodesAre
<1>2. f \in Surjection(1 .. n, Ids)
  BY <1>1, NodesAre DEF Surjection
<1>3. IsFiniteSet(1 .. n)
  BY <1>1, FS_Interval
<1>. QED  BY <1>2, <1>3, FS_Surjection

\* Acyclic: of the sets with an edge from each node into the set, take a
\* smallest one; the nodes that paths lead to from one of its nodes are all
\* of it, that node included.
LEMMA AcyclicIsPaths ==
  ASSUME ValidatorTypeOK, WellFormed
  PROVE  Acyclic <=> ~ \E p : CyclicPath(p)
<1>1. ASSUME NEW p, CyclicPath(p) PROVE ~ Acyclic
  <2>1. /\ p \in Seq(Ids) /\ Len(p) \in Nat /\ Len(p) > 1 /\ p[1] = p[Len(p)]
        /\ \A k \in 1 .. Len(p) - 1 : p[k + 1] \in Successors(p[k])
    BY <1>1, PathIs DEF CyclicPath
  <2> DEFINE S == {p[k] : k \in 1 .. Len(p)}
  <2>2. S \in SUBSET Ids /\ S # {}
    BY <2>1
  <2>3. ASSUME NEW k \in 1 .. Len(p) PROVE Successors(p[k]) \cap S # {}
    <3>1. CASE k < Len(p)
      <4>1. k \in 1 .. Len(p) - 1 /\ k + 1 \in 1 .. Len(p)
        BY <2>1, <3>1
      <4>. QED  BY <2>1, <4>1
    <3>2. CASE k = Len(p)
      <4>1. 1 \in 1 .. Len(p) - 1 /\ 1 + 1 \in 1 .. Len(p)
        BY <2>1
      <4>2. p[1 + 1] \in Successors(p[1]) /\ p[1 + 1] \in S /\ p[k] = p[1]
        BY <2>1, <3>2, <4>1
      <4>. QED  BY <4>2
    <3>. QED  BY <2>1, <3>1, <3>2
  <2>4. \A i \in S : Successors(i) \cap S # {}
    BY <2>3
  <2> HIDE DEF S
  <2>. QED  BY <2>2, <2>4 DEF Acyclic
<1>2. ASSUME ~ Acyclic PROVE \E p : CyclicPath(p)
  <2> DEFINE Turning(S) == S # {} /\ \A i \in S : Successors(i) \cap S # {}
             Sizes == {Cardinality(S) : S \in {T \in SUBSET Ids : Turning(T)}}
  <2>1. PICK S \in SUBSET Ids : Turning(S)
    BY <1>2 DEF Acyclic
  <2>2. ASSUME NEW T \in SUBSET Ids PROVE IsFiniteSet(T) /\ Cardinality(T) \in Nat
    BY FiniteIds, FS_Subset, FS_CardinalityType
  <2>3. Sizes \in SUBSET Nat /\ Sizes # {}
    BY <2>1, <2>2
  <2>4. PICK size \in Sizes : \A s \in Sizes : size <= s
    BY <2>3, LeastOf
  <2>5. PICK M \in SUBSET Ids : Turning(M) /\ Cardinality(M) = size
    BY <2>4
  <2>6. PICK x \in M : TRUE
    BY <2>5
  <2> DEFINE R == {y \in M : \E p \in Digraphs!Path(Digraph) : Len(p) > 1 /\ p[1] = x /\ p[Len(p)] = y}
  <2>7. \A p \in Digraphs!Path(Digraph) : Len(p) \in Nat \ {0}
    BY PathIs
  <2>8. R # {}
    <3>1. PICK y \in M : y \in Successors(x)
      BY <2>5
    <3>2. x \in Ids
      OBVIOUS
    <3>3. PICK p \in Digraphs!Path(Digraph) : Len(p) = 1 /\ p[1] = x
      BY <3>2, NodeIsPath
    <3>4. y \in Successors(p[Len(p)]) /\ Len(p) + 1 = 2
      BY <3>1, <3>3
    <3>5. PICK q \in Digraphs!Path(Digraph) : Len(q) = Len(p) + 1 /\ q[1] = p[1] /\ q[Len(q)] = y
      BY <3>3, <3>4, LongerPath
    <3>6. y \in M /\ Len(q) > 1 /\ q[1] = x
      BY <3>1, <3>3, <3>5
    <3>7. y \in R
      BY <3>5, <3>6
    <3>. QED  BY <3>7
  <2>9. ASSUME NEW y \in R PROVE Successors(y) \cap R # {}
    <3>1. PICK p \in Digraphs!Path(Digraph) : Len(p) > 1 /\ p[1] = x /\ p[Len(p)] = y
      BY <2>9
    <3>2. PICK z \in M : z \in Successors(y)
      BY <2>5
    <3>3. PICK q \in Digraphs!Path(Digraph) : Len(q) = Len(p) + 1 /\ q[1] = x /\ q[Len(q)] = z
      BY <3>1, <3>2, LongerPath
    <3>4. z \in R
      BY <2>7, <3>1, <3>3
    <3>. QED  BY <3>2, <3>4
  <2>10. R \in SUBSET M /\ R \in SUBSET Ids /\ Turning(R)
    BY <2>8, <2>9
  <2> HIDE DEF R
  <2>11. size <= Cardinality(R)
    BY <2>4, <2>10
  <2>12. R = M
    <3>1. IsFiniteSet(M) /\ Cardinality(M) \in Nat /\ Cardinality(R) \in Nat
      BY <2>2, <2>10
    <3>2. Cardinality(R) <= Cardinality(M) /\ (Cardinality(R) = Cardinality(M) => R = M)
      BY <2>10, <3>1, FS_Subset
    <3>. QED  BY <2>5, <2>11, <3>1, <3>2
  <2>13. x \in R
    BY <2>6, <2>12
  <2>14. PICK p \in Digraphs!Path(Digraph) : Len(p) > 1 /\ p[1] = x /\ p[Len(p)] = x
    BY <2>13 DEF R
  <2>. QED  BY <2>14 DEF CyclicPath
<1>. QED  BY <1>1, <1>2

\* The validator accepts exactly the well-formed graphs that have no path
\* which returns to its first node and have one from the trigger to every
\* node.
THEOREM VerdictIsAboutPaths == ValidatorSpec => []VerdictByPaths
<1>1. ValidatorInv => VerdictByPaths
  <2> SUFFICES ASSUME ValidatorInv, phase \in {"accepted", "rejected"}
               PROVE  phase = "accepted" <=>
                        /\ WellFormed
                        /\ ~ \E p : CyclicPath(p)
                        /\ \A i \in Ids : Digraphs!AreConnectedIn(Trigger, i, Digraph)
    BY DEF VerdictByPaths
  <2>1. /\ ValidatorTypeOK
        /\ phase = "accepted" <=> WellFormed /\ Acyclic /\ \A i \in Ids : LeadsTo(Trigger, i)
    BY DEF ValidatorInv, VerdictRight
  <2>2. ASSUME WellFormed
        PROVE  /\ Acyclic <=> ~ \E p : CyclicPath(p)
               /\ \A i \in Ids : LeadsTo(Trigger, i) <=> Digraphs!AreConnectedIn(Trigger, i, Digraph)
    BY <2>1, <2>2, WellFormedGraph, LeadsToIsPath, AcyclicIsPaths
  <2>. QED  BY <2>1, <2>2
<1>. QED  BY <1>1, ValidatorInvariant, PTL
============================================================================
