----------------------------- MODULE Templates -----------------------------
(***************************************************************************)
(* The versions of one template name of a workspace (TransactionalService  *)
(* and its repository).  A published version is never edited: an update of *)
(* it clones the next version as a draft, patches that, and publishes it   *)
(* if asked, in separate statements without a transaction.                 *)
(***************************************************************************)
EXTENDS Handlers, Naturals

CONSTANT MaxVersion   \* bound: versions that are tried

ASSUME MaxVersionAssumption == MaxVersion \in Nat \ {0}

Version == 1 .. MaxVersion

VARIABLES
  versions,   \* versions[v], the row of version v
  templateHistory

templateState == <<versions, templateHistory>>
templateVars == <<templateState, pc, local>>

\* content: the request whose text the row has, in a set; a deleted row
\* keeps its number.
Template == [status: {"none", "draft", "published", "deleted"}, content: SUBSET Request]

\* target: the row that the update goes on with; found: the row as it was
\* read; patch, publish: whether the body has any content, and publish.
TemplateLocal ==
  [op: {"create"}, publish: BOOLEAN] \union
  [op: {"update"}, target: Version, found: Template, patch: BOOLEAN, publish: BOOLEAN]

\* wrote[v]: the content that whoever published version v meant;
\* mixed: versions patched while another request was about to publish its
\* own patch of them.
TemplateHistory == [wrote: [Version -> SUBSET Request], mixed: SUBSET Version]

NoTemplate == [status |-> "none", content |-> {}]

TemplateInit ==
  /\ HandlersInit
  /\ versions = [v \in Version |-> NoTemplate]
  /\ templateHistory = [wrote |-> [v \in Version |-> {}], mixed |-> {}]

\* The rows that are not deleted.
Current == {v \in Version : versions[v].status \in {"draft", "published"}}
Latest == IF Current = {} THEN 0 ELSE CHOOSE v \in Current : \A w \in Current : w <= v

\* Row v is stored; if that publishes it, content is what was meant.
Store(v, row, content) ==
  /\ versions' = [versions EXCEPT ![v] = row]
  /\ templateHistory' = IF row.status = "published" THEN [templateHistory EXCEPT !.wrote[v] = content] ELSE templateHistory

Advance(r, l, s) == IF s = "done" THEN Return(r, s) ELSE Go(r, l, s)

--------------------------------------------------------------------------
\* templateNameExists does not see deleted rows.
CreateTemplateCheck(r, publish) ==
  /\ pc[r] = "new"
  /\ Current = {}
  /\ Go(r, [op |-> "create", publish |-> publish], "template.insert")
  /\ UNCHANGED <<versions, templateHistory>>

\* The unique index on (name, version) does.
CreateTemplateInsert(r) ==
  /\ pc[r] = "template.insert"
  /\ IF versions[1].status # "none"
     THEN UNCHANGED <<versions, templateHistory>> /\ Return(r, "failed")
     ELSE /\ Store(1, [status |-> IF local[r].publish THEN "published" ELSE "draft", content |-> {r}], {r})
          /\ Return(r, "done")

\* Where an update goes on after its clone, or without one.
AfterClone(l) == IF l.patch THEN "template.patch" ELSE IF l.publish THEN "template.publish" ELSE "done"

TemplateRead(r, v, patch, publish) ==
  LET l == [op |-> "update", target |-> v, found |-> versions[v], patch |-> patch, publish |-> publish] IN
  /\ pc[r] = "new"
  /\ v \in Current
  /\ Advance(r, l, IF versions[v].status = "published" THEN "template.next" ELSE AfterClone(l))
  /\ UNCHANGED <<versions, templateHistory>>

\* The latest version that is not deleted, plus one.
NextVersion(r) ==
  /\ pc[r] = "template.next"
  /\ Latest < MaxVersion
  /\ Go(r, [local[r] EXCEPT !.target = Latest + 1], "template.clone")
  /\ UNCHANGED <<versions, templateHistory>>

CloneInsert(r) ==
  LET l == local[r] IN
  /\ pc[r] = "template.clone"
  /\ IF versions[l.target].status # "none"
     THEN UNCHANGED <<versions, templateHistory>> /\ Return(r, "failed")
     ELSE /\ Store(l.target, [l.found EXCEPT !.status = "draft"], l.found.content)
          /\ Advance(r, l, AfterClone(l))

\* Mutant of PatchDraft: the UPDATE does not ask for a draft.
PatchDraft_AnyStatus(r) ==
  LET v == local[r].target IN
  /\ pc[r] = "template.patch"
  /\ IF v \notin Current
     THEN UNCHANGED <<versions, templateHistory>> /\ Return(r, "failed")
     ELSE /\ versions' = [versions EXCEPT ![v].content = {r}]
          /\ UNCHANGED templateHistory
          /\ Advance(r, local[r], IF local[r].publish THEN "template.publish" ELSE "done")

PatchDraft(r) ==
  LET v == local[r].target IN
  /\ pc[r] = "template.patch"
  /\ IF versions[v].status # "draft"
     THEN UNCHANGED <<versions, templateHistory>> /\ Return(r, "failed")
     ELSE /\ versions' = [versions EXCEPT ![v].content = {r}]
          /\ templateHistory' = IF \E s \in Request \ {r} :
                             pc[s] = "template.publish" /\ local[s].target = v /\ local[s].patch
                        THEN [templateHistory EXCEPT !.mixed = @ \union {v}]
                        ELSE templateHistory
          /\ Advance(r, local[r], IF local[r].publish THEN "template.publish" ELSE "done")

PublishDraft(r) ==
  LET v == local[r].target IN
  /\ pc[r] = "template.publish"
  /\ IF versions[v].status # "draft"
     THEN UNCHANGED <<versions, templateHistory>> /\ Return(r, "failed")
     ELSE /\ Store(v, [versions[v] EXCEPT !.status = "published"],
                   IF local[r].patch THEN {r} ELSE versions[v].content)
          /\ Return(r, "done")

DeleteTemplate(v) ==
  /\ v \in Current
  /\ versions' = [versions EXCEPT ![v].status = "deleted"]
  /\ UNCHANGED <<templateHistory, pc, local>>

FailTemplate(r) == Stop(r) /\ UNCHANGED <<versions, templateHistory>>

TemplateRequest(r) ==
  \/ \E publish \in BOOLEAN : CreateTemplateCheck(r, publish)
  \/ \E v \in Version, patch, publish \in BOOLEAN : TemplateRead(r, v, patch, publish)
  \/ CreateTemplateInsert(r) \/ NextVersion(r) \/ CloneInsert(r)
  \/ PatchDraft(r) \/ PublishDraft(r)
  \/ FailTemplate(r)

TemplateNext ==
  \/ \E r \in Request : TemplateRequest(r)
  \/ \E v \in Version : DeleteTemplate(v)

TemplateSpec == TemplateInit /\ [][TemplateNext]_templateVars

--------------------------------------------------------------------------
TemplateTypeOK ==
  /\ versions \in [Version -> Template]
  /\ pc \in [Request -> {"new", "template.insert", "template.next", "template.clone",
                         "template.patch", "template.publish", "done", "failed"}]
  /\ local \in [Request -> TemplateLocal \union {Nothing}]
  /\ templateHistory \in TemplateHistory

\* A version that was published has the text that its publisher meant, and
\* keeps it: sends that recorded the version refer to that text for ever.
\* Only an update of the same draft by another request, between the patch
\* and the publish of the first, can come between.
PublishedIsFrozen ==
  \A v \in Version \ templateHistory.mixed :
    templateHistory.wrote[v] # {} => templateHistory.wrote[v] = versions[v].content
==========================================================================
