----------------------------- MODULE MCServices ----------------------------
(***************************************************************************)
(* The service modules for TLC.  They keep disjoint rows and never call    *)
(* each other, so that each is explored from the common initial state by   *)
(* itself: part is the one whose requests are made in a behaviour.         *)
(***************************************************************************)
EXTENDS
  Segments, GraphValidator, Workflows, Domains, Checkout, Accounts, Invites,
  Templates, Events, PlanLimits, TLC

CONSTANTS k1, k2   \* write keys

VARIABLE part

serviceVars ==
  <<part, segmentState, validatorVars, workflowState, domainState, checkoutState,
    accountState, inviteState, templateState, eventState, limitState, pc, local>>

Part == {"segments", "validator", "workflows", "domains", "checkout", "accounts",
         "invites", "templates", "events", "limits"}

\* Values of the constants.
\* A condition that selects nobody, an empty group, one of each kind of rule.
nobody == [kind |-> "set", matches |-> {}]
dropped == [kind |-> "dropped"]
throws == [kind |-> "throws"]
emptyGroup == [operator |-> "AND", rules |-> <<dropped>>]
MCFilter ==
  {[operator |-> "OR", rules |-> <<nobody, dropped, emptyGroup>>],
   [operator |-> "AND", rules |-> <<nobody, throws>>]}
MCRule == MCFilter \union {nobody, dropped, throws, emptyGroup}

Node(i, t) == [id |-> i, type |-> t, configured |-> TRUE]
MCNodeList ==
  {<< >>,
   <<Node(1, "trigger"), Node(2, "email"), Node(3, "end")>>,
   <<Node(3, "end"), Node(1, "trigger"), Node(2, "end")>>,
   <<Node(1, "trigger"), Node(2, "delay")>>,
   <<Node(1, "trigger"), Node(2, "trigger"), Node(3, "end")>>,
   <<Node(1, "trigger"), Node(1, "end")>>,
   <<Node(1, "trigger"), Node(2, "sms"), Node(3, "end")>>,
   <<Node(1, "trigger"), [Node(2, "email") EXCEPT !.configured = FALSE], Node(3, "end")>>,
   <<Node(2, "end"), Node(1, "trigger")>>}

MCRateLimit == k1 :> 1 @@ k2 :> 2
MCResourceLimit == [k \in Resource |-> 1]

\* Bound: beside its creation, a segment sees two requests.
MaxRequests(p) == IF p = "segments" THEN 2 ELSE Cardinality(Request)

Symmetry == Permutations(Request)

Init ==
  /\ part \in Part
  /\ SegmentInit /\ ValidatorInit /\ WorkflowInit /\ DomainInit /\ CheckoutInit
  /\ AccountInit /\ InviteInit /\ TemplateInit /\ EventInit /\ LimitInit

Next ==
  /\ UNCHANGED part
  /\ IF part = "segments" THEN SegmentNext ELSE UNCHANGED segmentState
  /\ IF part = "validator" THEN ValidatorNext /\ UNCHANGED <<pc, local>> ELSE UNCHANGED validatorVars
  /\ IF part = "workflows" THEN WorkflowNext ELSE UNCHANGED workflowState
  /\ IF part = "domains" THEN DomainNext ELSE UNCHANGED domainState
  /\ IF part = "checkout" THEN CheckoutNext ELSE UNCHANGED checkoutState
  /\ IF part = "accounts" THEN AccountNext ELSE UNCHANGED accountState
  /\ IF part = "invites" THEN InviteNext ELSE UNCHANGED inviteState
  /\ IF part = "templates" THEN TemplateNext ELSE UNCHANGED templateState
  /\ IF part = "events" THEN EventNext ELSE UNCHANGED eventState
  /\ IF part = "limits" THEN LimitNext ELSE UNCHANGED limitState
  /\ Cardinality({r \in Request : pc'[r] # "new"}) <= MaxRequests(part)

Spec == Init /\ [][Next]_serviceVars

\* Every variable of the part that runs, its requests' program counters and
\* local values included, has its type.
TypeOK ==
  CASE part = "segments" -> SegmentTypeOK
    [] part = "validator" -> ValidatorTypeOK
    [] part = "workflows" -> WorkflowTypeOK
    [] part = "domains" -> DomainTypeOK
    [] part = "checkout" -> CheckoutTypeOK
    [] part = "accounts" -> AccountTypeOK
    [] part = "invites" -> InviteTypeOK
    [] part = "templates" -> TemplateTypeOK
    [] part = "events" -> EventTypeOK
    [] part = "limits" -> LimitTypeOK
==========================================================================
