-------------------------- MODULE MCServicesProofs -------------------------
(***************************************************************************)
(* Proofs about the service modules together, as MCServices composes them  *)
(* for one run.  Of the ten parts one is chosen at first, and what happens *)
(* then is a behaviour of its module's specification, because the others   *)
(* make no step that could change what it reads.  So the theorems of       *)
(* AccountProofs and ServicesProofs, which are about each module by        *)
(* itself, hold of that run.                                               *)
(***************************************************************************)
EXTENDS MCServices, AccountProofs, ServicesProofs

\* The properties that the run of the service modules checks, each of the
\* part that runs.
PartSafe ==
  CASE part = "segments" -> SegmentConverges
    [] part = "validator" -> VerdictRight
    [] part = "workflows" -> RunsWhatIsStored
    [] part = "domains" -> SendingIsOwned
    [] part = "checkout" -> ChargedOnce /\ OneCustomer
    [] part = "accounts" -> LockoutExact /\ OldLinksDead
    [] part = "invites" -> InvitesBounded
    [] part = "templates" -> PublishedIsFrozen
    [] part = "events" -> EventsAccounted
    [] part = "limits" -> PlanLimitHeld

\* A part that is chosen at first runs forever, and its behaviour is one of the
\* specification of its module; a part that is not chosen never runs.
LEMMA SegmentsRun ==
  Spec => \/ [](part = "segments") /\ SegmentSpec
          \/ []~ (part = "segments")
<1>1. Init /\ part = "segments" => SegmentInit
  BY DEF Init
<1>2. part = "segments" /\ [Next]_serviceVars =>
        (part = "segments")' /\ [SegmentNext]_segmentVars
  BY DEF Next, serviceVars, segmentVars
<1>3. ~ (part = "segments") /\ [Next]_serviceVars => (~ (part = "segments"))'
  BY DEF Next, serviceVars
<1>. QED  BY <1>1, <1>2, <1>3, PTL DEF Spec, SegmentSpec

LEMMA ValidatorRuns ==
  Spec => \/ [](part = "validator") /\ ValidatorSpec
          \/ []~ (part = "validator")
<1>1. Init /\ part = "validator" => ValidatorInit
  BY DEF Init
<1>2. part = "validator" /\ [Next]_serviceVars =>
        (part = "validator")' /\ [ValidatorNext]_validatorVars
  BY DEF Next, serviceVars, validatorVars
<1>3. ~ (part = "validator") /\ [Next]_serviceVars => (~ (part = "validator"))'
  BY DEF Next, serviceVars
<1>. QED  BY <1>1, <1>2, <1>3, PTL DEF Spec, ValidatorSpec

LEMMA WorkflowsRun ==
  Spec => \/ [](part = "workflows") /\ WorkflowSpec
          \/ []~ (part = "workflows")
<1>1. Init /\ part = "workflows" => WorkflowInit
  BY DEF Init
<1>2. part = "workflows" /\ [Next]_serviceVars =>
        (part = "workflows")' /\ [WorkflowNext]_workflowVars
  BY DEF Next, serviceVars, workflowVars
<1>3. ~ (part = "workflows") /\ [Next]_serviceVars => (~ (part = "workflows"))'
  BY DEF Next, serviceVars
<1>. QED  BY <1>1, <1>2, <1>3, PTL DEF Spec, WorkflowSpec

LEMMA DomainsRun ==
  Spec => \/ [](part = "domains") /\ DomainSpec
          \/ []~ (part = "domains")
<1>1. Init /\ part = "domains" => DomainInit
  BY DEF Init
<1>2. part = "domains" /\ [Next]_serviceVars =>
        (part = "domains")' /\ [DomainNext]_domainVars
  BY DEF Next, serviceVars, domainVars
<1>3. ~ (part = "domains") /\ [Next]_serviceVars => (~ (part = "domains"))'
  BY DEF Next, serviceVars
<1>. QED  BY <1>1, <1>2, <1>3, PTL DEF Spec, DomainSpec

LEMMA CheckoutRuns ==
  Spec => \/ [](part = "checkout") /\ CheckoutSpec
          \/ []~ (part = "checkout")
<1>1. Init /\ part = "checkout" => CheckoutInit
  BY DEF Init
<1>2. part = "checkout" /\ [Next]_serviceVars =>
        (part = "checkout")' /\ [CheckoutNext]_checkoutVars
  BY DEF Next, serviceVars, checkoutVars
<1>3. ~ (part = "checkout") /\ [Next]_serviceVars => (~ (part = "checkout"))'
  BY DEF Next, serviceVars
<1>. QED  BY <1>1, <1>2, <1>3, PTL DEF Spec, CheckoutSpec

LEMMA AccountsRun ==
  Spec => \/ [](part = "accounts") /\ AccountSpec
          \/ []~ (part = "accounts")
<1>1. Init /\ part = "accounts" => AccountInit
  BY DEF Init
<1>2. part = "accounts" /\ [Next]_serviceVars =>
        (part = "accounts")' /\ [AccountNext]_accountVars
  BY DEF Next, serviceVars, accountVars
<1>3. ~ (part = "accounts") /\ [Next]_serviceVars => (~ (part = "accounts"))'
  BY DEF Next, serviceVars
<1>. QED  BY <1>1, <1>2, <1>3, PTL DEF Spec, AccountSpec

LEMMA InvitesRun ==
  Spec => \/ [](part = "invites") /\ InviteSpec
          \/ []~ (part = "invites")
<1>1. Init /\ part = "invites" => InviteInit
  BY DEF Init
<1>2. part = "invites" /\ [Next]_serviceVars =>
        (part = "invites")' /\ [InviteNext]_inviteVars
  BY DEF Next, serviceVars, inviteVars
<1>3. ~ (part = "invites") /\ [Next]_serviceVars => (~ (part = "invites"))'
  BY DEF Next, serviceVars
<1>. QED  BY <1>1, <1>2, <1>3, PTL DEF Spec, InviteSpec

LEMMA TemplatesRun ==
  Spec => \/ [](part = "templates") /\ TemplateSpec
          \/ []~ (part = "templates")
<1>1. Init /\ part = "templates" => TemplateInit
  BY DEF Init
<1>2. part = "templates" /\ [Next]_serviceVars =>
        (part = "templates")' /\ [TemplateNext]_templateVars
  BY DEF Next, serviceVars, templateVars
<1>3. ~ (part = "templates") /\ [Next]_serviceVars => (~ (part = "templates"))'
  BY DEF Next, serviceVars
<1>. QED  BY <1>1, <1>2, <1>3, PTL DEF Spec, TemplateSpec

LEMMA EventsRun ==
  Spec => \/ [](part = "events") /\ EventSpec
          \/ []~ (part = "events")
<1>1. Init /\ part = "events" => EventInit
  BY DEF Init
<1>2. part = "events" /\ [Next]_serviceVars =>
        (part = "events")' /\ [EventNext]_eventVars
  BY DEF Next, serviceVars, eventVars
<1>3. ~ (part = "events") /\ [Next]_serviceVars => (~ (part = "events"))'
  BY DEF Next, serviceVars
<1>. QED  BY <1>1, <1>2, <1>3, PTL DEF Spec, EventSpec

LEMMA LimitsRun ==
  Spec => \/ [](part = "limits") /\ LimitSpec
          \/ []~ (part = "limits")
<1>1. Init /\ part = "limits" => LimitInit
  BY DEF Init
<1>2. part = "limits" /\ [Next]_serviceVars =>
        (part = "limits")' /\ [LimitNext]_limitVars
  BY DEF Next, serviceVars, limitVars
<1>3. ~ (part = "limits") /\ [Next]_serviceVars => (~ (part = "limits"))'
  BY DEF Next, serviceVars
<1>. QED  BY <1>1, <1>2, <1>3, PTL DEF Spec, LimitSpec

\* One of the parts is chosen.
LEMMA SomePart == Spec => [](part \in Part)
<1>1. Init => part \in Part
  BY DEF Init
<1>2. part \in Part /\ [Next]_serviceVars => (part \in Part)'
  BY DEF Next, serviceVars
<1>. QED  BY <1>1, <1>2, PTL DEF Spec

\* Every variable of the part that runs has its type: the ten modules keep
\* their types when they are composed as the run composes them.
THEOREM ServicesTypeCorrect == Spec => []TypeOK
<1>1. Spec => [](part = "segments" => SegmentTypeOK)
  BY SegmentsRun, SegmentTypeCorrect, PTL
<1>2. Spec => [](part = "validator" => ValidatorTypeOK)
  BY ValidatorRuns, ValidatorTypeCorrect, PTL
<1>3. Spec => [](part = "workflows" => WorkflowTypeOK)
  BY WorkflowsRun, WorkflowTypeCorrect, PTL
<1>4. Spec => [](part = "domains" => DomainTypeOK)
  BY DomainsRun, DomainTypeCorrect, PTL
<1>5. Spec => [](part = "checkout" => CheckoutTypeOK)
  BY CheckoutRuns, CheckoutTypeCorrect, PTL
<1>6. Spec => [](part = "accounts" => AccountTypeOK)
  BY AccountsRun, AccountTypeCorrect, PTL
<1>7. Spec => [](part = "invites" => InviteTypeOK)
  BY InvitesRun, InviteTypeCorrect, PTL
<1>8. Spec => [](part = "templates" => TemplateTypeOK)
  BY TemplatesRun, TemplateTypeCorrect, PTL
<1>9. Spec => [](part = "events" => EventTypeOK)
  BY EventsRun, EventTypeCorrect, PTL
<1>10. Spec => [](part = "limits" => LimitTypeOK)
  BY LimitsRun, LimitTypeCorrect, PTL
<1>11. /\ part \in Part
       /\ part = "segments" => SegmentTypeOK
       /\ part = "validator" => ValidatorTypeOK
       /\ part = "workflows" => WorkflowTypeOK
       /\ part = "domains" => DomainTypeOK
       /\ part = "checkout" => CheckoutTypeOK
       /\ part = "accounts" => AccountTypeOK
       /\ part = "invites" => InviteTypeOK
       /\ part = "templates" => TemplateTypeOK
       /\ part = "events" => EventTypeOK
       /\ part = "limits" => LimitTypeOK
       => TypeOK
  BY DEF Part, TypeOK
<1>. QED  BY <1>1, <1>2, <1>3, <1>4, <1>5, <1>6, <1>7, <1>8, <1>9, <1>10, <1>11, SomePart, PTL

\* The part that runs keeps the properties of its module.
THEOREM ServicesSafe == Spec => []PartSafe
<1>1. Spec => [](part = "segments" => SegmentConverges)
  BY SegmentsRun, SegmentConvergesHolds, PTL
<1>2. Spec => [](part = "validator" => VerdictRight)
  BY ValidatorRuns, VerdictRightHolds, PTL
<1>3. Spec => [](part = "workflows" => RunsWhatIsStored)
  BY WorkflowsRun, RunsWhatIsStoredHolds, PTL
<1>4. Spec => [](part = "domains" => SendingIsOwned)
  BY DomainsRun, SendingIsOwnedHolds, PTL
<1>5. Spec => [](part = "checkout" => (ChargedOnce /\ OneCustomer))
  BY CheckoutRuns, ChargedOnceHolds, OneCustomerHolds, PTL
<1>6. Spec => [](part = "accounts" => (LockoutExact /\ OldLinksDead))
  BY AccountsRun, LockoutExactHolds, OldLinksDeadHolds, PTL
<1>7. Spec => [](part = "invites" => InvitesBounded)
  BY InvitesRun, InvitesBoundedHolds, PTL
<1>8. Spec => [](part = "templates" => PublishedIsFrozen)
  BY TemplatesRun, PublishedIsFrozenHolds, PTL
<1>9. Spec => [](part = "events" => EventsAccounted)
  BY EventsRun, EventsAccountedHolds, PTL
<1>10. Spec => [](part = "limits" => PlanLimitHeld)
  BY LimitsRun, PlanLimitHolds, PTL
<1>11. /\ part \in Part
       /\ part = "segments" => SegmentConverges
       /\ part = "validator" => VerdictRight
       /\ part = "workflows" => RunsWhatIsStored
       /\ part = "domains" => SendingIsOwned
       /\ part = "checkout" => (ChargedOnce /\ OneCustomer)
       /\ part = "accounts" => (LockoutExact /\ OldLinksDead)
       /\ part = "invites" => InvitesBounded
       /\ part = "templates" => PublishedIsFrozen
       /\ part = "events" => EventsAccounted
       /\ part = "limits" => PlanLimitHeld
       => PartSafe
  BY DEF Part, PartSafe
<1>. QED  BY <1>1, <1>2, <1>3, <1>4, <1>5, <1>6, <1>7, <1>8, <1>9, <1>10, <1>11, SomePart, PTL
============================================================================
