---------------------------- MODULE OrdersProofs ----------------------------
(***************************************************************************)
(* Theorems about Orders, for any inventory, roster, forms and file tree.  *)
(***************************************************************************)
EXTENDS Orders, FiniteSetTheorems, WellFoundedInduction, TLAPS

(***************************************************************************)
(* The briefing binds.  What is on the desk passed its gates, and in the    *)
(* interface its provider is what the configured address still means until  *)
(* the inventory is edited.  What is in the field passed them again.        *)
(***************************************************************************)
Gated(order, p) ==
  p # NoProvider /\ ~CapabilityViolation(order, p.syndicate, p.channel, config.egress)
Configured == GetProvider(inventory, DefaultAddress[1], DefaultAddress[2])

DeskInv == desk # Clear =>
  /\ desk = [stage |-> "briefed", order |-> desk.order, provider |-> desk.provider,
             profiles |-> desk.profiles, edited |-> desk.edited, form |-> desk.form,
             from |-> desk.from, taken |-> desk.taken]
  /\ desk.edited \in BOOLEAN
  /\ Gated(desk.order, desk.provider)
  /\ entry = "cli" => ~ModalityViolation(desk.order, config.modality)
  /\ entry = "tui" => desk.edited = TRUE \/ desk.provider \in Configured

FieldShape == field # Clear =>
  /\ field = [stage |-> field.stage, brief |-> field.brief, provider |-> field.provider,
              seen |-> field.seen, prompts |-> field.prompts, last |-> field.last]
  /\ DOMAIN field.prompts = Agents

FieldGated == field.stage = "running" => Gated(field.brief.order, field.provider)

DeskTypes ==
  /\ entry \in {"cli", "tui"}
  /\ entry = "tui" => errand = Fresh
  /\ inventory \in [Syndicate -> Records]

\* An address means one channel of a record: no two are flagged default, and
\* none share a slug.
OneChannel ==
  \A s \in Records : \A c, d \in AddressedChannels(s, DefaultAddress[2]) : c = d

LEMMA OneProvider ==
  ASSUME OneChannel, DeskTypes
  PROVE  \A p, q \in Configured : p = q
<1>1. inventory[DefaultAddress[1]] \in Records
  BY OrdersAssumption DEF DeskTypes
<1>2. QED
  BY <1>1 DEF Configured, GetProvider, OneChannel

LEMMA DeskInit == Init => DeskTypes /\ DeskInv /\ FieldShape /\ FieldGated
  BY OrdersAssumption DEF Init, DeskTypes, DeskInv, FieldShape, FieldGated, Clear

\* A refusal at the desk leaves it clear.
LEMMA DeskTakes ==
  ASSUME DeskTypes, NEW form \in Forms, NEW address \in Addresses, TakeOrder(form, address)
  PROVE  DeskInv' /\ field' = field /\ entry' = entry /\ inventory' = inventory /\ config' = config
<1>1. UNCHANGED <<entry, config, inventory, field>>
  BY DEF TakeOrder
<1>2. PICK p \in ProvidersFor(address) \ {NoProvider}, draft \in Hires :
        LET crew    == CrewFor(form, draft)
            order   == Order(form, crew)
            brief   == BuildBriefing(order)
        IN  desk' = IF RefusedAtDesk(order, p) THEN Clear
                    ELSE [stage |-> "briefed", order |-> order, provider |-> p,
                          profiles |-> brief.profiles, edited |-> FALSE,
                          form |-> form, from |-> roster, taken |-> booked]
  BY DEF TakeOrder
<1>0. PICK order, profiles : order = Order(form, CrewFor(form, draft)) /\ profiles = BuildBriefing(order).profiles
  OBVIOUS
<1>3. /\ RefusedAtDesk(order, p) => desk' = Clear
      /\ ~RefusedAtDesk(order, p) =>
           desk' = [stage |-> "briefed", order |-> order, provider |-> p,
                    profiles |-> profiles, edited |-> FALSE,
                    form |-> form, from |-> roster, taken |-> booked]
  BY <1>0, <1>2
<1>4. CASE RefusedAtDesk(order, p)
  BY <1>1, <1>3, <1>4 DEF DeskInv
<1>5. CASE ~RefusedAtDesk(order, p)
  <2>1. entry = "tui" => p \in Configured
    <3>1. entry = "tui" => address = DefaultAddress
      BY DEF TakeOrder, MayOrder
    <3>2. QED
      BY <3>1 DEF DeskTypes, ProvidersFor, Fresh, Configured
  <2>2. Gated(order, p) /\ (entry = "cli" => ~ModalityViolation(order, config.modality))
    BY <1>2, <1>5 DEF RefusedAtDesk, Gated
  <2>3. Gated(order, p)' /\ Configured' = Configured
    BY <1>1, <2>2 DEF Gated, Configured
  <2>4. /\ desk' = [stage |-> "briefed", order |-> desk'.order, provider |-> desk'.provider,
                   profiles |-> desk'.profiles, edited |-> desk'.edited, form |-> desk'.form,
                   from |-> desk'.from, taken |-> desk'.taken]
        /\ desk'.order = order /\ desk'.provider = p /\ desk'.edited = FALSE
    BY <1>3, <1>5
  <2>5. QED
    BY <1>1, <2>1, <2>2, <2>3, <2>4 DEF DeskInv, Gated
<1>6. QED
  BY <1>1, <1>4, <1>5

LEMMA DeskTypesStep == DeskTypes /\ [Next]_vars => DeskTypes'
<1> SUFFICES ASSUME DeskTypes, [Next]_vars PROVE DeskTypes'
  OBVIOUS
<1>1. entry' = entry
  BY DEF Next, TakeOrder, Decline, Launch, StartTask, CallTool, Land, OpenProfile, Promote, Rebook,
         EditSyndicate, vars
<1>2. inventory' \in [Syndicate -> Records]
  <2>1. inventory' = inventory \/ \E s \in Syndicate, r \in Records : inventory' = [inventory EXCEPT ![s] = r]
    BY DEF Next, TakeOrder, Decline, Launch, StartTask, CallTool, Land, OpenProfile, Promote, Rebook,
           EditSyndicate, vars
  <2>2. QED
    BY <2>1 DEF DeskTypes
<1>3. entry = "tui" => errand' = errand
  BY DEF Next, TakeOrder, Decline, Launch, StartTask, CallTool, Land, OpenProfile, Promote, Rebook,
         EditSyndicate, vars, hq, DeskTypes
<1>4. QED
  BY <1>1, <1>2, <1>3 DEF DeskTypes

\* What an edit of the inventory leaves of the desk.
LEMMA DeskEdited ==
  ASSUME DeskTypes, DeskInv, NEW s \in Syndicate, NEW r \in Records, EditSyndicate(s, r)
  PROVE  DeskInv' /\ field' = field /\ entry' = entry /\ config' = config
<1>1. UNCHANGED <<entry, config, field>>
  BY DEF EditSyndicate
<1>2. CASE desk = Clear
  BY <1>2 DEF EditSyndicate, DeskInv
<1>3. CASE desk # Clear
  <2>1. desk' = [desk EXCEPT !.edited = TRUE]
    BY <1>3 DEF EditSyndicate
  <2>2. desk' = [stage |-> "briefed", order |-> desk.order, provider |-> desk.provider,
                 profiles |-> desk.profiles, edited |-> TRUE, form |-> desk.form,
                 from |-> desk.from, taken |-> desk.taken]
    <3>1. desk = [stage |-> "briefed", order |-> desk.order, provider |-> desk.provider,
                  profiles |-> desk.profiles, edited |-> desk.edited, form |-> desk.form,
                  from |-> desk.from, taken |-> desk.taken]
      BY <1>3 DEF DeskInv
    <3>2. PICK o, p, q, e, x, y, z :
            desk = [stage |-> "briefed", order |-> o, provider |-> p, profiles |-> q, edited |-> e,
                    form |-> x, from |-> y, taken |-> z]
      BY <3>1
    <3>3. desk' = [stage |-> "briefed", order |-> o, provider |-> p, profiles |-> q, edited |-> TRUE,
                   form |-> x, from |-> y, taken |-> z]
      BY <2>1, <3>2
    <3>4. QED
      BY <3>2, <3>3
  <2>3. QED
    BY <1>1, <1>3, <2>2 DEF DeskInv, Gated
<1>4. QED
  BY <1>1, <1>2, <1>3

LEMMA DeskStep == DeskTypes /\ DeskInv /\ [Next]_vars => DeskInv'
<1> SUFFICES ASSUME DeskTypes, DeskInv, [Next]_vars PROVE DeskInv'
  OBVIOUS
<1>1. ASSUME UNCHANGED <<desk, entry, config, inventory>> PROVE DeskInv'
  BY <1>1 DEF DeskInv, Gated, Configured
<1>2. ASSUME desk' = Clear PROVE DeskInv'
  BY <1>2 DEF DeskInv
<1>3. CASE Decline \/ Launch
  BY <1>2, <1>3 DEF Decline, Launch
<1>4. CASE UNCHANGED vars \/ Land \/ \E a \in Agents :
             \/ StartTask(a) \/ OpenProfile(a) \/ Rebook(a) \/ \E r \in Ranks : Promote(a, r)
             \/ \E name \in Names, path \in Paths, wellFormed \in BOOLEAN :
                  CallTool(a, name, path, wellFormed)
  BY <1>1, <1>4 DEF vars, Land, StartTask, OpenProfile, Rebook, Promote, CallTool
<1>5. QED
  BY <1>3, <1>4, DeskTakes, DeskEdited DEF Next

(* The field. *)
\* What the field may become while a mission runs in it.
LEMMA FieldSteps ==
  ASSUME [Next]_vars
  PROVE  \/ field' = field \/ field' = Clear \/ Launch
         \/ /\ field.stage = "running"
            /\ \/ \E a \in Agents : StartTask(a)
               \/ \E a \in Agents, name \in Names, path \in Paths, wellFormed \in BOOLEAN :
                    CallTool(a, name, path, wellFormed)
<1>1. ASSUME NEW a \in Agents, StartTask(a) PROVE field.stage = "running"
  BY <1>1 DEF StartTask
<1>2. ASSUME NEW a \in Agents, NEW name \in Names, NEW path \in Paths, NEW wellFormed \in BOOLEAN,
             CallTool(a, name, path, wellFormed)
      PROVE  field.stage = "running"
  BY <1>2 DEF CallTool
<1>3. CASE UNCHANGED vars \/ Land \/ Decline
  BY <1>3 DEF vars, Land, Decline
<1>4. CASE \E form \in Forms, address \in Addresses : TakeOrder(form, address)
  BY <1>4 DEF TakeOrder
<1>5. CASE (\E s \in Syndicate, r \in Records : EditSyndicate(s, r)) \/ \E a \in Agents :
             OpenProfile(a) \/ Rebook(a) \/ \E r \in Ranks : Promote(a, r)
  BY <1>5 DEF OpenProfile, Rebook, Promote, EditSyndicate
<1>6. QED
  BY <1>1, <1>2, <1>3, <1>4, <1>5 DEF Next

\* A task that starts and a call change what the mission is through, not what it is.
LEMMA FieldWorks ==
  ASSUME FieldShape, field.stage = "running",
         \/ \E a \in Agents : StartTask(a)
         \/ \E a \in Agents, name \in Names, path \in Paths, wellFormed \in BOOLEAN :
              CallTool(a, name, path, wellFormed)
  PROVE  /\ field' # Clear /\ field'.stage = "running" /\ field'.brief = field.brief
         /\ field'.provider = field.provider /\ FieldShape'
<1>1. field # Clear
  BY DEF Clear
<1>2. field = [stage |-> "running", brief |-> field.brief, provider |-> field.provider,
               seen |-> field.seen, prompts |-> field.prompts, last |-> field.last]
  BY <1>1 DEF FieldShape
<1>3. CASE \E a \in Agents : StartTask(a)
  <2>0. PICK a \in Agents : \E p : field' = [field EXCEPT !.prompts[a] = p]
    BY <1>3 DEF StartTask
  <2>1. PICK p : field' = [field EXCEPT !.prompts[a] = p]
    BY <2>0
  <2> DEFINE q == [field.prompts EXCEPT ![a] = p]
  <2>2. DOMAIN q = Agents
    BY <1>1 DEF FieldShape
  <2> HIDE DEF q
  <2>3. field' = [stage |-> "running", brief |-> field.brief, provider |-> field.provider,
                  seen |-> field.seen, prompts |-> q, last |-> field.last]
    BY <1>2, <2>1 DEF q
  <2>4. QED
    BY <2>2, <2>3 DEF FieldShape, Clear
<1>4. CASE \E a \in Agents, name \in Names, path \in Paths, wellFormed \in BOOLEAN :
             CallTool(a, name, path, wellFormed)
  <2>1. PICK l : field' = [field EXCEPT !.last = l]
    BY <1>4 DEF CallTool
  <2>2. field' = [stage |-> "running", brief |-> field.brief, provider |-> field.provider,
                  seen |-> field.seen, prompts |-> field.prompts, last |-> l]
    BY <1>2, <2>1
  <2>3. QED
    BY <1>1, <2>2 DEF FieldShape, Clear
<1>5. QED
  BY <1>3, <1>4

\* The mission that is launched.
LEMMA FieldLaunched ==
  ASSUME Launch
  PROVE  /\ FieldShape' /\ field' # Clear /\ field'.brief = desk /\ field'.last.outcome = "none"
         /\ field'.provider \in Serving
         /\ field'.stage = "running" => ~RefusedInField(desk.order, field'.provider)
         /\ field'.stage = "refused" => RefusedInField(desk.order, field'.provider)
         /\ UNCHANGED <<entry, config, inventory>> /\ desk # Clear
<1>1. UNCHANGED <<entry, config, inventory>> /\ desk # Clear
  BY DEF Launch, Clear
<1>2. PICK p \in Serving, ready \in BOOLEAN :
        field' = [stage  |-> IF RefusedInField(desk.order, p) THEN "refused"
                             ELSE IF ready THEN "running" ELSE "failed",
                  brief  |-> desk, provider |-> p, seen |-> rank,
                  prompts |-> [a \in Agents |-> NoProfile],
                  last   |-> [outcome |-> "none"]]
  BY DEF Launch
<1>3. QED
  BY <1>1, <1>2 DEF FieldShape, Clear

\* The field stays as it was launched, and gated.
LEMMA ShapeStep ==
  ASSUME FieldShape, FieldGated, [Next]_vars
  PROVE  FieldShape' /\ FieldGated'
<1>1. config' = config
  BY DEF Next, TakeOrder, Decline, Launch, StartTask, CallTool, Land, OpenProfile, Promote, Rebook,
         EditSyndicate, vars
<1>2. CASE field' = field
  BY <1>1, <1>2 DEF FieldShape, FieldGated, Gated
<1>3. CASE field' = Clear
  BY <1>3 DEF FieldShape, FieldGated, Clear
<1>4. CASE field.stage = "running" /\
           \/ \E a \in Agents : StartTask(a)
           \/ \E a \in Agents, name \in Names, path \in Paths, wellFormed \in BOOLEAN :
                CallTool(a, name, path, wellFormed)
  BY <1>1, <1>4, FieldWorks DEF FieldGated, Gated
<1>5. CASE Launch
  BY <1>1, <1>5, FieldLaunched DEF FieldGated, Gated, RefusedInField
<1>6. QED
  BY <1>2, <1>3, <1>4, <1>5, FieldSteps

LEMMA BindStep ==
  ASSUME OneChannel, DeskTypes, DeskInv, FieldShape, FieldGated, BriefingBinds, [Next]_vars
  PROVE  BriefingBinds'
<1>1. config' = config /\ entry' = entry
  BY DEF Next, TakeOrder, Decline, Launch, StartTask, CallTool, Land, OpenProfile, Promote, Rebook,
         EditSyndicate, vars
<1>2. CASE field' = field
  BY <1>1, <1>2 DEF BriefingBinds
<1>3. CASE field' = Clear
  BY <1>3 DEF BriefingBinds, Clear
<1>4. CASE field.stage = "running" /\
           \/ \E a \in Agents : StartTask(a)
           \/ \E a \in Agents, name \in Names, path \in Paths, wellFormed \in BOOLEAN :
                CallTool(a, name, path, wellFormed)
  BY <1>1, <1>4, FieldWorks DEF BriefingBinds
<1>5. CASE Launch
  <2> DEFINE p == field'.provider
  <2>1. /\ field'.brief = desk /\ p \in Serving /\ desk # Clear
        /\ field'.stage = "running" => ~RefusedInField(desk.order, p)
        /\ field'.stage = "refused" => RefusedInField(desk.order, p)
    BY <1>5, FieldLaunched
  <2>2. entry = "cli" => p = desk.provider
    BY <2>1 DEF Serving
  <2>3. entry = "tui" /\ desk.edited # TRUE => p = desk.provider
    BY <2>1, OneProvider DEF Serving, DeskInv, Configured
  <2>4. p = desk.provider => (RefusedInField(desk.order, p)
                                => entry = "tui" /\ ModalityViolation(desk.order, config.modality))
    BY <2>1 DEF DeskInv, Gated, RefusedInField, DeskTypes
  <2>5. QED
    BY <1>1, <2>1, <2>2, <2>3, <2>4 DEF BriefingBinds, DeskTypes, DeskInv
<1>6. QED
  BY <1>2, <1>3, <1>4, <1>5, FieldSteps

LEMMA GatesHeld == Spec => [](DeskTypes /\ DeskInv)
  BY DeskInit, DeskTypesStep, DeskStep, PTL DEF Spec

\* The briefing binds, whatever is edited and composed meanwhile: what runs is
\* what the operator was shown, and a confirmed order is refused late only in
\* the interface, for an edit of the inventory or over the posture.
THEOREM BriefingBindsHolds == ASSUME OneChannel PROVE Spec => []BriefingBinds
<1>1. Init => FieldShape /\ FieldGated /\ BriefingBinds
  BY DeskInit DEF Init, BriefingBinds, Clear
<1>2. DeskTypes /\ DeskInv /\ FieldShape /\ FieldGated /\ BriefingBinds /\ [Next]_vars
        => (FieldShape /\ FieldGated /\ BriefingBinds)'
  BY BindStep, ShapeStep
<1>3. QED
  BY <1>1, <1>2, GatesHeld, PTL DEF Spec

-----------------------------------------------------------------------------
(***************************************************************************)
(* Calls.  An entry under one that is inside the root is inside it, so what *)
(* a handler shows is; and a channel that passed the gate has the           *)
(* capabilities of every function of the order.                             *)
(***************************************************************************)
LEMMA AncestorsClimb ==
  /\ \A e \in Entries : e \in Ancestors[e] /\ Parent[e] \in Ancestors[e]
  /\ \A e, f, g \in Entries : f \in Ancestors[e] /\ g \in Ancestors[f] => g \in Ancestors[e]
<1>1. \A e \in Entries : Ancestors[e] =
        {x \in Entries : \A S \in SUBSET Entries : e \in S /\ Rooted(S) => x \in S}
  BY DEF Ancestors
<1>2. \A e \in Entries : e \in Ancestors[e] /\ Parent[e] \in Ancestors[e]
  <2> SUFFICES ASSUME NEW e \in Entries PROVE e \in Ancestors[e] /\ Parent[e] \in Ancestors[e]
    OBVIOUS
  <2>1. Parent[e] \in Entries
    BY TreeAssumption
  <2>2. \A S \in SUBSET Entries : e \in S /\ Rooted(S) => Parent[e] \in S
    BY DEF Rooted
  <2>3. QED
    BY <1>1, <2>1, <2>2
<1>3. \A e, f, g \in Entries : f \in Ancestors[e] /\ g \in Ancestors[f] => g \in Ancestors[e]
  BY <1>1
<1>4. QED
  BY <1>2, <1>3

LEMMA InsideBelow ==
  ASSUME NEW d \in Entries, NEW e \in Entries, Inside(d), d \in Ancestors[e]
  PROVE  Inside(e)
  BY TreeAssumption, AncestorsClimb DEF Inside

\* Whatever function is called, its result shows what is inside.
LEMMA ShowsInside ==
  ASSUME NEW name \in Handlers, NEW path \in Paths, Admissible(path),
         NEW r \in Handled(name, path), r.outcome = "ok", NEW x \in r.shows
  PROVE  Inside(IF name = "LS" THEN x ELSE Real(x))
<1> DEFINE e == Resolve(path)
<1>1. e # Nowhere => e \in Entries /\ Inside(e)
  <2>1. Inside(Root)
    BY TreeAssumption, AncestorsClimb DEF Inside
  <2>2. path \in Entries => Real(path) \in Entries
    BY TreeAssumption DEF Real
  <2>3. path = Nowhere => Real(path) = Nowhere
    BY TreeAssumption DEF Real
  <2>4. QED
    BY <2>1, <2>2, <2>3, TreeAssumption, OrdersAssumption DEF Resolve, Admissible
<1> HIDE DEF e
<1>2. Failed.outcome # "ok" /\ \A S : Ok(S).shows = S
  BY DEF Failed, Ok
<1>3. e # Nowhere /\ Kind[e] = "file" => Inside(Real(e))
  BY <1>1 DEF Real
<1>4. e # Nowhere => \A f \in Walk(e) : Inside(Real(f))
  <2> SUFFICES ASSUME e # Nowhere, NEW f \in Walk(e) PROVE Inside(Real(f))
    OBVIOUS
  <2>1. f \in Entries /\ e \in Ancestors[f] /\ (Kind[f] = "link" => Inside(Real(f)))
    BY DEF Walk
  <2>2. QED
    BY <1>1, <2>1, InsideBelow DEF Real
<1>5. CASE name = "Read"
  <2>1. r \in FnRead(path)
    BY <1>5 DEF Handled
  <2>2. QED
    BY <1>2, <1>3, <1>5, <2>1 DEF FnRead, e
<1>6. CASE name = "LS"
  <2>1. r \in FnLs(path)
    BY <1>6 DEF Handled
  <2>2. e # Nowhere /\ x \in Children(e)
    BY <1>2, <2>1 DEF FnLs, e
  <2>3. x \in Entries /\ e \in Ancestors[x]
    BY <2>2, AncestorsClimb DEF Children
  <2>4. QED
    BY <1>1, <1>6, <2>2, <2>3, InsideBelow
<1>7. CASE name = "Glob"
  <2>1. r \in FnGlob(path)
    BY <1>7 DEF Handled
  <2>2. e # Nowhere /\ x \in Walk(e)
    BY <1>2, <2>1 DEF FnGlob, MatcherReplies, e
  <2>3. QED
    BY <1>4, <1>7, <2>2
<1>8. CASE name = "Grep"
  <2>1. r \in FnGrep(path)
    BY <1>8 DEF Handled
  <2>2. /\ e # Nowhere
        /\ x \in Walk(e) \/ (Kind[e] = "file" /\ x = e)
    BY <1>2, <2>1 DEF FnGrep, MatcherReplies, Searchable, e
  <2>3. QED
    BY <1>3, <1>4, <1>8, <2>2
<1>9. QED
  BY <1>5, <1>6, <1>7, <1>8 DEF Handlers

\* A function of an order needs only what the order requires, and a channel
\* that may serve the order has it.
LEMMA CapabilitiesHeld ==
  ASSUME NEW order, NEW s, NEW ch, NEW policy, ~CapabilityViolation(order, s, ch, policy),
         NEW name \in order.tools
  PROVE  CapabilityOfTool(name) \subseteq ch.capabilities \intersect RequiredCapabilities(order)
<1> SUFFICES ASSUME NEW c \in CapabilityOfTool(name)
             PROVE  c \in ch.capabilities /\ c \in RequiredCapabilities(order)
  OBVIOUS
<1>1. c \in RequiredCapabilities(order)
  BY DEF CapabilityOfTool, RequiredCapabilities, ExpandDependencies, Slugs
<1>2. c \in ExpandDependencies(ch.capabilities)
  BY <1>1 DEF CapabilityViolation, ChannelCapabilities
<1>3. ch.capabilities \subseteq Slugs /\ Closed(ch.capabilities)
  BY DEF CapabilityViolation, Consistent, Slugs
<1>4. c \in ch.capabilities
  BY <1>2, <1>3 DEF ExpandDependencies
<1>5. QED
  BY <1>1, <1>4

ServedInv == field.stage = "running" /\ field.last.outcome = "ok" =>
  /\ field.last.agent \in Agents /\ field.prompts[field.last.agent] # NoProfile
  /\ ServedWithinOrders

LEMMA ServedCall ==
  ASSUME FieldShape, FieldGated, NEW a \in Agents, NEW name \in Names, NEW path \in Paths,
         NEW wellFormed \in BOOLEAN, CallTool(a, name, path, wellFormed)
  PROVE  ServedInv'
<1>1. /\ field.stage = "running" /\ field.prompts[a] # NoProfile
      /\ \E r \in Run(name, path, wellFormed, Offered(a), field.brief.order.readOnly, Mutating(name)) :
           field' = [field EXCEPT !.last =
             [agent |-> a, name |-> name, outcome |-> r.outcome, shows |-> r.shows]]
  BY DEF CallTool
<1>2. PICK r \in Run(name, path, wellFormed, Offered(a), field.brief.order.readOnly, Mutating(name)) :
        field' = [field EXCEPT !.last =
          [agent |-> a, name |-> name, outcome |-> r.outcome, shows |-> r.shows]]
  BY <1>1
<1>3. field = [stage |-> "running", brief |-> field.brief, provider |-> field.provider,
               seen |-> field.seen, prompts |-> field.prompts, last |-> field.last]
  BY <1>1 DEF FieldShape, Clear
<1>4. /\ field'.stage = "running" /\ field'.brief = field.brief /\ field'.provider = field.provider
      /\ field'.prompts = field.prompts
      /\ field'.last = [agent |-> a, name |-> name, outcome |-> r.outcome, shows |-> r.shows]
  BY <1>2, <1>3
<1>5. CASE r.outcome # "ok"
  BY <1>4, <1>5 DEF ServedInv
<1>6. CASE r.outcome = "ok"
  <2>1. Admits(name, Offered(a), field.brief.order.readOnly, Mutating(name)) /\ name \in Handlers
        /\ Admissible(path) /\ r \in Handled(name, path)
    BY <1>6 DEF Run, Refused, Failed
  <2>2. name \in OfferedFunctions(field.brief.order, field.provider, field.prompts[a].tools)
    BY <2>1 DEF Admits, Offered
  <2>3. /\ name \in field.brief.order.tools
        /\ \E x \in Rows : x.name = name /\ x.depot \in field.prompts[a].tools \union {NoDepot}
    BY <2>2 DEF OfferedFunctions
  <2>4. CapabilityOfTool(name) \subseteq
          field.provider.channel.capabilities \intersect RequiredCapabilities(field.brief.order)
    BY <1>1, <2>3, CapabilitiesHeld DEF FieldGated, Gated
  <2>5. \A x \in r.shows : Inside(IF name = "LS" THEN x ELSE Real(x))
    BY <1>6, <2>1, ShowsInside
  <2>6. ServedWithinOrders'
    BY <1>4, <2>3, <2>4, <2>5 DEF ServedWithinOrders
  <2>7. QED
    BY <1>1, <1>4, <2>6 DEF ServedInv
<1>7. QED
  BY <1>5, <1>6

LEMMA ServedStart ==
  ASSUME FieldShape, ServedInv, NEW a \in Agents, StartTask(a)
  PROVE  ServedInv'
<1>1. /\ field.stage = "running" /\ field.prompts[a] = NoProfile
      /\ \E p : field' = [field EXCEPT !.prompts[a] = p]
  BY DEF StartTask
<1>2. PICK p : field' = [field EXCEPT !.prompts[a] = p]
  BY <1>1
<1>3. /\ field = [stage |-> "running", brief |-> field.brief, provider |-> field.provider,
                  seen |-> field.seen, prompts |-> field.prompts, last |-> field.last]
      /\ DOMAIN field.prompts = Agents
  BY <1>1 DEF FieldShape, Clear
<1>4. /\ field'.stage = "running" /\ field'.brief = field.brief /\ field'.provider = field.provider
      /\ field'.last = field.last /\ field'.prompts = [field.prompts EXCEPT ![a] = p]
  BY <1>2, <1>3
<1>5. \A b \in Agents \ {a} : field'.prompts[b] = field.prompts[b]
  BY <1>3, <1>4
<1>6. CASE field.last.outcome = "ok"
  <2>1. field.last.agent \in Agents \ {a} /\ field.prompts[field.last.agent] # NoProfile
    BY <1>1, <1>6 DEF ServedInv
  <2>2. field'.prompts[field'.last.agent] = field.prompts[field.last.agent]
    BY <1>4, <1>5, <2>1
  <2>3. ServedWithinOrders'
    BY <1>1, <1>4, <1>6, <2>2 DEF ServedInv, ServedWithinOrders
  <2>4. QED
    BY <1>4, <2>1, <2>2, <2>3 DEF ServedInv
<1>7. CASE field.last.outcome # "ok"
  BY <1>4, <1>7 DEF ServedInv
<1>8. QED
  BY <1>6, <1>7

LEMMA ServedStep ==
  ASSUME FieldShape, FieldGated, ServedInv, [Next]_vars
  PROVE  ServedInv'
<1>1. CASE field' = field
  BY <1>1 DEF ServedInv, ServedWithinOrders
<1>2. CASE field' = Clear
  BY <1>2 DEF ServedInv, Clear
<1>3. CASE Launch
  BY <1>3, FieldLaunched DEF ServedInv
<1>4. QED
  BY <1>1, <1>2, <1>3, FieldSteps, ServedCall, ServedStart

\* Whatever order, inventory, tree and model: a call that succeeded was within
\* the order, the channel and the agent's depot tools at once, and showed
\* nothing from outside the working directory.
THEOREM ServedWithinOrdersHolds == Spec => []ServedWithinOrders
<1>1. Init => FieldShape /\ FieldGated /\ ServedInv
  BY DeskInit DEF Init, ServedInv, Clear
<1>2. FieldShape /\ FieldGated /\ ServedInv /\ [Next]_vars => (FieldShape /\ FieldGated /\ ServedInv)'
  BY ShapeStep, ServedStep
<1>3. ServedInv => ServedWithinOrders
  BY DEF ServedInv, ServedWithinOrders
<1>4. QED
  BY <1>1, <1>2, <1>3, PTL DEF Spec
-----------------------------------------------------------------------------
(***************************************************************************)
(* Folds.  A fold over a list is solved by steps over the lengths of its   *)
(* beginnings.                                                             *)
(***************************************************************************)
LEMMA UpTo ==
  ASSUME NEW n \in Nat, NEW S, 0 \in S, \A i \in 1..n : i - 1 \in S => i \in S
  PROVE  0..n \subseteq S
<1> DEFINE R   == {ss \in Nat \X Nat : ss[1] < ss[2]}
           Bad == (0..n) \ S
<1>1. IsWellFoundedOn(R, Nat)
  BY NatLessThanWellFounded DEF OpToRel
<1>2. SUFFICES ASSUME Bad # {} PROVE FALSE
  OBVIOUS
<1>3. Bad \subseteq Nat
  OBVIOUS
<1>4. PICK x \in Bad : \A y \in Bad : ~ (<<y, x>> \in R)
  <2> HIDE DEF R, Bad
  <2>1. QED
    BY <1>1, <1>2, <1>3, WFMin
<1>5. x \in 1..n /\ x - 1 \in 0..n
  OBVIOUS
<1>6. x - 1 \in S
  <2>1. x - 1 \in Bad => <<x - 1, x>> \in R
    BY <1>5
  <2>2. QED
    BY <1>4, <1>5, <2>1
<1>7. QED
  BY <1>5, <1>6

\* The sets a fold passes through on its way from the last to the first.
LEMMA UpToIs ==
  ASSUME NEW n \in Nat, NEW i \in 1..n
  PROVE  1..i # {} /\ Max(1..i) = i /\ (1..i) \ {i} = 1..(i - 1)
<1>1. i \in 1..i /\ \A y \in 1..i : i >= y
  OBVIOUS
<1>2. \A x \in 1..i : (\A y \in 1..i : x >= y) => x = i
  BY <1>1
<1>3. QED
  BY <1>1, <1>2 DEF Max

LEMMA MaxOfSome ==
  ASSUME NEW n \in Nat, NEW s \in SUBSET (1..n), s # {}
  PROVE  Max(s) \in s /\ \A y \in s : y <= Max(s)
<1> DEFINE S == {i \in 0..n : \A t \in SUBSET (1..i) : t # {} => \E x \in t : \A y \in t : x >= y}
<1>1. 0 \in S
  <2>1. 1..0 = {}
    OBVIOUS
  <2>2. ASSUME NEW t \in SUBSET (1..0), t # {} PROVE \E x \in t : \A y \in t : x >= y
    BY <2>1, <2>2
  <2>3. 0 \in 0..n
    OBVIOUS
  <2>4. QED
    BY <2>2, <2>3
<1>2. ASSUME NEW i \in 1..n, i - 1 \in S PROVE i \in S
  <2>1. ASSUME NEW t \in SUBSET (1..i), t # {} PROVE \E x \in t : \A y \in t : x >= y
    <3>1. CASE i \in t
      BY <3>1
    <3>2. CASE i \notin t
      <4>1. t \in SUBSET (1..(i - 1))
        BY <3>2
      <4>2. QED
        BY <1>2, <2>1, <4>1
    <3>3. QED
      BY <3>1, <3>2
  <2>2. QED
    BY <2>1
<1> HIDE DEF S
<1>3. n \in S
  BY <1>1, <1>2, UpTo
<1>4. \E x \in s : \A y \in s : x >= y
  BY <1>3 DEF S
<1>5. Max(s) \in s /\ \A y \in s : Max(s) >= y
  BY <1>4 DEF Max
<1>6. s \subseteq Int
  OBVIOUS
<1>7. QED
  BY <1>5, <1>6

\* A property of the subsets of a finite set that removing an element hands on.
LEMMA SubsetsUp ==
  ASSUME NEW D, IsFiniteSet(D), NEW P, {} \in P,
         \A s \in SUBSET D : s # {} /\ (\A x \in s : s \ {x} \in P) => s \in P
  PROVE  SUBSET D \subseteq P
<1> DEFINE n == Cardinality(D)
           S == {i \in 0..n : \A s \in SUBSET D : Cardinality(s) = i => s \in P}
<1>1. \A s \in SUBSET D : IsFiniteSet(s) /\ Cardinality(s) \in 0..n /\ n \in Nat
  BY FS_Subset, FS_CardinalityType
<1>2. 0 \in S
  <2>1. \A s \in SUBSET D : Cardinality(s) = 0 => s = {}
    BY <1>1, FS_EmptySet
  <2>2. QED
    BY <1>1, <2>1
<1>3. ASSUME NEW i \in 1..n, i - 1 \in S PROVE i \in S
  <2>1. ASSUME NEW s \in SUBSET D, Cardinality(s) = i PROVE s \in P
    <3>1. s # {}
      BY <2>1, FS_EmptySet
    <3>2. ASSUME NEW x \in s PROVE s \ {x} \in P
      <4>1. Cardinality(s \ {x}) = i - 1
        BY <1>1, <2>1, FS_RemoveElement
      <4>2. QED
        BY <1>3, <4>1
    <3>3. QED
      BY <3>1, <3>2
  <2>2. QED
    BY <2>1
<1> HIDE DEF S, n
<1>4. 0..n \subseteq S
  BY <1>1, <1>2, <1>3, UpTo
<1>5. QED
  <2> SUFFICES ASSUME NEW s \in SUBSET D PROVE s \in P
    OBVIOUS
  <2>1. Cardinality(s) \in S
    BY <1>1, <1>4
  <2>2. QED
    BY <2>1 DEF S

\* A fold over a finite set, its elements chosen in any way, has a solution.
Foldable(D, V, base, C, step) ==
  \E g \in [SUBSET D -> V] : \A s \in SUBSET D :
    g[s] = IF s = {} THEN base ELSE step[C[s]][g[s \ {C[s]}]]

LEMMA Folding ==
  ASSUME NEW D, NEW V, NEW base \in V, NEW C, NEW step \in [D -> [V -> V]],
         IsFiniteSet(D), \A s \in SUBSET D : s # {} => C[s] \in s
  PROVE  Foldable(D, V, base, C, step)
<1> DEFINE n == Cardinality(D)
           Low(i) == {s \in SUBSET D : Cardinality(s) <= i}
           Solves(i, g) == /\ g \in [Low(i) -> V]
                           /\ \A s \in Low(i) :
                                g[s] = IF s = {} THEN base ELSE step[C[s]][g[s \ {C[s]}]]
           S == {i \in 0..n : \E g : Solves(i, g)}
<1>1. \A s \in SUBSET D : IsFiniteSet(s) /\ Cardinality(s) \in 0..n /\ n \in Nat
  BY FS_Subset, FS_CardinalityType
<1>2. \A s \in SUBSET D : s # {} => /\ s \ {C[s]} \in SUBSET D
                                    /\ Cardinality(s \ {C[s]}) = Cardinality(s) - 1
  BY <1>1, FS_RemoveElement
<1>3. 0 \in S
  <2> DEFINE g == [s \in Low(0) |-> base]
  <2>1. \A s \in Low(0) : s = {}
    BY <1>1, FS_EmptySet
  <2>2. Solves(0, g)
    BY <2>1
  <2> HIDE DEF Solves, g
  <2>3. \E k : Solves(0, k)
    BY <2>2
  <2>4. QED
    BY <1>1, <2>3
<1>4. ASSUME NEW i \in 1..n, i - 1 \in S PROVE i \in S
  <2>1. PICK g : Solves(i - 1, g)
    BY <1>4
  <2> DEFINE h == [s \in Low(i) |-> IF s = {} THEN base ELSE step[C[s]][g[s \ {C[s]}]]]
  <2>2. \A s \in Low(i) : s # {} => s \ {C[s]} \in Low(i - 1)
    BY <1>1, <1>2
  <2>3. \A s \in Low(i - 1) : s \in Low(i) /\ h[s] = g[s]
    <3>1. \A s \in Low(i - 1) : s \in Low(i)
      BY <1>1
    <3>2. \A s \in Low(i) : h[s] = IF s = {} THEN base ELSE step[C[s]][g[s \ {C[s]}]]
      OBVIOUS
    <3> HIDE DEF Low, h
    <3>3. QED
      BY <2>1, <3>1, <3>2
  <2>4. h \in [Low(i) -> V]
    <3>1. ASSUME NEW s \in Low(i), s # {} PROVE step[C[s]][g[s \ {C[s]}]] \in V
      <4>1. step[C[s]] \in [V -> V]
        BY <3>1
      <4>2. g[s \ {C[s]}] \in V
        BY <2>1, <2>2, <3>1
      <4>3. QED
        BY <4>1, <4>2
    <3>2. QED
      BY <3>1
  <2>5. Solves(i, h)
    BY <2>2, <2>3, <2>4
  <2> HIDE DEF Solves, h
  <2>6. \E k : Solves(i, k)
    BY <2>5
  <2>7. QED
    BY <2>6
<1> HIDE DEF S
<1>5. 0..n \subseteq S
  <2>1. n \in Nat
    BY <1>1
  <2> HIDE DEF n
  <2>2. QED
    BY <1>3, <1>4, <2>1, UpTo
<1>6. PICK g : Solves(n, g)
  <2>1. n \in S
    BY <1>1, <1>5
  <2>2. QED
    BY <2>1 DEF S
<1>7. Low(n) = SUBSET D
  BY <1>1
<1>8. g \in [SUBSET D -> V]
      /\ \A s \in SUBSET D :
           g[s] = IF s = {} THEN base ELSE step[C[s]][g[s \ {C[s]}]]
  <2> HIDE DEF Low
  <2>1. QED
    BY <1>6, <1>7
<1>9. QED
  BY <1>8 DEF Foldable

ListFoldable(n, V, base, step) ==
  \E g \in [SUBSET (1..n) -> V] : \A s \in SUBSET (1..n) :
    g[s] = IF s = {} THEN base ELSE step[Max(s)][g[s \ {Max(s)}]]

LEMMA ListFolding ==
  ASSUME NEW n \in Nat, NEW V, NEW base \in V, NEW step \in [1..n -> [V -> V]]
  PROVE  ListFoldable(n, V, base, step)
<1> DEFINE C == [s \in SUBSET (1..n) |-> Max(s)]
<1>1. \A s \in SUBSET (1..n) : C[s] = Max(s)
  OBVIOUS
<1>2. \A s \in SUBSET (1..n) : s # {} => C[s] \in s
  BY <1>1, MaxOfSome
<1> HIDE DEF C
<1>3. IsFiniteSet(1..n)
  BY FS_Interval
<1>4. Foldable(1..n, V, base, C, step)
  BY <1>2, <1>3, Folding
<1>5. PICK g \in [SUBSET (1..n) -> V] : \A s \in SUBSET (1..n) :
        g[s] = IF s = {} THEN base ELSE step[C[s]][g[s \ {C[s]}]]
  BY <1>4 DEF Foldable
<1>6. \A s \in SUBSET (1..n) : g[s] = IF s = {} THEN base ELSE step[Max(s)][g[s \ {Max(s)}]]
  BY <1>1, <1>5
<1>7. QED
  BY <1>6 DEF ListFoldable

(***************************************************************************)
(* Which blocks apply, and the roles they add to a list.                   *)
(***************************************************************************)
Role == (UNION {Range(b.roles) : b \in Range(Blocks)})
          \union UNION {Range(Base[i].secondary) : i \in Instructions}

LEMMA ApplicableBlocks ==
  ASSUME NEW c
  PROVE  Applicable(c) \in Seq(Range(Blocks))
<1> DEFINE n == Len(Blocks)
           V == Seq(Range(Blocks))
           Eq(f) == f = [s \in SUBSET DOMAIN Blocks |->
                           IF s = {} THEN <<>>
                           ELSE IF BlockApplies(Blocks[Max(s)], c)
                                THEN Append(f[s \ {Max(s)}], Blocks[Max(s)])
                                ELSE f[s \ {Max(s)}]]
           step == [i \in 1..n |-> [v \in V |->
                      IF BlockApplies(Blocks[i], c) THEN Append(v, Blocks[i]) ELSE v]]
<1>1. n \in Nat /\ DOMAIN Blocks = 1..n /\ \A i \in 1..n : Blocks[i] \in Range(Blocks)
  BY ComposerAssumption DEF Range
<1>2. /\ step \in [1..n -> [V -> V]] /\ <<>> \in V
      /\ \A i \in 1..n, v \in V :
           step[i][v] = IF BlockApplies(Blocks[i], c) THEN Append(v, Blocks[i]) ELSE v
  <2>1. ASSUME NEW i \in 1..n, NEW v \in V PROVE Append(v, Blocks[i]) \in V
    BY <1>1
  <2>2. QED
    BY <2>1
<1> HIDE DEF step, n, V
<1>3. \E f : Eq(f)
  <2>1. PICK g \in [SUBSET (1..n) -> V] : \A s \in SUBSET (1..n) :
          g[s] = IF s = {} THEN <<>> ELSE step[Max(s)][g[s \ {Max(s)}]]
    <3>1. ListFoldable(n, V, <<>>, step)
      BY <1>1, <1>2, ListFolding
    <3>2. QED
      BY <3>1 DEF ListFoldable
  <2>2. ASSUME NEW s \in SUBSET (1..n), s # {}
        PROVE  step[Max(s)][g[s \ {Max(s)}]] =
                 IF BlockApplies(Blocks[Max(s)], c)
                 THEN Append(g[s \ {Max(s)}], Blocks[Max(s)]) ELSE g[s \ {Max(s)}]
    <3>1. Max(s) \in 1..n /\ s \ {Max(s)} \in SUBSET (1..n)
      BY <1>1, <2>2, MaxOfSome
    <3>2. g[s \ {Max(s)}] \in V
      BY <3>1
    <3>3. QED
      BY <1>2, <3>1, <3>2
  <2>3. g = [s \in SUBSET (1..n) |-> g[s]]
    OBVIOUS
  <2>4. Eq(g)
    BY <1>1, <2>1, <2>2, <2>3
  <2>5. QED
    BY <2>4
<1>4. Applicable(c) = (CHOOSE f : Eq(f))[DOMAIN Blocks]
  BY DEF Applicable, FoldLeft, MapThenFoldSet
<1>5. PICK f : Eq(f) /\ Applicable(c) = f[1..n]
  BY <1>1, <1>3, <1>4
<1> DEFINE S == {i \in 0..n : f[1..i] \in V}
<1>6. 0 \in S
  <2>1. 1..0 = {}
    OBVIOUS
  <2>2. f[{}] = <<>>
    BY <1>5
  <2>3. QED
    BY <1>1, <1>2, <2>1, <2>2
<1>7. ASSUME NEW i \in 1..n, i - 1 \in S PROVE i \in S
  <2>1. 1..i # {} /\ Max(1..i) = i /\ (1..i) \ {i} = 1..(i - 1)
    BY <1>1, UpToIs
  <2>2. 1..i \in SUBSET DOMAIN Blocks
    BY <1>1
  <2>3. f[1..i] = IF BlockApplies(Blocks[i], c) THEN Append(f[1..(i - 1)], Blocks[i]) ELSE f[1..(i - 1)]
    BY <1>5, <2>1, <2>2
  <2>4. f[1..(i - 1)] \in V /\ Blocks[i] \in Range(Blocks)
    BY <1>1, <1>7
  <2>5. f[1..i] \in V
    BY <2>3, <2>4 DEF V
  <2>6. QED
    BY <1>1, <2>5
<1> HIDE DEF S, Eq
<1>8. n \in S
  BY <1>1, <1>6, <1>7, UpTo
<1>9. QED
  BY <1>5, <1>8 DEF S, V

(***************************************************************************)
(* Crews.  A list without repeats, the first of it, and the members of a   *)
(* set brought into an order.                                              *)
(***************************************************************************)
Distinct(s) == \A i, j \in DOMAIN s : s[i] = s[j] => i = j

LEMMA ListedFinite ==
  ASSUME NEW X, NEW s \in Seq(X)
  PROVE  /\ Range(s) \subseteq X /\ IsFiniteSet(Range(s))
         /\ Distinct(s) => Cardinality(Range(s)) = Len(s)
<1>1. Len(s) \in Nat /\ DOMAIN s = 1..Len(s) /\ s \in [1..Len(s) -> Range(s)]
  BY DEF Range
<1>2. s \in Surjection(1..Len(s), Range(s))
  BY <1>1 DEF Surjection, Range
<1>3. IsFiniteSet(Range(s))
  BY <1>1, <1>2, FS_NatSurjection DEF ExistsSurjection
<1>4. ASSUME Distinct(s) PROVE Cardinality(Range(s)) = Len(s)
  <2>1. s \in Bijection(1..Len(s), Range(s))
    BY <1>1, <1>2, <1>4 DEF Bijection, Injection, IsInjective, Distinct
  <2>2. ExistsBijection(1..Len(s), Range(s))
    BY <2>1 DEF ExistsBijection
  <2>3. QED
    BY <1>1, <2>2, FS_CountingElements
<1>5. Range(s) \subseteq X
  BY DEF Range
<1>6. QED
  BY <1>3, <1>4, <1>5

LEMMA TopOf ==
  ASSUME NEW X, NEW s \in Seq(X), NEW n \in Nat
  PROVE  /\ Top(n, s) \in Seq(X)
         /\ Len(Top(n, s)) = Min({n, Len(s)}) /\ Len(Top(n, s)) <= n /\ Len(Top(n, s)) <= Len(s)
         /\ Len(Top(n, s)) = n \/ Len(Top(n, s)) = Len(s)
         /\ \A i \in 1..Len(Top(n, s)) : Top(n, s)[i] = s[i]
<1> DEFINE m == Min({n, Len(s)})
<1>1. m \in {n, Len(s)} /\ m <= n /\ m <= Len(s) /\ m \in Nat
  <2>1. \E x \in {n, Len(s)} : \A y \in {n, Len(s)} : x =< y
    BY Len(s) \in Nat
  <2>2. m \in {n, Len(s)} /\ \A y \in {n, Len(s)} : m =< y
    BY <2>1 DEF Min
  <2>3. QED
    BY <2>2, Len(s) \in Nat
<1> HIDE DEF m
<1>2. Top(n, s) = SubSeq(s, 1, m)
  BY DEF Top, m
<1>3. SubSeq(s, 1, m) \in Seq(X) /\ Len(SubSeq(s, 1, m)) = m /\ \A i \in 1..m : SubSeq(s, 1, m)[i] = s[i]
  BY <1>1
<1>4. QED
  BY <1>1, <1>2, <1>3 DEF m

\* A transitive relation that decides between any two members of a finite set
\* has a last member of it, and lists it.
Decides(R, A) ==
  /\ \A x, y \in A : x # y => <<x, y>> \in R \/ <<y, x>> \in R
  /\ \A x, y, z \in A : <<x, y>> \in R /\ <<y, z>> \in R => <<x, z>> \in R

LEMMA LastMember ==
  ASSUME NEW A, IsFiniteSet(A), NEW R, Decides(R, A)
  PROVE  \A s \in SUBSET A : s # {} => \E m \in s : \A y \in s \ {m} : <<y, m>> \in R
<1> DEFINE P == {s \in SUBSET A : s # {} => \E m \in s : \A y \in s \ {m} : <<y, m>> \in R}
<1>1. ASSUME NEW s \in SUBSET A, s # {}, \A x \in s : s \ {x} \in P PROVE s \in P
  <2>1. PICK x \in s : s \ {x} \in P
    BY <1>1
  <2>2. CASE s \ {x} = {}
    BY <2>1, <2>2
  <2>3. CASE s \ {x} # {}
    <3>1. PICK m \in s \ {x} : \A y \in (s \ {x}) \ {m} : <<y, m>> \in R
      BY <2>1, <2>3
    <3>2. CASE <<x, m>> \in R
      <4>1. \A y \in s \ {m} : <<y, m>> \in R
        BY <3>1, <3>2
      <4>2. QED
        BY <3>1, <4>1
    <3>3. CASE <<m, x>> \in R
      <4>1. \A y \in s \ {x} : <<y, x>> \in R
        BY <3>1, <3>3 DEF Decides
      <4>2. QED
        BY <2>1, <4>1
    <3>4. QED
      BY <3>1, <3>2, <3>3 DEF Decides
  <2>4. QED
    BY <2>2, <2>3
<1>2. {} \in P
  OBVIOUS
<1> HIDE DEF P
<1>3. SUBSET A \subseteq P
  BY <1>1, <1>2, SubsetsUp
<1>4. QED
  BY <1>3 DEF P

InOrder(R, s) == \A i, j \in DOMAIN s : i < j => <<s[i], s[j]>> \in R
Ordered(R, T) == \E s \in [1..Cardinality(T) -> T] : Range(s) = T /\ InOrder(R, s)

LEMMA Sorting ==
  ASSUME NEW A, IsFiniteSet(A), NEW R, Decides(R, A)
  PROVE  Ordered(R, A)
<1> DEFINE P == {T \in SUBSET A : Ordered(R, T)}
<1>1. {} \in P
  <2>1. Cardinality({}) = 0 /\ 1..0 = {}
    BY FS_EmptySet
  <2> DEFINE s == [i \in 1..0 |-> i]
  <2>2. s \in [1..0 -> {}] /\ Range(s) = {} /\ InOrder(R, s)
    BY <2>1 DEF Range, InOrder
  <2>3. QED
    BY <2>1, <2>2 DEF Ordered
<1>2. ASSUME NEW T \in SUBSET A, T # {}, \A x \in T : T \ {x} \in P PROVE T \in P
  <2>1. PICK m \in T : \A y \in T \ {m} : <<y, m>> \in R
    BY <1>2, LastMember
  <2>2. Ordered(R, T \ {m})
    BY <1>2
  <2> DEFINE k == Cardinality(T \ {m})
  <2>3. k \in Nat /\ Cardinality(T) = k + 1
    BY FS_Subset, FS_CardinalityType, FS_RemoveElement
  <2>4. PICK s \in [1..k -> T \ {m}] : Range(s) = T \ {m} /\ InOrder(R, s)
    BY <2>2 DEF Ordered
  <2> HIDE DEF k
  <2> DEFINE u == [i \in 1..(k + 1) |-> IF i = k + 1 THEN m ELSE s[i]]
  <2>5. \A i \in 1..(k + 1) : i = k + 1 \/ i \in 1..k
    BY <2>3
  <2>6. k + 1 \in 1..(k + 1) /\ u[k + 1] = m /\ \A i \in 1..k : i \in 1..(k + 1) /\ u[i] = s[i]
    BY <2>3
  <2>7. u \in [1..(k + 1) -> T] /\ DOMAIN u = 1..(k + 1)
    BY <2>4, <2>5
  <2> HIDE DEF u
  <2>8. Range(u) = T
    <3>1. \A x \in T \ {m} : \E i \in 1..k : s[i] = x
      BY <2>4 DEF Range
    <3>2. \A x \in T : \E i \in 1..(k + 1) : u[i] = x
      BY <2>6, <3>1
    <3>3. QED
      BY <2>7, <3>2 DEF Range
  <2>9. InOrder(R, u)
    <3>1. SUFFICES ASSUME NEW i \in 1..(k + 1), NEW j \in 1..(k + 1), i < j PROVE <<u[i], u[j]>> \in R
      BY <2>7 DEF InOrder
    <3>2. i \in 1..k
      BY <2>3, <3>1
    <3>3. u[i] = s[i] /\ s[i] \in T \ {m}
      BY <2>4, <2>6, <3>2
    <3>4. CASE j = k + 1
      BY <2>1, <2>6, <3>3, <3>4
    <3>5. CASE j \in 1..k
      BY <2>4, <2>6, <3>1, <3>2, <3>5 DEF InOrder
    <3>6. QED
      BY <2>5, <3>4, <3>5
  <2>10. Ordered(R, T)
    BY <2>3, <2>7, <2>8, <2>9 DEF Ordered
  <2>11. QED
    BY <2>10
<1> HIDE DEF P
<1>3. A \in P
  BY <1>1, <1>2, SubsetsUp
<1>4. QED
  BY <1>3 DEF P

\* Scores are whole numbers.
LEMMA ScoresCount ==
  ASSUME NEW x, NEW terms, IsFiniteSet(terms), \A t \in terms : Worth[x][t] \in Nat,
         Penalty \in Nat, Violations[x] \in Nat
  PROVE  Score(x, terms) \in Int
<1> DEFINE C == [s \in SUBSET terms |-> CHOOSE t \in s : TRUE]
           Eq(f) == f = [s \in SUBSET terms |->
                           IF s = {} THEN 0
                           ELSE f[s \ {CHOOSE t \in s : TRUE}] + Worth[x][CHOOSE t \in s : TRUE]]
           step == [t \in terms |-> [v \in Nat |-> v + Worth[x][t]]]
<1>1. \A s \in SUBSET terms : C[s] = CHOOSE t \in s : TRUE
  OBVIOUS
<1>2. \A s \in SUBSET terms : s # {} => C[s] \in s
  <2>1. ASSUME NEW s \in SUBSET terms, s # {} PROVE (CHOOSE t \in s : TRUE) \in s
    BY <2>1
  <2>2. QED
    BY <1>1, <2>1
<1>3. /\ step \in [terms -> [Nat -> Nat]] /\ 0 \in Nat
      /\ \A t \in terms, v \in Nat : step[t][v] = v + Worth[x][t]
  OBVIOUS
<1> HIDE DEF C, step
<1>4. PICK g \in [SUBSET terms -> Nat] : \A s \in SUBSET terms :
        g[s] = IF s = {} THEN 0 ELSE step[C[s]][g[s \ {C[s]}]]
  <2>1. Foldable(terms, Nat, 0, C, step)
    BY <1>2, <1>3, Folding
  <2>2. QED
    BY <2>1 DEF Foldable
<1>5. Eq(g)
  <2>1. ASSUME NEW s \in SUBSET terms, s # {} PROVE step[C[s]][g[s \ {C[s]}]] = g[s \ {C[s]}] + Worth[x][C[s]]
    BY <1>2, <1>3, <2>1
  <2>2. ASSUME NEW s \in SUBSET terms
        PROVE  g[s] = IF s = {} THEN 0 ELSE g[s \ {C[s]}] + Worth[x][C[s]]
    BY <1>4, <2>1
  <2>3. g = [s \in SUBSET terms |-> g[s]]
    BY <1>4
  <2>4. QED
    BY <1>1, <2>2, <2>3
<1>6. Scored(x, terms) = (CHOOSE f : Eq(f))[terms]
  BY DEF Scored, FoldSet, MapThenFoldSet
<1>7. PICK f : Eq(f) /\ Scored(x, terms) = f[terms]
  BY <1>5, <1>6
<1>8. \A s \in SUBSET terms : f[s] = IF s = {} THEN 0 ELSE f[s \ {C[s]}] + Worth[x][C[s]]
  BY <1>1, <1>7
<1> HIDE DEF Eq
<1> DEFINE P == {s \in SUBSET terms : f[s] \in Nat}
<1>9. SUBSET terms \subseteq P
  <2>1. {} \in P
    <3>1. {} \in SUBSET terms /\ f[{}] = 0
      BY <1>8
    <3>2. QED
      BY <3>1
  <2>2. ASSUME NEW s \in SUBSET terms, s # {}, \A t \in s : s \ {t} \in P PROVE s \in P
    <3>1. Worth[x][C[s]] \in Nat /\ f[s \ {C[s]}] \in Nat
      BY <1>2, <2>2
    <3>2. f[s] = f[s \ {C[s]}] + Worth[x][C[s]]
      BY <1>8, <2>2
    <3>3. QED
      BY <2>2, <3>1, <3>2
  <2> HIDE DEF P
  <2>3. QED
    BY <2>1, <2>2, SubsetsUp
<1>10. Scored(x, terms) \in Nat
  BY <1>7, <1>9
<1>11. QED
  BY <1>10 DEF Score

\* The candidates are who scores and is not booked, each once, best first.
Apt(list, terms, away) == {x \in Range(list) \ away : Score(x, terms) > 0}

LEMMA CandidatesRanked ==
  ASSUME NEW list \in Seq(Agents), Distinct(list), NEW terms, IsFiniteSet(terms),
         \A x \in Agents, t \in terms : Worth[x][t] \in Nat, NEW away
  PROVE  LET apt == Apt(list, terms, away)
             s   == Candidates(list, terms, away)
         IN  /\ apt \subseteq Agents /\ s \in Seq(apt) /\ Range(s) = apt /\ Distinct(s)
             /\ Len(s) = Cardinality(apt)
             /\ \A i, j \in DOMAIN s : i < j => Score(s[j], terms) <= Score(s[i], terms)
<1> DEFINE apt == Apt(list, terms, away)
           R   == {xy \in apt \X apt : Precedes(list, terms, xy[1], xy[2])}
           s   == Candidates(list, terms, away)
<1>1. apt \subseteq Range(list) /\ Range(list) \subseteq Agents /\ IsFiniteSet(Range(list))
  BY ListedFinite DEF Apt
<1>2. IsFiniteSet(apt) /\ apt \subseteq Agents
  BY <1>1, FS_Subset
<1>3. \A x \in apt : Score(x, terms) \in Int /\ Experience[x] \in Nat
  BY <1>2, ScoresCount, RosterAssumption
<1>4. /\ DOMAIN list = 1..Len(list) /\ Len(list) \in Nat
      /\ \A x \in apt : \E i \in DOMAIN list : list[i] = x
  BY <1>1 DEF Range
<1> HIDE DEF apt
<1>5. Decides(R, apt)
  <2>1. ASSUME NEW x \in apt, NEW y \in apt, x # y
        PROVE  Precedes(list, terms, x, y) \/ Precedes(list, terms, y, x)
    <3>1. PICK i \in DOMAIN list, j \in DOMAIN list : list[i] = x /\ list[j] = y
      BY <1>4
    <3>2. i < j \/ j < i
      BY <1>4, <2>1, <3>1
    <3>3. QED
      BY <1>3, <3>1, <3>2 DEF Precedes
  <2>2. ASSUME NEW x \in apt, NEW y \in apt, NEW z \in apt,
               Precedes(list, terms, x, y), Precedes(list, terms, y, z)
        PROVE  Precedes(list, terms, x, z)
    <3> DEFINE Earlier(p, q) == \E i, j \in DOMAIN list : i < j /\ list[i] = p /\ list[j] = q
    <3>1. Earlier(x, y) /\ Earlier(y, z) => Earlier(x, z)
      <4>1. ASSUME NEW i \in DOMAIN list, NEW j \in DOMAIN list, NEW k \in DOMAIN list, NEW l \in DOMAIN list,
                   i < j, list[i] = x, list[j] = y, k < l, list[k] = y, list[l] = z
            PROVE  Earlier(x, z)
        <5>1. j = k
          BY <4>1 DEF Distinct
        <5>2. i < l
          BY <1>4, <4>1, <5>1
        <5>3. QED
          BY <4>1, <5>2
      <4>2. QED
        BY <4>1
    <3> HIDE DEF Earlier
    <3>2. \A p, q : Precedes(list, terms, p, q) <=>
            \/ Score(p, terms) > Score(q, terms)
            \/ Score(p, terms) = Score(q, terms) /\ Experience[p] > Experience[q]
            \/ Score(p, terms) = Score(q, terms) /\ Experience[p] = Experience[q] /\ Earlier(p, q)
      BY DEF Precedes, Earlier
    <3>3. /\ Score(x, terms) \in Int /\ Score(y, terms) \in Int /\ Score(z, terms) \in Int
          /\ Experience[x] \in Nat /\ Experience[y] \in Nat /\ Experience[z] \in Nat
      BY <1>3
    <3>4. QED
      BY <2>2, <3>1, <3>2, <3>3
  <2>3. \A x, y \in apt : <<x, y>> \in R <=> Precedes(list, terms, x, y)
    OBVIOUS
  <2> HIDE DEF R
  <2>4. QED
    BY <2>1, <2>2, <2>3 DEF Decides
<1> DEFINE Sorted(u) == Range(u) = apt /\ \A i, j \in DOMAIN u : i < j => Precedes(list, terms, u[i], u[j])
<1>6. \E u \in [1..Cardinality(apt) -> apt] : Sorted(u)
  <2>1. PICK u \in [1..Cardinality(apt) -> apt] : Range(u) = apt /\ InOrder(R, u)
    BY <1>2, <1>5, Sorting DEF Ordered
  <2>2. QED
    BY <2>1 DEF InOrder
<1>7. s \in [1..Cardinality(apt) -> apt] /\ Sorted(s)
  <2>1. s = CHOOSE u \in [1..Cardinality(apt) -> apt] : Sorted(u)
    BY DEF Candidates, apt, Apt
  <2>2. QED
    BY <1>6, <2>1
<1> HIDE DEF s
<1>8. Cardinality(apt) \in Nat
  BY <1>2, FS_CardinalityType
<1>9. s \in Seq(apt) /\ Len(s) = Cardinality(apt) /\ DOMAIN s = 1..Cardinality(apt)
  BY <1>7, <1>8
<1>10. \A i, j \in DOMAIN s : i < j => s[i] # s[j] /\ Score(s[j], terms) <= Score(s[i], terms)
  <2>1. SUFFICES ASSUME NEW i \in DOMAIN s, NEW j \in DOMAIN s, i < j
                 PROVE  s[i] # s[j] /\ Score(s[j], terms) <= Score(s[i], terms)
    OBVIOUS
  <2>2. Precedes(list, terms, s[i], s[j]) /\ s[i] \in apt /\ s[j] \in apt
    BY <1>7, <2>1
  <2>3. Score(s[j], terms) <= Score(s[i], terms)
    BY <1>3, <2>2 DEF Precedes
  <2>4. ~ Precedes(list, terms, s[i], s[i])
    BY <1>3, <1>4, <2>2 DEF Precedes, Distinct
  <2>5. QED
    BY <2>2, <2>3, <2>4
<1>11. Distinct(s)
  BY <1>9, <1>10, <1>8 DEF Distinct
<1>12. QED
  BY <1>2, <1>7, <1>9, <1>10, <1>11 DEF s, apt

\* Those of a list that are in a set, each once and in the list's order.
LEMMA AmongListed ==
  ASSUME NEW X, NEW list \in Seq(X), Distinct(list), NEW T
  PROVE  /\ Among(list, T) \in Seq(X) /\ Distinct(Among(list, T))
         /\ Range(Among(list, T)) = Range(list) \intersect T
<1> DEFINE n == Len(list)
           V == Seq(X)
           Eq(f) == f = [s \in SUBSET DOMAIN list |->
                           IF s = {} THEN <<>>
                           ELSE IF list[Max(s)] \in T
                                THEN Append(f[s \ {Max(s)}], list[Max(s)])
                                ELSE f[s \ {Max(s)}]]
           step == [i \in 1..n |-> [v \in V |-> IF list[i] \in T THEN Append(v, list[i]) ELSE v]]
<1>1. n \in Nat /\ DOMAIN list = 1..n /\ \A i \in 1..n : list[i] \in X
  OBVIOUS
<1>2. /\ step \in [1..n -> [V -> V]] /\ <<>> \in V
      /\ \A i \in 1..n, v \in V : step[i][v] = IF list[i] \in T THEN Append(v, list[i]) ELSE v
  <2>1. ASSUME NEW i \in 1..n, NEW v \in V PROVE Append(v, list[i]) \in V
    BY <1>1
  <2>2. QED
    BY <2>1
<1> HIDE DEF step, n, V
<1>3. \E f : Eq(f)
  <2>1. PICK g \in [SUBSET (1..n) -> V] : \A s \in SUBSET (1..n) :
          g[s] = IF s = {} THEN <<>> ELSE step[Max(s)][g[s \ {Max(s)}]]
    <3>1. ListFoldable(n, V, <<>>, step)
      BY <1>1, <1>2, ListFolding
    <3>2. QED
      BY <3>1 DEF ListFoldable
  <2>2. ASSUME NEW s \in SUBSET (1..n), s # {}
        PROVE  step[Max(s)][g[s \ {Max(s)}]] =
                 IF list[Max(s)] \in T THEN Append(g[s \ {Max(s)}], list[Max(s)]) ELSE g[s \ {Max(s)}]
    <3>1. Max(s) \in 1..n /\ s \ {Max(s)} \in SUBSET (1..n)
      BY <1>1, <2>2, MaxOfSome
    <3>2. g[s \ {Max(s)}] \in V
      BY <3>1
    <3>3. QED
      BY <1>2, <3>1, <3>2
  <2>3. g = [s \in SUBSET (1..n) |-> g[s]]
    OBVIOUS
  <2>4. Eq(g)
    BY <1>1, <2>1, <2>2, <2>3
  <2>5. QED
    BY <2>4
<1>4. Among(list, T) = (CHOOSE f : Eq(f))[DOMAIN list]
  BY DEF Among, FoldLeft, MapThenFoldSet
<1>5. PICK f : Eq(f) /\ Among(list, T) = f[1..n]
  BY <1>1, <1>3, <1>4
<1> DEFINE Good(i, v) == /\ v \in V /\ Distinct(v)
                         /\ \A x : x \in Range(v) <=> x \in T /\ \E k \in 1..i : list[k] = x
           S == {i \in 0..n : Good(i, f[1..i])}
<1>6. 0 \in S
  <2>1. 1..0 = {}
    OBVIOUS
  <2>2. f[{}] = <<>>
    BY <1>5
  <2>3. Distinct(<<>>) /\ Range(<<>>) = {}
    BY DEF Distinct, Range
  <2>4. Good(0, <<>>)
    BY <1>2, <2>1, <2>3
  <2> HIDE DEF Good, Eq
  <2>5. QED
    BY <1>1, <2>1, <2>2, <2>4
<1>7. ASSUME NEW i \in 1..n, i - 1 \in S PROVE i \in S
  <2>1. 1..i # {} /\ Max(1..i) = i /\ (1..i) \ {i} = 1..(i - 1)
    BY <1>1, UpToIs
  <2>2. 1..i \in SUBSET DOMAIN list
    BY <1>1
  <2>3. f[1..i] = IF list[i] \in T THEN Append(f[1..(i - 1)], list[i]) ELSE f[1..(i - 1)]
    BY <1>5, <2>1, <2>2
  <2>4. PICK v : v = f[1..(i - 1)] /\ Good(i - 1, v)
    BY <1>7
  <2>5. \A x : (\E k \in 1..i : list[k] = x) <=> (\E k \in 1..(i - 1) : list[k] = x) \/ list[i] = x
    BY <1>1, <2>1
  <2>6. CASE list[i] \notin T
    <3>1. Good(i, v)
      BY <2>4, <2>5, <2>6
    <3> HIDE DEF Good, Eq
    <3>2. QED
      BY <1>1, <2>3, <2>4, <2>6, <3>1
  <2>7. CASE list[i] \in T
    <3> DEFINE w == Append(v, list[i])
    <3>1. v \in Seq(X) /\ Len(v) \in Nat /\ DOMAIN v = 1..Len(v)
      BY <2>4 DEF V
    <3>2. w \in Seq(X) /\ DOMAIN w = 1..(Len(v) + 1) /\ w[Len(v) + 1] = list[i]
          /\ \A k \in 1..Len(v) : w[k] = v[k]
      BY <1>1, <3>1
    <3>3. \A k \in 1..(Len(v) + 1) : k = Len(v) + 1 \/ k \in 1..Len(v)
      BY <3>1
    <3>4. \A k \in 1..(i - 1) : k \in DOMAIN list /\ k # i
      BY <1>1
    <3>5. list[i] \notin Range(v)
      BY <1>1, <2>4, <3>4 DEF Distinct
    <3> HIDE DEF w
    <3>6. Distinct(w)
      <4>1. \A k \in 1..Len(v) : v[k] \in Range(v)
        BY <3>1 DEF Range
      <4>2. \A k \in 1..Len(v) : w[k] # list[i]
        BY <3>2, <3>5, <4>1
      <4>3. QED
        BY <2>4, <3>1, <3>2, <3>3, <4>2 DEF Distinct
    <3>7. \A x : x \in Range(w) <=> x \in Range(v) \/ x = list[i]
      <4>1. \A k \in 1..Len(v) : k \in 1..(Len(v) + 1)
        BY <3>1
      <4>2. Len(v) + 1 \in 1..(Len(v) + 1)
        BY <3>1
      <4>3. QED
        BY <3>1, <3>2, <3>3, <4>1, <4>2 DEF Range
    <3>8. Good(i, w)
      BY <2>4, <2>5, <2>7, <3>2, <3>6, <3>7 DEF V
    <3>9. f[1..i] = w
      BY <2>3, <2>4, <2>7 DEF w
    <3>10. i \in 0..n
      BY <1>1
    <3> HIDE DEF Good, Eq
    <3>11. QED
      BY <3>8, <3>9, <3>10
  <2>8. QED
    BY <2>6, <2>7
<1> HIDE DEF S, Eq
<1>8. n \in S
  BY <1>1, <1>6, <1>7, UpTo
<1>9. Good(n, Among(list, T))
  BY <1>5, <1>8 DEF S
<1>10. \A x : x \in Range(list) <=> \E k \in 1..n : list[k] = x
  BY <1>1 DEF Range
<1>11. QED
  BY <1>9, <1>10 DEF V

(***************************************************************************)
(* A crew is chosen well when it is chosen, and stays what it was.         *)
(***************************************************************************)
RosterInv == roster \in Seq(Agents) /\ Distinct(roster) /\ booked \subseteq Range(roster)

\* The first of a list without repeats.
LEMMA TopDistinct ==
  ASSUME NEW X, NEW s \in Seq(X), NEW n \in Nat, Distinct(s)
  PROVE  /\ Distinct(Top(n, s)) /\ Range(Top(n, s)) \subseteq Range(s)
         /\ Cardinality(Range(Top(n, s))) = Len(Top(n, s))
<1> DEFINE t == Top(n, s)
<1>1. t \in Seq(X) /\ Len(t) <= Len(s) /\ \A i \in 1..Len(t) : t[i] = s[i]
  BY TopOf
<1>2. DOMAIN t = 1..Len(t) /\ DOMAIN s = 1..Len(s) /\ Len(t) \in Nat /\ Len(s) \in Nat
  BY <1>1
<1> HIDE DEF t
<1>3. \A i \in DOMAIN t : i \in DOMAIN s /\ t[i] = s[i]
  BY <1>1, <1>2
<1>4. Distinct(t) /\ Range(t) \subseteq Range(s)
  BY <1>3 DEF Distinct, Range
<1>5. QED
  BY <1>1, <1>4, ListedFinite DEF t

\* The best of the candidates.
LEMMA MatchChosen ==
  ASSUME NEW list \in Seq(Agents), Distinct(list), NEW terms, IsFiniteSet(terms),
         \A x \in Agents, t \in terms : Worth[x][t] \in Nat, NEW away, NEW n \in Nat
  PROVE  LET apt == Apt(list, terms, away)
             s   == Match(list, terms, n, away)
         IN  /\ s \in Seq(Agents) /\ Range(s) \subseteq apt /\ Len(s) <= n
             /\ Len(s) = Min({n, Cardinality(apt)}) /\ Cardinality(Range(s)) = Len(s)
             /\ \A x \in Range(s), y \in apt \ Range(s) : Score(y, terms) <= Score(x, terms)
             /\ n # 0 => (s = <<>> <=> apt = {})
<1> DEFINE apt == Apt(list, terms, away)
           c   == Candidates(list, terms, away)
           s   == Match(list, terms, n, away)
<1>1. /\ apt \subseteq Agents /\ c \in Seq(apt) /\ Range(c) = apt /\ Distinct(c)
      /\ Len(c) = Cardinality(apt)
      /\ \A i, j \in DOMAIN c : i < j => Score(c[j], terms) <= Score(c[i], terms)
  BY CandidatesRanked
<1>2. /\ s \in Seq(apt) /\ Len(s) = Min({n, Len(c)}) /\ Len(s) <= n
      /\ Len(s) = n \/ Len(s) = Len(c)
      /\ Len(s) <= Len(c) /\ \A i \in 1..Len(s) : s[i] = c[i]
  BY <1>1, TopOf DEF Match
<1>3. Range(s) \subseteq apt /\ Cardinality(Range(s)) = Len(s)
  BY <1>1, TopDistinct DEF Match
<1> HIDE DEF s, c, apt
<1>4. /\ DOMAIN s = 1..Len(s) /\ DOMAIN c = 1..Len(c) /\ Len(s) \in Nat /\ Len(c) \in Nat
  BY <1>1, <1>2
<1>5. s \in Seq(Agents)
  BY <1>1, <1>2
<1>6. ASSUME NEW x \in Range(s), NEW y \in apt \ Range(s) PROVE Score(y, terms) <= Score(x, terms)
  <2>1. PICK i \in 1..Len(s) : s[i] = x
    BY <1>4, <1>6 DEF Range
  <2>2. PICK j \in 1..Len(c) : c[j] = y
    BY <1>1, <1>4 DEF Range
  <2>3. j \notin 1..Len(s)
    BY <1>2, <1>4, <1>6, <2>2 DEF Range
  <2>6. \A k, l, p, q \in Nat : k \in 1..p /\ l \in 1..q /\ l \notin 1..p /\ p <= q => k \in 1..q /\ k < l
    OBVIOUS
  <2>7. i \in 1..Len(c) /\ i < j
    BY <1>2, <1>4, <2>3, <2>6
  <2>4. i \in 1..Len(c) /\ i < j /\ c[i] = x
    BY <1>2, <2>1, <2>7
  <2>5. QED
    BY <1>1, <1>4, <2>2, <2>4
<1>7. n # 0 => (s = <<>> <=> apt = {})
  <2>1. s = <<>> <=> Len(s) = 0
    BY <1>2
  <2>2. apt = {} <=> Len(c) = 0
    <3>1. apt = {} <=> DOMAIN c = {}
      BY <1>1 DEF Range
    <3>2. \A k \in Nat : 1..k = {} <=> k = 0
      <4>1. \A k \in Nat : k # 0 => 1 \in 1..k
        OBVIOUS
      <4>2. 1..0 = {}
        OBVIOUS
      <4>3. QED
        BY <4>1, <4>2
    <3>3. QED
      BY <1>4, <3>1, <3>2
  <2>3. QED
    BY <1>2, <1>4, <2>1, <2>2
<1>8. QED
  BY <1>1, <1>2, <1>3, <1>5, <1>6, <1>7 DEF apt, s

\* Who may be hired is not on the roster.
LEMMA HiredIsNew ==
  ASSUME NEW draft \in Hires, NEW crew, draft \in Range(crew), Nobody \notin Range(crew)
  PROVE  draft \in Agents \ Range(roster)
  BY DEF Hires

\* What is said of a crew that was not named, by the list it was chosen from.
ChosenFrom(form, list, from, away) ==
  LET crew  == Range(list)
      hired == crew \ Range(from)
      apt   == Apt(from, form.terms, away)
  IN  /\ crew \intersect away = {}
      /\ Cardinality(crew) = Len(list) /\ Len(list) <= form.count
      /\ form.means = "skill" =>
           IF apt = {} THEN crew = hired /\ Cardinality(hired) = 1
           ELSE /\ crew \subseteq apt
                /\ \A x \in crew, y \in apt \ crew : Score(y, form.terms) <= Score(x, form.terms)
                /\ Cardinality(crew) = Min({form.count, Cardinality(apt)})
Away == IF entry = "cli" THEN booked ELSE {}

\* The crew an order is written for.
LEMMA CrewSought ==
  ASSUME RosterInv, DeskTypes, NEW form \in Forms, NEW draft \in Hires,
         Nobody \notin Range(CrewFor(form, draft))
  PROVE  /\ CrewFor(form, draft) \in Seq(Agents)
         /\ form.means # "named" => ChosenFrom(form, CrewFor(form, draft), roster, Away)
<1> DEFINE crew == CrewFor(form, draft)
           apt  == Apt(roster, form.terms, Away)
<1>1. /\ roster \in Seq(Agents) /\ Distinct(roster) /\ Range(roster) \subseteq Agents
      /\ entry \in {"cli", "tui"}
  BY ListedFinite DEF RosterInv, DeskTypes
<1>2. /\ form.means \in {"named", "skill", "count"} /\ form.names \in Seq(Range(form.names))
      /\ form.count \in Nat \ {0} /\ IsFiniteSet(form.terms)
      /\ \A x \in Agents, t \in form.terms : Worth[x][t] \in Nat
  BY FormsAssumption
<1>3. CASE form.means = "named"
  <2>1. CASE entry = "cli"
    <3>1. crew = IF Range(form.names) \subseteq Range(roster) THEN form.names ELSE <<>>
      BY <1>3, <2>1 DEF CrewFor, ResolveCrew
    <3>2. <<>> \in Seq(Agents)
      OBVIOUS
    <3>3. Range(form.names) \subseteq Range(roster) => form.names \in Seq(Agents)
      BY <1>1, <1>2
    <3>4. QED
      BY <1>3, <3>1, <3>2, <3>3
  <2>2. CASE entry = "tui"
    <3>1. crew = Among(roster, Range(form.names))
      BY <1>3, <2>2 DEF CrewFor, BriefedCrew
    <3>2. QED
      BY <1>1, <1>3, <3>1, AmongListed
  <2>3. QED
    BY <1>1, <2>1, <2>2
<1>4. CASE form.means = "skill"
  <2> DEFINE found == Match(roster, form.terms, form.count, Away)
  <2>1. crew = IF found = <<>> THEN <<draft>> ELSE found
    BY <1>1, <1>4 DEF CrewFor, ResolveCrew, BriefedCrew, Away
  <2>2. /\ found \in Seq(Agents) /\ Range(found) \subseteq apt /\ Len(found) <= form.count
        /\ Len(found) = Min({form.count, Cardinality(apt)}) /\ Cardinality(Range(found)) = Len(found)
        /\ \A x \in Range(found), y \in apt \ Range(found) : Score(y, form.terms) <= Score(x, form.terms)
        /\ found = <<>> <=> apt = {}
    <3>1. form.count \in Nat /\ form.count # 0
      BY <1>2
    <3>2. QED
      BY <1>1, <1>2, <3>1, MatchChosen
  <2>3. apt \subseteq Range(roster) \ Away
    BY DEF Apt
  <2> HIDE DEF found, apt
  <2>4. CASE found = <<>>
    <3>1. crew = <<draft>> /\ Range(<<draft>>) = {draft} /\ Len(<<draft>>) = 1
      BY <2>1, <2>4 DEF Range
    <3>2. draft \in Agents \ Range(roster)
      BY <3>1, HiredIsNew
    <3>3. <<draft>> \in Seq(Agents)
      BY <3>2
    <3>4. Cardinality({draft}) = 1
      BY FS_Singleton
    <3>5. {draft} \ Range(roster) = {draft}
      BY <3>2
    <3>6. {draft} \intersect Away = {}
      BY <3>2 DEF Away, RosterInv
    <3> HIDE DEF crew
    <3>7. 1 <= form.count
      BY <1>2
    <3>8. Range(crew) = {draft} /\ Len(crew) = 1 /\ crew \in Seq(Agents)
      BY <3>1, <3>3
    <3>9. ChosenFrom(form, crew, roster, Away)
      BY <2>2, <2>4, <3>4, <3>5, <3>6, <3>7, <3>8 DEF apt, ChosenFrom
    <3>10. QED
      BY <3>8, <3>9 DEF crew
  <2>5. CASE found # <<>>
    <3>1. crew = found
      BY <2>1, <2>5
    <3> HIDE DEF crew
    <3>2. Range(crew) \intersect Away = {}
      BY <2>2, <2>3, <3>1
    <3>3. crew \in Seq(Agents) /\ ChosenFrom(form, crew, roster, Away)
      BY <1>4, <2>2, <2>5, <3>1, <3>2 DEF apt, ChosenFrom
    <3>4. QED
      BY <3>3 DEF crew
  <2>6. QED
    BY <2>4, <2>5
<1>5. CASE form.means = "count"
  <2> DEFINE list == IF entry = "cli" THEN Among(roster, Range(roster) \ booked) ELSE roster
  <2>1. crew = Top(form.count, list)
    BY <1>1, <1>5 DEF CrewFor, ResolveCrew, BriefedCrew, SelectCrew
  <2>2. list \in Seq(Agents) /\ Distinct(list) /\ Range(list) \intersect Away = {}
    BY <1>1, AmongListed DEF Away
  <2> HIDE DEF list
  <2>3. /\ Top(form.count, list) \in Seq(Agents) /\ Len(Top(form.count, list)) <= form.count
        /\ Range(Top(form.count, list)) \subseteq Range(list)
        /\ Cardinality(Range(Top(form.count, list))) = Len(Top(form.count, list))
    BY <1>2, <2>2, TopOf, TopDistinct
  <2>4. QED
    BY <1>5, <2>1, <2>2, <2>3 DEF ChosenFrom
<1>6. QED
  BY <1>2, <1>3, <1>4, <1>5

Ordering(o, crew, verbose) ==
  \E readOnly, tools, tasked :
    o = [readOnly |-> readOnly, tools |-> tools, crew |-> crew, tasked |-> tasked, verbose |-> verbose]

LEMMA OrderAmended ==
  ASSUME NEW o, NEW crew, NEW verbose, Ordering(o, crew, verbose)
  PROVE  /\ o.crew = crew /\ o.verbose = verbose
         /\ \A x : Ordering([o EXCEPT !.readOnly = x], crew, verbose)
         /\ \A x : Ordering([o EXCEPT !.tools = x], crew, verbose)
         /\ \A x, y : [o EXCEPT !.readOnly = x, !.tools = y] = [[o EXCEPT !.readOnly = x] EXCEPT !.tools = y]
<1>1. PICK rd, ts, td :
        o = [readOnly |-> rd, tools |-> ts, crew |-> crew, tasked |-> td, verbose |-> verbose]
  BY DEF Ordering
<1>2. \A q, r, t, d : q = [readOnly |-> r, tools |-> t, crew |-> crew, tasked |-> d, verbose |-> verbose]
                        => Ordering(q, crew, verbose)
  BY DEF Ordering
<1>3. ASSUME NEW x PROVE Ordering([o EXCEPT !.readOnly = x], crew, verbose)
  <2>1. [o EXCEPT !.readOnly = x] =
          [readOnly |-> x, tools |-> ts, crew |-> crew, tasked |-> td, verbose |-> verbose]
    BY <1>1
  <2>2. QED
    BY <1>2, <2>1, Zenon
<1>4. ASSUME NEW x PROVE Ordering([o EXCEPT !.tools = x], crew, verbose)
  <2>1. [o EXCEPT !.tools = x] =
          [readOnly |-> rd, tools |-> x, crew |-> crew, tasked |-> td, verbose |-> verbose]
    BY <1>1
  <2>2. QED
    BY <1>2, <2>1, Zenon
<1>5. ASSUME NEW x, NEW y
      PROVE  [o EXCEPT !.readOnly = x, !.tools = y] = [[o EXCEPT !.readOnly = x] EXCEPT !.tools = y]
  BY <1>1
<1>6. QED
  BY <1>1, <1>3, <1>4, <1>5

LEMMA OrderCrew ==
  ASSUME NEW form \in Forms, NEW crew
  PROVE  Order(form, crew).crew = crew /\ Order(form, crew).verbose = form.verbose
<1>1. \A n : Ordering(Template(crew, n, form.verbose), crew, form.verbose)
  BY DEF Template, Ordering
<1>3. PICK o : /\ Ordering(o, crew, form.verbose)
               /\ Order(form, crew) = IF form.scoped THEN ApplyMissionScope(o, form.tools) ELSE o
  <2>1. form.kind \in {"task", "codebase", "security", "cycle"}
    BY FormsAssumption
  <2> DEFINE mission == CASE form.kind = "task"     -> AdhocTaskMission(crew, form.verbose)
                          [] form.kind = "codebase" -> CodebaseAnalysisMission(crew, form.verbose)
                          [] form.kind = "security" -> SecurityAuditMission(crew, form.verbose)
                          [] form.kind = "cycle"    -> ProjectCycleMission(crew, form.readOnly, form.verbose)
  <2>2. Ordering(AdhocTaskMission(crew, form.verbose), crew, form.verbose)
    BY <1>1 DEF AdhocTaskMission
  <2>3. Ordering(ProjectCycleMission(crew, form.readOnly, form.verbose), crew, form.verbose)
    <3> DEFINE o == AdhocTaskMission(crew, form.verbose)
    <3>1. ProjectCycleMission(crew, form.readOnly, form.verbose) =
            [o EXCEPT !.readOnly = form.readOnly, !.tools = IF form.readOnly THEN DefaultTools ELSE WorkTools]
      BY DEF ProjectCycleMission
    <3> HIDE DEF o
    <3>2. Ordering(o, crew, form.verbose)
      BY <2>2 DEF o
    <3>3. PICK r, t : ProjectCycleMission(crew, form.readOnly, form.verbose) =
                        [o EXCEPT !.readOnly = r, !.tools = t]
      BY <3>1
    <3>4. Ordering([[o EXCEPT !.readOnly = r] EXCEPT !.tools = t], crew, form.verbose)
      <4> DEFINE u == [o EXCEPT !.readOnly = r]
      <4>1. Ordering(u, crew, form.verbose)
        BY <3>2, OrderAmended
      <4> HIDE DEF u
      <4>2. Ordering([u EXCEPT !.tools = t], crew, form.verbose)
        BY <4>1, OrderAmended
      <4>3. QED
        BY <4>2 DEF u
    <3>5. [o EXCEPT !.readOnly = r, !.tools = t] = [[o EXCEPT !.readOnly = r] EXCEPT !.tools = t]
      BY <3>2, OrderAmended
    <3>6. QED
      BY <3>3, <3>4, <3>5
  <2>4. /\ Ordering(CodebaseAnalysisMission(crew, form.verbose), crew, form.verbose)
        /\ Ordering(SecurityAuditMission(crew, form.verbose), crew, form.verbose)
    BY <1>1 DEF CodebaseAnalysisMission, SecurityAuditMission
  <2>5. Ordering(mission, crew, form.verbose)
    BY <2>1, <2>2, <2>3, <2>4
  <2>6. Order(form, crew) = IF form.scoped THEN ApplyMissionScope(mission, form.tools) ELSE mission
    BY DEF Order
  <2> HIDE DEF mission
  <2>7. QED
    BY <2>5, <2>6
<1>4. Ordering(Order(form, crew), crew, form.verbose)
  <2>1. Order(form, crew) = o \/ \E x : Order(form, crew) = [o EXCEPT !.tools = x]
    BY <1>3 DEF ApplyMissionScope
  <2>2. \A x : Ordering([o EXCEPT !.tools = x], crew, form.verbose)
    BY <1>3, OrderAmended
  <2>3. QED
    BY <1>3, <2>1, <2>2
<1>5. QED
  BY <1>4, OrderAmended

\* What an order that is taken leaves.
LEMMA Taken ==
  ASSUME NEW form \in Forms, NEW address \in Addresses, TakeOrder(form, address)
  PROVE  \E p \in ProvidersFor(address) \ {NoProvider}, draft \in Hires :
           LET crew    == CrewFor(form, draft)
               order   == Order(form, crew)
               brief   == BuildBriefing(order)
           IN  /\ Nobody \notin Range(crew)
               /\ roster' = IF draft \in Range(crew) THEN Append(roster, draft) ELSE roster
               /\ \/ desk' = Clear /\ lists' = lists
                  \/ /\ desk' = [stage |-> "briefed", order |-> order, provider |-> p,
                                 profiles |-> brief.profiles, edited |-> FALSE,
                                 form |-> form, from |-> roster, taken |-> booked]
                     /\ lists' = brief.lists
  BY DEF TakeOrder

\* What an edit of the inventory leaves of the desk.
LEMMA DeskKept ==
  ASSUME DeskInv, NEW s \in Syndicate, NEW r \in Records, EditSyndicate(s, r), desk # Clear
  PROVE  /\ desk' # Clear /\ desk'.order = desk.order /\ desk'.profiles = desk.profiles
         /\ desk'.form = desk.form /\ desk'.from = desk.from /\ desk'.taken = desk.taken
<1>1. desk' = [desk EXCEPT !.edited = TRUE]
  BY DEF EditSyndicate
<1>2. PICK o, p, q, e, x, y, z :
        desk = [stage |-> "briefed", order |-> o, provider |-> p, profiles |-> q, edited |-> e,
                form |-> x, from |-> y, taken |-> z]
  BY DEF DeskInv
<1>3. desk' = [stage |-> "briefed", order |-> o, provider |-> p, profiles |-> q, edited |-> TRUE,
               form |-> x, from |-> y, taken |-> z]
  BY <1>1, <1>2
<1>4. QED
  BY <1>2, <1>3 DEF Clear

\* The roster.
LEMMA RosterInit == Init => RosterInv
  BY RosterAssumption DEF Init, RosterInv, Distinct

LEMMA RosterStep ==
  ASSUME RosterInv, [Next]_vars
  PROVE  RosterInv'
<1>0. Range(roster) \subseteq Agents
  BY ListedFinite DEF RosterInv
<1>1. CASE \E form \in Forms, address \in Addresses : TakeOrder(form, address)
  <2>1. PICK form \in Forms, address \in Addresses : TakeOrder(form, address)
    BY <1>1
  <2>2. PICK draft \in Hires :
          /\ Nobody \notin Range(CrewFor(form, draft))
          /\ roster' = IF draft \in Range(CrewFor(form, draft)) THEN Append(roster, draft) ELSE roster
    BY <2>1, Taken
  <2>3. booked' = booked
    BY <2>1 DEF TakeOrder
  <2>4. CASE roster' = roster
    BY <2>3, <2>4 DEF RosterInv, Distinct
  <2>5. CASE roster' = Append(roster, draft) /\ draft \in Agents \ Range(roster)
    <3> DEFINE n == Len(roster)
    <3>1. n \in Nat /\ DOMAIN roster = 1..n /\ \A i \in 1..n : roster[i] \in Range(roster)
      BY DEF RosterInv, Range
    <3>2. /\ roster' \in Seq(Agents) /\ DOMAIN roster' = 1..(n + 1) /\ roster'[n + 1] = draft
          /\ \A i \in 1..n : roster'[i] = roster[i]
      BY <2>5 DEF RosterInv
    <3> HIDE DEF n
    <3>3. \A i \in 1..(n + 1) : i = n + 1 \/ i \in 1..n
      BY <3>1
    <3>4. \A i \in 1..n : i \in 1..(n + 1) /\ roster'[i] # draft
      BY <2>5, <3>1, <3>2
    <3>5. \A i, j \in DOMAIN roster' : roster'[i] = roster'[j] => i = j
      BY <3>1, <3>2, <3>3, <3>4 DEF RosterInv, Distinct
    <3>6. Range(roster) \subseteq Range(roster')
      BY <3>1, <3>2, <3>4 DEF Range
    <3>7. QED
      BY <2>3, <3>2, <3>5, <3>6 DEF RosterInv, Distinct
  <2>6. QED
    BY <2>2, <2>4, <2>5, HiredIsNew
<1>2. CASE \E a \in Agents : Rebook(a)
  BY <1>2 DEF Rebook, RosterInv, Distinct
<1>3. CASE UNCHANGED <<roster, booked>>
  BY <1>3 DEF RosterInv, Distinct
<1>4. QED
  BY <1>1, <1>2, <1>3 DEF Next, vars, hq, Decline, Launch, StartTask, CallTool, Land, OpenProfile, Promote,
     EditSyndicate

CrewInv ==
  /\ WellChosen(desk)
  /\ field # Clear => WellChosen(field.brief)

LEMMA WellChosenIs ==
  ASSUME NEW b
  PROVE  WellChosen(b) <=>
           (b # Clear /\ b.form.means # "named" =>
              ChosenFrom(b.form, b.order.crew, b.from, IF entry = "cli" THEN b.taken ELSE {}))
  BY DEF WellChosen, ChosenFrom, Apt

LEMMA CrewDesk ==
  ASSUME DeskTypes, DeskInv, RosterInv, CrewInv, [Next]_vars
  PROVE  WellChosen(desk)'
<1>1. entry' = entry
  BY DEF Next, TakeOrder, Decline, Launch, StartTask, CallTool, Land, OpenProfile, Promote, Rebook,
         EditSyndicate, vars
<1>2. CASE \E form \in Forms, address \in Addresses : TakeOrder(form, address)
  <2>1. PICK form \in Forms, address \in Addresses : TakeOrder(form, address)
    BY <1>2
  <2>2. PICK p \in ProvidersFor(address) \ {NoProvider}, draft \in Hires :
          LET crew    == CrewFor(form, draft)
              order   == Order(form, crew)
              brief   == BuildBriefing(order)
          IN  /\ Nobody \notin Range(crew)
              /\ \/ desk' = Clear /\ lists' = lists
                 \/ /\ desk' = [stage |-> "briefed", order |-> order, provider |-> p,
                                profiles |-> brief.profiles, edited |-> FALSE,
                                form |-> form, from |-> roster, taken |-> booked]
                    /\ lists' = brief.lists
    BY <2>1, Taken
  <2>3. CASE desk' = Clear
    BY <2>3 DEF WellChosen
  <2>4. CASE desk' # Clear
    <3>1. PICK crew, profiles :
            /\ crew = CrewFor(form, draft)
            /\ desk' = [stage |-> "briefed", order |-> Order(form, crew), provider |-> p,
                        profiles |-> profiles, edited |-> FALSE,
                        form |-> form, from |-> roster, taken |-> booked]
      BY <2>2, <2>4
    <3>2. form.means # "named" => ChosenFrom(form, crew, roster, Away)
      BY <2>2, <3>1, CrewSought
    <3>3. desk'.form = form /\ desk'.order.crew = crew /\ desk'.from = roster /\ desk'.taken = booked
      BY <3>1, OrderCrew
    <3>4. WellChosen(desk)' <=>
            (desk' # Clear /\ desk'.form.means # "named" =>
               ChosenFrom(desk'.form, desk'.order.crew, desk'.from, IF entry' = "cli" THEN desk'.taken ELSE {}))
      BY DEF WellChosen, ChosenFrom, Apt
    <3>5. QED
      BY <1>1, <3>2, <3>3, <3>4 DEF Away
  <2>5. QED
    BY <2>3, <2>4
<1>3. CASE desk' = Clear
  BY <1>3 DEF WellChosen
<1>4. CASE \E s \in Syndicate, r \in Records : EditSyndicate(s, r)
  <2>1. CASE desk = Clear
    BY <1>3, <1>4, <2>1 DEF EditSyndicate
  <2>2. CASE desk # Clear
    <3>1. PICK s \in Syndicate, r \in Records : EditSyndicate(s, r)
      BY <1>4
    <3>2. /\ desk' # Clear /\ desk'.order = desk.order
          /\ desk'.form = desk.form /\ desk'.from = desk.from /\ desk'.taken = desk.taken
      BY <2>2, <3>1, DeskKept
    <3>3. WellChosen(desk)' <=>
            (desk' # Clear /\ desk'.form.means # "named" =>
               ChosenFrom(desk'.form, desk'.order.crew, desk'.from, IF entry' = "cli" THEN desk'.taken ELSE {}))
      BY DEF WellChosen, ChosenFrom, Apt
    <3>4. QED
      BY <1>1, <2>2, <3>2, <3>3, WellChosenIs DEF CrewInv
  <2>3. QED
    BY <2>1, <2>2
<1>5. CASE desk' = desk
  BY <1>1, <1>5 DEF CrewInv, WellChosen
<1>6. QED
  BY <1>2, <1>3, <1>4, <1>5 DEF Next, vars, Decline, Launch, StartTask, CallTool, Land, OpenProfile, Promote,
     Rebook

LEMMA CrewField ==
  ASSUME FieldShape, CrewInv, [Next]_vars
  PROVE  field' # Clear => WellChosen(field.brief)'
<1>1. entry' = entry
  BY DEF Next, TakeOrder, Decline, Launch, StartTask, CallTool, Land, OpenProfile, Promote, Rebook,
         EditSyndicate, vars
<1>2. CASE field' # Clear /\ field # Clear /\ field'.brief = field.brief
  BY <1>1, <1>2 DEF CrewInv, WellChosen
<1>3. CASE field' = field
  BY <1>2, <1>3
<1>4. CASE Launch
  <2>1. field'.brief = desk
    BY <1>4, FieldLaunched
  <2>2. QED
    BY <1>1, <2>1 DEF CrewInv, WellChosen
<1>5. CASE field.stage = "running" /\
           \/ \E a \in Agents : StartTask(a)
           \/ \E a \in Agents, name \in Names, path \in Paths, wellFormed \in BOOLEAN :
                CallTool(a, name, path, wellFormed)
  <2>1. field # Clear
    BY <1>5 DEF Clear
  <2>2. field' # Clear /\ field'.brief = field.brief
    BY <1>5, FieldWorks
  <2>3. QED
    BY <1>2, <2>1, <2>2
<1>6. QED
  BY <1>3, <1>4, <1>5, FieldSteps

\* Whatever roster, bookings and forms: a crew that was asked for by
\* competency or by number had no booking on the command line when it was
\* chosen, has nobody twice and no more than was asked for; asked for terms,
\* nobody who could go scores higher than a member, and somebody is hired only
\* when nobody who could go scores.
THEOREM CrewQualifiedHolds == Spec => []CrewQualified
<1>1. Init => FieldShape /\ FieldGated /\ RosterInv /\ CrewInv
  BY DeskInit, RosterInit DEF Init, CrewInv, WellChosen
<1>2. DeskTypes /\ DeskInv /\ FieldShape /\ FieldGated /\ RosterInv /\ CrewInv /\ [Next]_vars
        => (FieldShape /\ FieldGated /\ RosterInv /\ CrewInv)'
  BY ShapeStep, RosterStep, CrewDesk, CrewField DEF CrewInv
<1>3. CrewInv => CrewQualified
  BY DEF CrewInv, CrewQualified
<1>4. QED
  BY <1>1, <1>2, <1>3, GatesHeld, PTL DEF Spec

(***************************************************************************)
(* Roles.  What a composition leaves in the lists begins with what was     *)
(* there, and a profile's roles are what the list was extended to.         *)
(***************************************************************************)
Begins(s, t) == Len(s) <= Len(t) /\ \A k \in 1..Len(s) : s[k] = t[k]

LEMMA BeginsIsPrefix ==
  ASSUME NEW X, NEW s \in Seq(X), NEW t \in Seq(X), Begins(s, t)
  PROVE  IsPrefix(s, t)
<1> DEFINE u == SubSeq(s, 1, Len(s))
           v == SubSeq(t, 1, Len(s))
<1>1. Len(s) \in Nat /\ Len(t) \in Nat /\ Len(s) <= Len(t)
  BY DEF Begins
<1>2. u \in Seq(X) /\ Len(u) = Len(s) /\ \A k \in 1..Len(s) : u[k] = s[k]
  BY <1>1
<1>3. v \in Seq(X) /\ Len(v) = Len(s) /\ \A k \in 1..Len(s) : v[k] = t[k]
  BY <1>1
<1> HIDE DEF u, v
<1>4. u = v
  BY <1>2, <1>3 DEF Begins
<1>5. QED
  BY <1>1, <1>4 DEF IsPrefix, u, v

LEMMA BeginsOn ==
  ASSUME NEW X, NEW s \in Seq(X), NEW t \in Seq(X), NEW u \in Seq(X), Begins(s, t)
  PROVE  /\ Begins(s, s) /\ Begins(s, t \o u)
         /\ Begins(t, u) => Begins(s, u)
<1>1. Len(s) \in Nat /\ Len(t) \in Nat /\ Len(u) \in Nat /\ Len(s) <= Len(t)
  BY DEF Begins
<1>2. Begins(s, t \o u)
  <2>1. Len(t \o u) = Len(t) + Len(u) /\ \A k \in 1..Len(t) : (t \o u)[k] = t[k]
    OBVIOUS
  <2>2. \A k \in 1..Len(s) : k \in 1..Len(t)
    BY <1>1
  <2>3. QED
    BY <1>1, <2>1, <2>2 DEF Begins
<1>3. Begins(t, u) => Begins(s, u)
  <2>1. \A k \in 1..Len(s) : k \in 1..Len(t)
    BY <1>1
  <2>2. QED
    BY <1>1, <2>1 DEF Begins
<1>4. QED
  BY <1>1, <1>2, <1>3 DEF Begins

LEMMA RolesMerged ==
  ASSUME NEW L, NEW k, NEW c, L[k] \in Seq(Role)
  PROVE  MergedRoles(L, k, c) \in Seq(Role) /\ Begins(L[k], MergedRoles(L, k, c))
<1> DEFINE A == Applicable(c)
           n == Len(A)
           V == Seq(Role)
           Eq(f) == f = [s \in SUBSET DOMAIN Applicable(c) |->
                           IF s = {} THEN L[k]
                           ELSE f[s \ {Max(s)}] \o Applicable(c)[Max(s)].roles]
           step == [i \in 1..n |-> [v \in V |-> v \o A[i].roles]]
<1>1. A \in Seq(Range(Blocks))
  BY ApplicableBlocks
<1>2. n \in Nat /\ DOMAIN A = 1..n /\ \A i \in 1..n : A[i].roles \in Seq(Role)
  <2>1. \A b \in Range(Blocks) : b.roles \in Seq(Range(b.roles)) /\ Range(b.roles) \subseteq Role
    BY ComposerAssumption DEF Role
  <2>2. \A b \in Range(Blocks) : b.roles \in Seq(Role)
    BY <2>1
  <2>3. QED
    BY <1>1, <2>2
<1> HIDE DEF A
<1>3. /\ step \in [1..n -> [V -> V]] /\ L[k] \in V
      /\ \A i \in 1..n, v \in V : step[i][v] = v \o A[i].roles
  <2>1. ASSUME NEW i \in 1..n, NEW v \in V PROVE v \o A[i].roles \in V
    BY <1>2
  <2>2. QED
    BY <2>1
<1> HIDE DEF step, n, V
<1>4. \E f : Eq(f)
  <2>1. PICK g \in [SUBSET (1..n) -> V] : \A s \in SUBSET (1..n) :
          g[s] = IF s = {} THEN L[k] ELSE step[Max(s)][g[s \ {Max(s)}]]
    <3>1. ListFoldable(n, V, L[k], step)
      BY <1>2, <1>3, ListFolding
    <3>2. QED
      BY <3>1 DEF ListFoldable
  <2>2. ASSUME NEW s \in SUBSET (1..n), s # {}
        PROVE  step[Max(s)][g[s \ {Max(s)}]] = g[s \ {Max(s)}] \o A[Max(s)].roles
    <3>1. Max(s) \in 1..n /\ s \ {Max(s)} \in SUBSET (1..n)
      BY <1>2, <2>2, MaxOfSome
    <3>2. g[s \ {Max(s)}] \in V
      BY <3>1
    <3>3. QED
      BY <1>3, <3>1, <3>2
  <2>3. g = [s \in SUBSET (1..n) |-> g[s]]
    OBVIOUS
  <2>4. Eq(g)
    BY <1>2, <2>1, <2>2, <2>3 DEF A
  <2>5. QED
    BY <2>4
<1>5. MergedRoles(L, k, c) = (CHOOSE f : Eq(f))[DOMAIN Applicable(c)]
  BY DEF MergedRoles, FoldLeft, MapThenFoldSet
<1>6. PICK f : Eq(f) /\ MergedRoles(L, k, c) = f[1..n]
  BY <1>2, <1>4, <1>5 DEF A
<1>7. \A s \in SUBSET (1..n) : f[s] = IF s = {} THEN L[k] ELSE f[s \ {Max(s)}] \o A[Max(s)].roles
  BY <1>2, <1>6 DEF A
<1> HIDE DEF Eq
<1> DEFINE S == {i \in 0..n : f[1..i] \in V /\ Begins(L[k], f[1..i])}
<1>8. 0 \in S
  <2>1. 1..0 = {}
    OBVIOUS
  <2>2. f[{}] = L[k]
    BY <1>7
  <2>3. Begins(L[k], L[k])
    BY DEF Begins
  <2>4. QED
    BY <1>2, <1>3, <2>1, <2>2, <2>3
<1>9. ASSUME NEW i \in 1..n, i - 1 \in S PROVE i \in S
  <2>1. 1..i # {} /\ Max(1..i) = i /\ (1..i) \ {i} = 1..(i - 1)
    BY <1>2, UpToIs
  <2>2. 1..i \in SUBSET (1..n)
    BY <1>2
  <2>3. f[1..i] = f[1..(i - 1)] \o A[i].roles
    BY <1>7, <2>1, <2>2
  <2>4. PICK v : v = f[1..(i - 1)] /\ v \in V /\ Begins(L[k], v)
    BY <1>9
  <2>5. A[i].roles \in V
    BY <1>2 DEF V
  <2>6. v \o A[i].roles \in V /\ Begins(L[k], v \o A[i].roles)
    BY <1>3, <2>4, <2>5, BeginsOn DEF V
  <2>7. i \in 0..n
    BY <1>2
  <2>8. QED
    BY <2>3, <2>4, <2>6, <2>7
<1> HIDE DEF S
<1>10. n \in S
  <2>1. n \in Nat
    BY <1>2
  <2>2. 0..n \subseteq S
    BY <1>8, <1>9, <2>1, UpTo
  <2>3. QED
    BY <2>1, <2>2
<1>11. QED
  BY <1>6, <1>10 DEF S, V

\* The lists a process shares, as they may be and as they may become.
Listing(L) ==
  /\ L \in [Instructions -> Seq(Role)]
  /\ \A i \in Instructions : ~ Base[i].listed => L[i] = FreshLists[i]
Grows(L, M) == \A i \in Instructions : Begins(L[i], M[i])

LEMMA ListingFresh == Listing(FreshLists)
<1>1. \A i \in Instructions : Base[i].secondary \in Seq(Role)
  <2>1. \A i \in Instructions :
          Base[i].secondary \in Seq(Range(Base[i].secondary)) /\ Range(Base[i].secondary) \subseteq Role
    BY ComposerAssumption DEF Role
  <2>2. QED
    BY <2>1
<1>2. QED
  BY <1>1 DEF Listing, FreshLists

LEMMA GrowsOn ==
  ASSUME NEW L, NEW M, NEW N, Listing(L), Listing(M), Listing(N), Grows(L, M)
  PROVE  Grows(L, L) /\ (Grows(M, N) => Grows(L, N))
<1>1. \A i \in Instructions : L[i] \in Seq(Role) /\ M[i] \in Seq(Role) /\ N[i] \in Seq(Role)
  BY DEF Listing
<1>2. QED
  BY <1>1, BeginsOn DEF Grows

InstructionOf(a) == Instruction[ArchetypeOf[a]]

\* One composition.
LEMMA Composed ==
  ASSUME NEW L, Listing(L), NEW a \in Agents, NEW r, NEW scope
  PROVE  LET p == Compose(L, a, r, scope)
             i == InstructionOf(a)
             c == Context(a, r, scope)
             M == Extended(L, a, p)
         IN  /\ p = [rank |-> r, roles |-> p.roles,
                     constraints |-> MergedConstraints(FreshLists, i, c),
                     capabilities |-> Proficiencies(c.archetype, r), tools |-> ToolAccess(c.archetype, c)]
             /\ p.roles \in Seq(Role) /\ Begins(L[i], p.roles)
             /\ Base[i].listed => M[i] = p.roles
             /\ ~ Base[i].listed => p.roles = MergedRoles(FreshLists, i, c)
             /\ Listing(M) /\ Grows(L, M)
<1> DEFINE p == Compose(L, a, r, scope)
           i == InstructionOf(a)
           c == Context(a, r, scope)
           M == Extended(L, a, p)
<1>1. i \in Instructions
  BY ComposerAssumption DEF InstructionOf
<1>2. L[i] \in Seq(Role)
  BY <1>1 DEF Listing
<1>3. p.roles = MergedRoles(L, i, c)
  BY DEF Compose, InstructionOf
<1>4. MergedConstraints(L, i, c) = MergedConstraints(FreshLists, i, c)
  BY DEF MergedConstraints
<1>5. p = [rank |-> r, roles |-> p.roles,
           constraints |-> MergedConstraints(FreshLists, i, c),
           capabilities |-> Proficiencies(c.archetype, r), tools |-> ToolAccess(c.archetype, c)]
  <2>1. p = [rank |-> r, roles |-> MergedRoles(L, i, c),
             constraints |-> MergedConstraints(L, i, c),
             capabilities |-> Proficiencies(c.archetype, r), tools |-> ToolAccess(c.archetype, c)]
    BY DEF Compose, InstructionOf
  <2>2. QED
    BY <1>3, <1>4, <2>1
<1>6. p.roles \in Seq(Role) /\ Begins(L[i], p.roles)
  BY <1>2, <1>3, RolesMerged
<1>7. ~ Base[i].listed => p.roles = MergedRoles(FreshLists, i, c)
  <2>1. L[i] = FreshLists[i] => MergedRoles(L, i, c) = MergedRoles(FreshLists, i, c)
    BY DEF MergedRoles
  <2>2. QED
    BY <1>1, <1>3, <2>1 DEF Listing
<1>8. M = IF Base[i].listed THEN [L EXCEPT ![i] = p.roles] ELSE L
  BY DEF Extended, InstructionOf
<1> HIDE DEF p, i, c, M
<1>9. L \in [Instructions -> Seq(Role)] /\ \A j \in Instructions : L[j] \in Seq(Role) /\ Begins(L[j], L[j])
  BY DEF Listing, Begins
<1>10. CASE Base[i].listed
  <2>1. M = [L EXCEPT ![i] = p.roles]
    BY <1>8, <1>10
  <2>2. M \in [Instructions -> Seq(Role)] /\ M[i] = p.roles /\ \A j \in Instructions \ {i} : M[j] = L[j]
    BY <1>1, <1>6, <1>9, <2>1
  <2>3. Listing(M)
    BY <1>10, <2>2 DEF Listing
  <2>4. Grows(L, M)
    BY <1>6, <1>9, <2>2 DEF Grows
  <2>5. QED
    BY <1>5, <1>6, <1>7, <2>2, <2>3, <2>4, <1>10 DEF p, i, c, M
<1>11. CASE ~ Base[i].listed
  <2>1. M = L
    BY <1>8, <1>11
  <2>2. Listing(M) /\ Grows(L, M)
    BY <1>9, <2>1 DEF Grows
  <2>3. QED
    BY <1>5, <1>6, <1>7, <2>2, <1>11 DEF p, i, c, M
<1>12. QED
  BY <1>10, <1>11

\* What was disclosed of an agent, against the lists as they are.
Told(p, a, scope, L) == p # NoProfile =>
  LET i == InstructionOf(a)
      c == Context(a, p.rank, scope)
  IN  /\ p = [rank |-> p.rank, roles |-> p.roles,
              constraints |-> MergedConstraints(FreshLists, i, c),
              capabilities |-> Proficiencies(c.archetype, p.rank), tools |-> ToolAccess(c.archetype, c)]
      /\ p.roles \in Seq(Role)
      /\ Base[i].listed => Begins(p.roles, L[i])
      /\ ~ Base[i].listed => p.roles = MergedRoles(FreshLists, i, c)
AllTold(profiles, scope, L) == \A a \in Agents : Told(profiles[a], a, scope, L)

LEMMA ToldGrows ==
  ASSUME NEW p, NEW a \in Agents, NEW scope, NEW L, NEW M, Told(p, a, scope, L),
         Listing(L), Listing(M), Grows(L, M)
  PROVE  Told(p, a, scope, M)
<1> DEFINE i == InstructionOf(a)
<1>1. i \in Instructions
  BY ComposerAssumption DEF InstructionOf
<1>2. L[i] \in Seq(Role) /\ M[i] \in Seq(Role) /\ Begins(L[i], M[i])
  BY <1>1 DEF Listing, Grows
<1>3. p.roles \in Seq(Role) /\ Begins(p.roles, L[i]) => Begins(p.roles, M[i])
  BY <1>2, BeginsOn
<1>4. QED
  BY <1>3 DEF Told

LEMMA ComposedTold ==
  ASSUME NEW L, Listing(L), NEW a \in Agents, NEW r, NEW scope
  PROVE  Told(Compose(L, a, r, scope), a, scope, Extended(L, a, Compose(L, a, r, scope)))
<1> DEFINE p == Compose(L, a, r, scope)
           M == Extended(L, a, p)
           i == InstructionOf(a)
           c == Context(a, r, scope)
<1>1. /\ p = [rank |-> r, roles |-> p.roles,
              constraints |-> MergedConstraints(FreshLists, i, c),
              capabilities |-> Proficiencies(c.archetype, r), tools |-> ToolAccess(c.archetype, c)]
      /\ p.roles \in Seq(Role)
      /\ Base[i].listed => M[i] = p.roles
      /\ ~ Base[i].listed => p.roles = MergedRoles(FreshLists, i, c)
  BY Composed
<1>2. p.rank = r
  BY DEF Compose
<1> HIDE DEF p, M, i
<1>3. Begins(p.roles, p.roles)
  BY <1>1 DEF Begins
<1>4. Told(p, a, scope, M)
  BY <1>1, <1>2, <1>3 DEF Told, i
<1>5. QED
  BY <1>4 DEF p, M

\* What was disclosed and what runs, composed later, differ in roles alone.
LEMMA Drifts ==
  ASSUME NEW L, Listing(L), NEW a \in Agents, NEW r, NEW scope, NEW shown, shown # NoProfile,
         Told(shown, a, scope, L), shown.rank = r
  PROVE  LET run == Compose(L, a, r, scope)
         IN  [run EXCEPT !.roles = <<>>] = [shown EXCEPT !.roles = <<>>] /\ IsPrefix(shown.roles, run.roles)
<1> DEFINE i == InstructionOf(a)
           c == Context(a, r, scope)
           p == Compose(L, a, r, scope)
<1>1. /\ p = [rank |-> r, roles |-> p.roles,
              constraints |-> MergedConstraints(FreshLists, i, c),
              capabilities |-> Proficiencies(c.archetype, r), tools |-> ToolAccess(c.archetype, c)]
      /\ p.roles \in Seq(Role) /\ Begins(L[i], p.roles)
      /\ ~ Base[i].listed => p.roles = MergedRoles(FreshLists, i, c)
  BY Composed
<1>2. /\ shown = [rank |-> r, roles |-> shown.roles,
                  constraints |-> MergedConstraints(FreshLists, i, c),
                  capabilities |-> Proficiencies(c.archetype, r), tools |-> ToolAccess(c.archetype, c)]
      /\ shown.roles \in Seq(Role)
      /\ Base[i].listed => Begins(shown.roles, L[i])
      /\ ~ Base[i].listed => shown.roles = MergedRoles(FreshLists, i, c)
  BY DEF Told
<1> HIDE DEF p
<1>3. [p EXCEPT !.roles = <<>>] = [shown EXCEPT !.roles = <<>>]
  <2>1. PICK cs, ps, ts, x, y :
          /\ p = [rank |-> r, roles |-> x, constraints |-> cs, capabilities |-> ps, tools |-> ts]
          /\ shown = [rank |-> r, roles |-> y, constraints |-> cs, capabilities |-> ps, tools |-> ts]
    BY <1>1, <1>2
  <2>2. [p EXCEPT !.roles = <<>>] =
          [rank |-> r, roles |-> <<>>, constraints |-> cs, capabilities |-> ps, tools |-> ts]
    BY <2>1
  <2>3. [shown EXCEPT !.roles = <<>>] =
          [rank |-> r, roles |-> <<>>, constraints |-> cs, capabilities |-> ps, tools |-> ts]
    BY <2>1
  <2>4. QED
    BY <2>2, <2>3
<1>4. i \in Instructions
  BY ComposerAssumption DEF InstructionOf
<1>5. L[i] \in Seq(Role)
  BY <1>4 DEF Listing
<1>6. Begins(shown.roles, p.roles)
  <2>1. CASE Base[i].listed
    BY <1>1, <1>2, <1>5, <2>1, BeginsOn
  <2>2. CASE ~ Base[i].listed
    <3>1. shown.roles = p.roles
      BY <1>1, <1>2, <2>2
    <3>2. QED
      BY <1>1, <3>1 DEF Begins
  <2>3. QED
    BY <2>1, <2>2
<1>7. IsPrefix(shown.roles, p.roles)
  BY <1>1, <1>2, <1>6, BeginsIsPrefix
<1>8. QED
  BY <1>3, <1>7 DEF p

\* A briefing composes its crew in turn; nothing of what it has told is
\* taken back by the compositions that follow.
Lists == {M \in [Instructions -> Seq(Role)] : Listing(M)}
Told1(scope) == {NoProfile} \union {Compose(M, a, rank[a], scope) : M \in Lists, a \in Agents}
Briefs(scope) == [lists : Lists, scope : {scope}, profiles : [Agents -> Told1(scope)]]

LEMMA BriefedOne ==
  ASSUME NEW scope, NEW v \in Briefs(scope), NEW a \in Agents
  PROVE  LET p == Compose(v.lists, a, rank[a], scope)
         IN  /\ BriefOne(v, a) \in Briefs(scope)
             /\ BriefOne(v, a).lists = Extended(v.lists, a, p)
             /\ BriefOne(v, a).profiles = [v.profiles EXCEPT ![a] = p]
<1> DEFINE p == Compose(v.lists, a, rank[a], scope)
           M == Extended(v.lists, a, p)
           q == [v.profiles EXCEPT ![a] = p]
           w == BriefOne(v, a)
<1>1. v.lists \in Lists /\ v.scope = scope /\ v.profiles \in [Agents -> Told1(scope)]
      /\ v = [lists |-> v.lists, scope |-> scope, profiles |-> v.profiles]
  BY DEF Briefs
<1>2. Listing(M)
  BY <1>1, Composed DEF Lists
<1>3. M \in Lists
  BY <1>2 DEF Lists, Listing
<1>4. p \in Told1(scope)
  BY <1>1 DEF Told1
<1>5. q \in [Agents -> Told1(scope)]
  BY <1>1, <1>4
<1>6. w = [v EXCEPT !.lists = M, !.profiles[a] = p]
  BY <1>1 DEF BriefOne
<1> HIDE DEF p, M, w
<1>7. w = [lists |-> M, scope |-> scope, profiles |-> q]
  <2>1. PICK x, y : v = [lists |-> x, scope |-> scope, profiles |-> y]
    BY <1>1
  <2>2. w = [[v EXCEPT !.lists = M] EXCEPT !.profiles[a] = p]
    BY <1>6, <2>1
  <2>3. [v EXCEPT !.lists = M] = [lists |-> M, scope |-> scope, profiles |-> y]
    BY <2>1
  <2>4. w = [lists |-> M, scope |-> scope, profiles |-> [y EXCEPT ![a] = p]]
    BY <2>2, <2>3
  <2>5. y = v.profiles
    BY <2>1
  <2>6. QED
    BY <2>4, <2>5
<1> HIDE DEF q
<1>8. w \in Briefs(scope) /\ w.lists = M /\ w.profiles = q
  BY <1>3, <1>5, <1>7 DEF Briefs
<1>9. QED
  BY <1>8 DEF p, M, q, w

LEMMA BriefingTold ==
  ASSUME Listing(lists), NEW order, order.crew \in Seq(Agents)
  PROVE  LET b == BuildBriefing(order)
         IN  /\ Listing(b.lists) /\ Grows(lists, b.lists)
             /\ AllTold(b.profiles, MissionScope(order), b.lists)
<1> DEFINE scope == MissionScope(order)
           seq == IF order.verbose THEN order.crew ELSE <<>>
           n == Len(seq)
           V == Briefs(scope)
           start == [lists |-> lists, scope |-> MissionScope(order), profiles |-> [a \in Agents |-> NoProfile]]
           Eq(f) == f = [s \in SUBSET DOMAIN seq |->
                           IF s = {} THEN start ELSE BriefOne(f[s \ {Max(s)}], seq[Max(s)])]
           step == [i \in 1..n |-> [v \in V |-> BriefOne(v, seq[i])]]
<1>1. n \in Nat /\ DOMAIN seq = 1..n /\ \A i \in 1..n : seq[i] \in Agents
  <2>1. seq \in Seq(Agents)
    OBVIOUS
  <2> HIDE DEF seq
  <2>2. QED
    BY <2>1
<1>2. start \in V
  BY DEF Briefs, Lists, Told1, Listing
<1>3. BuildBriefing(order) = (CHOOSE f : Eq(f))[DOMAIN seq]
  BY DEF BuildBriefing, FoldLeft, MapThenFoldSet
<1>4. start.lists = lists /\ start.profiles = [a \in Agents |-> NoProfile]
  OBVIOUS
<1> HIDE DEF seq, V, start, scope
<1>5. /\ step \in [1..n -> [V -> V]]
      /\ \A i \in 1..n, v \in V : step[i][v] = BriefOne(v, seq[i])
  <2>1. ASSUME NEW i \in 1..n, NEW v \in V PROVE BriefOne(v, seq[i]) \in V
    BY <1>1, BriefedOne DEF V
  <2>2. QED
    BY <2>1
<1> HIDE DEF step, n
<1>6. \E f : Eq(f)
  <2>1. PICK g \in [SUBSET (1..n) -> V] : \A s \in SUBSET (1..n) :
          g[s] = IF s = {} THEN start ELSE step[Max(s)][g[s \ {Max(s)}]]
    <3>1. ListFoldable(n, V, start, step)
      BY <1>1, <1>2, <1>5, ListFolding
    <3>2. QED
      BY <3>1 DEF ListFoldable
  <2>2. ASSUME NEW s \in SUBSET (1..n), s # {}
        PROVE  step[Max(s)][g[s \ {Max(s)}]] = BriefOne(g[s \ {Max(s)}], seq[Max(s)])
    <3>1. Max(s) \in 1..n /\ s \ {Max(s)} \in SUBSET (1..n)
      BY <1>1, <2>2, MaxOfSome
    <3>2. g[s \ {Max(s)}] \in V
      BY <3>1
    <3>3. QED
      BY <1>5, <3>1, <3>2
  <2>3. g = [s \in SUBSET (1..n) |-> g[s]]
    OBVIOUS
  <2>4. Eq(g)
    BY <1>1, <2>1, <2>2, <2>3
  <2>5. QED
    BY <2>4
<1>7. PICK f : Eq(f) /\ BuildBriefing(order) = f[1..n]
  BY <1>1, <1>3, <1>6
<1>8. \A s \in SUBSET (1..n) : f[s] = IF s = {} THEN start ELSE BriefOne(f[s \ {Max(s)}], seq[Max(s)])
  BY <1>1, <1>7
<1> HIDE DEF Eq
<1> DEFINE Good(v) == v \in V /\ Grows(lists, v.lists) /\ AllTold(v.profiles, scope, v.lists)
           S == {i \in 0..n : Good(f[1..i])}
<1>9. 0 \in S
  <2>1. 1..0 = {}
    OBVIOUS
  <2>2. f[{}] = start
    BY <1>8
  <2>3. Grows(lists, lists)
    BY DEF Grows, Begins, Listing
  <2>4. AllTold(start.profiles, scope, start.lists)
    BY <1>4 DEF AllTold, Told
  <2>5. Good(start)
    BY <1>2, <1>4, <2>3, <2>4
  <2> HIDE DEF Good
  <2>6. QED
    BY <1>1, <2>1, <2>2, <2>5
<1>10. ASSUME NEW i \in 1..n, i - 1 \in S PROVE i \in S
  <2>1. 1..i # {} /\ Max(1..i) = i /\ (1..i) \ {i} = 1..(i - 1)
    BY <1>1, UpToIs
  <2>2. 1..i \in SUBSET (1..n)
    BY <1>1
  <2>3. f[1..i] = BriefOne(f[1..(i - 1)], seq[i])
    BY <1>8, <2>1, <2>2
  <2>4. PICK v : v = f[1..(i - 1)] /\ Good(v)
    BY <1>10
  <2>5. PICK a \in Agents : a = seq[i]
    BY <1>1
  <2> DEFINE p == Compose(v.lists, a, rank[a], scope)
             M == Extended(v.lists, a, p)
             w == BriefOne(v, a)
  <2>6. w \in V /\ w.lists = M /\ w.profiles = [v.profiles EXCEPT ![a] = p]
    BY <2>4, BriefedOne DEF V
  <2>7. Listing(v.lists) /\ v.lists \in [Instructions -> Seq(Role)] /\ DOMAIN v.profiles = Agents
    BY <2>4 DEF V, Briefs, Lists
  <2>8. Listing(M) /\ Grows(v.lists, M)
    BY <2>7, Composed
  <2>9. Grows(lists, M)
    BY <2>4, <2>7, <2>8, GrowsOn
  <2>10. Told(p, a, scope, M)
    BY <2>7, ComposedTold
  <2> HIDE DEF p, M, w
  <2>11. ASSUME NEW b \in Agents PROVE Told(w.profiles[b], b, scope, M)
    <3>1. CASE b = a
      BY <2>6, <2>7, <2>10, <3>1
    <3>2. CASE b # a
      <4>1. w.profiles[b] = v.profiles[b]
        BY <2>6, <2>7, <3>2
      <4>2. Told(v.profiles[b], b, scope, v.lists)
        BY <2>4 DEF AllTold
      <4>3. QED
        BY <2>7, <2>8, <4>1, <4>2, ToldGrows
    <3>3. QED
      BY <3>1, <3>2
  <2>12. Good(w)
    BY <2>6, <2>9, <2>11 DEF AllTold
  <2>13. i \in 0..n
    BY <1>1
  <2> HIDE DEF Good
  <2>14. QED
    BY <2>3, <2>4, <2>5, <2>12, <2>13 DEF w
<1> HIDE DEF S
<1>11. n \in S
  <2>1. n \in Nat
    BY <1>1
  <2>2. 0..n \subseteq S
    BY <1>9, <1>10, <2>1, UpTo
  <2>3. QED
    BY <2>1, <2>2
<1>12. Good(BuildBriefing(order))
  BY <1>7, <1>11 DEF S
<1>13. QED
  BY <1>12 DEF V, Briefs, Lists, scope

RolesInv ==
  /\ Listing(lists)
  /\ desk # Clear => AllTold(desk.profiles, MissionScope(desk.order), lists)
  /\ field.stage = "running" => AllTold(field.brief.profiles, MissionScope(field.brief.order), lists)

LEMMA AllToldGrows ==
  ASSUME NEW profiles, NEW scope, NEW L, NEW M, AllTold(profiles, scope, L),
         Listing(L), Listing(M), Grows(L, M)
  PROVE  AllTold(profiles, scope, M)
  BY ToldGrows DEF AllTold

\* The lists only grow, and what an order that is taken tells is what they hold.
LEMMA ListsTaken ==
  ASSUME RosterInv, DeskTypes, Listing(lists), NEW form \in Forms, NEW address \in Addresses,
         TakeOrder(form, address)
  PROVE  /\ Listing(lists') /\ Grows(lists, lists')
         /\ desk' # Clear => AllTold(desk'.profiles, MissionScope(desk'.order), lists')
<1>1. PICK p \in ProvidersFor(address) \ {NoProvider}, draft \in Hires :
        LET crew    == CrewFor(form, draft)
            order   == Order(form, crew)
            brief   == BuildBriefing(order)
        IN  /\ Nobody \notin Range(crew)
            /\ \/ desk' = Clear /\ lists' = lists
               \/ /\ desk' = [stage |-> "briefed", order |-> order, provider |-> p,
                              profiles |-> brief.profiles, edited |-> FALSE,
                              form |-> form, from |-> roster, taken |-> booked]
                  /\ lists' = brief.lists
  BY Taken
<1>2. CASE desk' = Clear /\ lists' = lists
  BY <1>2 DEF Grows, Begins, Listing
<1>3. CASE ~ (desk' = Clear /\ lists' = lists)
  <2>1. PICK crew, order, brief :
          /\ crew = CrewFor(form, draft) /\ order = Order(form, crew) /\ brief = BuildBriefing(order)
          /\ desk' = [stage |-> "briefed", order |-> order, provider |-> p,
                      profiles |-> brief.profiles, edited |-> FALSE,
                      form |-> form, from |-> roster, taken |-> booked]
          /\ lists' = brief.lists
    BY <1>1, <1>3
  <2>2. crew \in Seq(Agents)
    BY <1>1, <2>1, CrewSought
  <2>3. order.crew = crew
    BY <2>1, OrderCrew
  <2>4. /\ Listing(brief.lists) /\ Grows(lists, brief.lists)
        /\ AllTold(brief.profiles, MissionScope(order), brief.lists)
    BY <2>1, <2>2, <2>3, BriefingTold
  <2>5. desk'.profiles = brief.profiles /\ desk'.order = order
    BY <2>1
  <2>6. QED
    BY <2>1, <2>4, <2>5
<1>4. QED
  BY <1>2, <1>3

LEMMA ListsComposed ==
  ASSUME Listing(lists), NEW a \in Agents, NEW r, NEW scope,
         lists' = Extended(lists, a, Compose(lists, a, r, scope))
  PROVE  Listing(lists') /\ Grows(lists, lists')
  BY Composed

LEMMA ListsStep ==
  ASSUME RosterInv, DeskTypes, Listing(lists), [Next]_vars
  PROVE  Listing(lists') /\ Grows(lists, lists')
<1>1. CASE lists' = lists
  BY <1>1 DEF Grows, Begins, Listing
<1>2. ASSUME NEW a \in Agents, StartTask(a) PROVE Listing(lists') /\ Grows(lists, lists')
  BY <1>2, ListsComposed DEF StartTask
<1>3. ASSUME NEW a \in Agents, OpenProfile(a) PROVE Listing(lists') /\ Grows(lists, lists')
  BY <1>3, ListsComposed DEF OpenProfile
<1>4. CASE UNCHANGED vars \/ Decline \/ Launch \/ Land
           \/ (\E s \in Syndicate, r \in Records : EditSyndicate(s, r))
           \/ \E a \in Agents :
             \/ Rebook(a) \/ \E r \in Ranks : Promote(a, r)
             \/ \E name \in Names, path \in Paths, wellFormed \in BOOLEAN :
                  CallTool(a, name, path, wellFormed)
  BY <1>1, <1>4 DEF vars, Decline, Launch, Land, EditSyndicate, Rebook, Promote, CallTool
<1>5. QED
  BY <1>2, <1>3, <1>4, ListsTaken DEF Next

LEMMA RolesStep ==
  ASSUME RosterInv, DeskTypes, DeskInv, FieldShape, RolesInv, [Next]_vars
  PROVE  RolesInv'
<1>1. Listing(lists) /\ Listing(lists') /\ Grows(lists, lists')
  BY ListsStep DEF RolesInv
<1>2. ASSUME desk # Clear PROVE AllTold(desk.profiles, MissionScope(desk.order), lists')
  BY <1>1, <1>2, AllToldGrows DEF RolesInv
<1>3. desk' # Clear => AllTold(desk'.profiles, MissionScope(desk'.order), lists')
  <2>1. CASE \E form \in Forms, address \in Addresses : TakeOrder(form, address)
    BY <1>1, <2>1, ListsTaken
  <2>2. CASE \E s \in Syndicate, r \in Records : EditSyndicate(s, r)
    <3>1. PICK s \in Syndicate, r \in Records : EditSyndicate(s, r)
      BY <2>2
    <3>2. CASE desk = Clear
      BY <3>1, <3>2 DEF EditSyndicate
    <3>3. CASE desk # Clear
      <4>1. desk'.profiles = desk.profiles /\ desk'.order = desk.order
        BY <3>1, <3>3, DeskKept
      <4>2. QED
        BY <1>2, <3>3, <4>1
    <3>4. QED
      BY <3>2, <3>3
  <2>3. CASE desk' = desk \/ desk' = Clear
    BY <1>2, <2>3
  <2>4. QED
    BY <2>1, <2>2, <2>3 DEF Next, vars, Decline, Launch, StartTask, CallTool, Land, OpenProfile, Promote,
       Rebook
<1>4. field'.stage = "running" => AllTold(field'.brief.profiles, MissionScope(field'.brief.order), lists')
  <2>1. ASSUME field.stage = "running"
        PROVE  AllTold(field.brief.profiles, MissionScope(field.brief.order), lists')
    BY <1>1, <2>1, AllToldGrows DEF RolesInv
  <2>2. CASE field' = field
    BY <2>1, <2>2
  <2>3. CASE field' = Clear
    BY <2>3 DEF Clear
  <2>4. CASE Launch
    <3>1. field'.brief = desk /\ desk # Clear
      BY <2>4, FieldLaunched
    <3>2. QED
      BY <1>2, <3>1
  <2>5. CASE field.stage = "running" /\
             \/ \E a \in Agents : StartTask(a)
             \/ \E a \in Agents, name \in Names, path \in Paths, wellFormed \in BOOLEAN :
                  CallTool(a, name, path, wellFormed)
    <3>1. field'.brief = field.brief
      BY <2>5, FieldWorks
    <3>2. QED
      BY <2>1, <2>5, <3>1
  <2>6. QED
    BY <2>2, <2>3, <2>4, <2>5, FieldSteps
<1>5. QED
  BY <1>1, <1>3, <1>4 DEF RolesInv, AllTold, Told, Listing

\* What a task was started with, against what was disclosed of its agent.
DriftsAt(f, a) ==
  LET shown == f.brief.profiles[a]
      run   == f.prompts[a]
  IN  shown # NoProfile /\ run # NoProfile /\ shown.rank = run.rank =>
        /\ [run EXCEPT !.roles = <<>>] = [shown EXCEPT !.roles = <<>>]
        /\ IsPrefix(shown.roles, run.roles)

LEMMA DriftStarted ==
  ASSUME RolesInv, FieldShape, OnlyRolesDrift, NEW a \in Agents, StartTask(a)
  PROVE  OnlyRolesDrift'
<1> DEFINE scope == MissionScope(field.brief.order)
           p == Compose(lists, a, field.seen[a], scope)
<1>1. field.stage = "running" /\ field' = [field EXCEPT !.prompts[a] = p]
  BY DEF StartTask
<1>2. /\ field = [stage |-> "running", brief |-> field.brief, provider |-> field.provider,
                  seen |-> field.seen, prompts |-> field.prompts, last |-> field.last]
      /\ DOMAIN field.prompts = Agents
  BY <1>1 DEF FieldShape, Clear
<1> HIDE DEF p
<1>3. field'.brief = field.brief /\ field'.prompts = [field.prompts EXCEPT ![a] = p]
  BY <1>1, <1>2
<1>4. ASSUME NEW b \in Agents PROVE DriftsAt(field', b)
  <2>1. CASE b # a
    <3>1. field'.prompts[b] = field.prompts[b]
      BY <1>2, <1>3, <2>1
    <3>2. DriftsAt(field, b)
      BY <1>1 DEF OnlyRolesDrift, DriftsAt
    <3>3. QED
      BY <1>3, <3>1, <3>2 DEF DriftsAt
  <2>2. CASE b = a
    <3> DEFINE shown == field.brief.profiles[a]
    <3>1. field'.prompts[a] = p
      BY <1>2, <1>3
    <3>2. Listing(lists) /\ Told(shown, a, scope, lists)
      BY <1>1 DEF RolesInv, AllTold
    <3>3. p.rank = field.seen[a]
      BY DEF p, Compose
    <3>4. shown # NoProfile /\ shown.rank = p.rank =>
            [p EXCEPT !.roles = <<>>] = [shown EXCEPT !.roles = <<>>] /\ IsPrefix(shown.roles, p.roles)
      <4> HIDE DEF shown, scope
      <4>1. QED
        BY <3>2, <3>3, Drifts DEF p
    <3>5. QED
      BY <1>3, <2>2, <3>1, <3>4 DEF DriftsAt
  <2>3. QED
    BY <2>1, <2>2
<1>5. QED
  BY <1>4 DEF OnlyRolesDrift, DriftsAt

LEMMA DriftStep ==
  ASSUME RolesInv, FieldShape, OnlyRolesDrift, [Next]_vars
  PROVE  OnlyRolesDrift'
<1>1. CASE field' = field
  BY <1>1 DEF OnlyRolesDrift
<1>2. CASE field' = Clear
  BY <1>2 DEF OnlyRolesDrift, Clear
<1>3. CASE Launch
  <2>1. \A a \in Agents : field'.prompts[a] = NoProfile
    BY <1>3 DEF Launch
  <2>2. QED
    BY <2>1 DEF OnlyRolesDrift
<1>4. CASE field.stage = "running" /\ \E a \in Agents : StartTask(a)
  BY <1>4, DriftStarted
<1>5. CASE field.stage = "running" /\
           \E a \in Agents, name \in Names, path \in Paths, wellFormed \in BOOLEAN :
             CallTool(a, name, path, wellFormed)
  <2>1. field = [stage |-> "running", brief |-> field.brief, provider |-> field.provider,
                 seen |-> field.seen, prompts |-> field.prompts, last |-> field.last]
    BY <1>5 DEF FieldShape, Clear
  <2>2. PICK l : field' = [field EXCEPT !.last = l]
    BY <1>5 DEF CallTool
  <2>3. field'.brief = field.brief /\ field'.prompts = field.prompts /\ field'.stage = field.stage
    BY <2>1, <2>2
  <2>4. QED
    BY <2>3 DEF OnlyRolesDrift
<1>6. QED
  BY <1>1, <1>2, <1>3, <1>4, <1>5, FieldSteps

\* Whatever blocks, instructions and crew, and whatever the process composed
\* in between: of an agent that was not promoted since the briefing everything
\* but the roles runs as it was disclosed, and no disclosed role is missing.
THEOREM OnlyRolesDriftHolds == Spec => []OnlyRolesDrift
<1>1. Init => FieldShape /\ FieldGated /\ RosterInv /\ RolesInv /\ OnlyRolesDrift
  BY DeskInit, RosterInit, ListingFresh DEF Init, RolesInv, OnlyRolesDrift, Clear
<1>2. DeskTypes /\ DeskInv /\ FieldShape /\ FieldGated /\ RosterInv /\ RolesInv /\ OnlyRolesDrift /\ [Next]_vars
        => (FieldShape /\ FieldGated /\ RosterInv /\ RolesInv /\ OnlyRolesDrift)'
  BY ShapeStep, RosterStep, RolesStep, DriftStep
<1>3. QED
  BY <1>1, <1>2, GatesHeld, PTL DEF Spec
=============================================================================
