----------------------------- MODULE Syndicates -----------------------------
(***************************************************************************)
(* Syndicates, their channels and the capability arithmetic that decides    *)
(* which channel may serve a mission: lib/dispatch/syndicate.py, and what   *)
(* the harness then offers a task (lib/dispatch/harness/loop.py).           *)
(*                                                                         *)
(* A syndicate is a record [slug, enabled, egress, transport, channels], a  *)
(* channel [slug, default, capabilities, profile]; both are read from the   *)
(* inventory and carried by the provider built from them.  All operators    *)
(* here are functions of the records they are given.                        *)
(***************************************************************************)
EXTENDS Integers, FiniteSets

CONSTANTS
  Capabilities,    \* the vocabulary (channel_capability)
  Unknown,         \* capability slugs that records may hold besides
  Requires,        \* what each capability depends on
  HarnessTools,    \* the function names each capability covers
  Hazard,          \* each capability's hazard
  Ceilings,        \* transport -> the capabilities it can carry, {} for any
  ToolTransports,  \* transports whose handler carries tool calls
  Rows,            \* the harness functions: [name, depot]
  NoDepot,         \* a harness function that needs no depot tool
  Profiles,        \* harness profile -> the functions it allows
  NoProfileNamed,  \* a channel that names no harness profile
  NoProvider       \* an address the inventory cannot answer

EgressRank == [local |-> 0, private |-> 1, public |-> 2]

Slugs == Capabilities \union Unknown

Needs(c) == IF c \in Capabilities THEN Requires[c] ELSE {}

Closed(S) == \A c \in S : Needs(c) \subseteq S

\* The least closed set around S.
ExpandDependencies(S) ==
  {c \in Slugs : \A T \in SUBSET Slugs : S \subseteq T /\ Closed(T) => c \in T}

RequiredCapabilities(order) ==
  ExpandDependencies(
    {"text_generation"}
    \union {c \in Capabilities : HarnessTools[c] \intersect order.tools # {}}
    \union (IF order.readOnly THEN {} ELSE {"filesystem_write"}))

ChannelCapabilities(ch) == ExpandDependencies(ch.capabilities)

\* Nothing undeclared, nothing unmet, nothing the transport cannot carry.
Consistent(s, ch) ==
  /\ ch.capabilities \subseteq Capabilities
  /\ Closed(ch.capabilities)
  /\ s.transport \in DOMAIN Ceilings
  /\ Ceilings[s.transport] # {} => ch.capabilities \subseteq Ceilings[s.transport]

CapabilityViolation(order, s, ch, policy) ==
  \/ ~ Consistent(s, ch)
  \/ EgressRank[s.egress] > EgressRank[policy]
  \/ ~ RequiredCapabilities(order) \subseteq ChannelCapabilities(ch)

ModalityViolation(order, modality) == modality = "readonly" /\ ~ order.readOnly

\* The flagged channel, else the only one.
DefaultChannels(s) ==
  LET flagged == {ch \in s.channels : ch.default}
  IN  IF flagged # {} THEN flagged
      ELSE IF Cardinality(s.channels) = 1 THEN s.channels ELSE {}

AddressedChannels(s, slug) ==
  IF slug = "" THEN DefaultChannels(s) ELSE {ch \in s.channels : ch.slug = slug}

\* The providers an address may resolve to.  With two flagged defaults the
\* record's order decides, which is left open.
GetProvider(inventory, slug, channel) ==
  LET s     == inventory[slug]
      found == IF s.enabled /\ s.transport \in DOMAIN Ceilings
               THEN AddressedChannels(s, channel) ELSE {}
  IN  IF found = {} THEN {NoProvider}
      ELSE {[syndicate |-> s, channel |-> ch] : ch \in found}

CapabilityOfTool(name) == {c \in Capabilities : name \in HarnessTools[c]}

\* What the channel's harness profile leaves of the allowed functions: all
\* when it names none, nothing when the name does not resolve.
WithinProfile(ch) ==
  IF ch.profile = NoProfileNamed THEN {r.name : r \in Rows}
  ELSE IF ch.profile \in DOMAIN Profiles THEN Profiles[ch.profile] ELSE {}

OfferedFunctions(order, provider, grants) ==
  LET ch == provider.channel
      granted == ChannelCapabilities(ch)
  IN  IF provider.syndicate.transport \notin ToolTransports \/ "tool_use" \notin granted
      THEN {}
      ELSE {r.name : r \in
             {x \in Rows : /\ x.name \in order.tools \intersect WithinProfile(ch)
                           /\ \E c \in CapabilityOfTool(x.name) : c \in granted
                           /\ x.depot = NoDepot \/ x.depot \in grants}}

Mutating(name) == \E c \in CapabilityOfTool(name) : Hazard[c] = "mutation"
=============================================================================
