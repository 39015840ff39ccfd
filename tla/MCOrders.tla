------------------------------ MODULE MCOrders ------------------------------
(***************************************************************************)
(* One inventory of a harnessed syndicate with two channels, in the forms   *)
(* an operator gives it; three agents of one archetype and one to be hired;  *)
(* a working directory with a file, a .git directory and links that lead    *)
(* out of it.                                                               *)
(***************************************************************************)
EXTENDS Orders, TLC
CONSTANTS ann, bob, cid, dot, admin, c0, c1, r0, r1, r2, kit, lamp
MCAgents == {ann, bob, cid, dot}
MCArchetypeOf == [x \in MCAgents |-> admin]
MCInstruction == admin :> admin
MCBase == admin :> [constraints |-> <<c0>>, secondary |-> <<r0>>, listed |-> TRUE]
AllScopes == {"read_only", "supervised"}
MCBlocks == <<
  [archetypes |-> {admin}, ranks |-> {1, 4}, scopes |-> {"read_only"},
   roles |-> <<r1>>, constraints |-> <<c1>>, removals |-> {}, locks |-> {}],
  [archetypes |-> {admin}, ranks |-> {4}, scopes |-> AllScopes,
   roles |-> <<r2>>, constraints |-> <<>>, removals |-> {c0}, locks |-> {}],
  [archetypes |-> {admin}, ranks |-> {1}, scopes |-> {"supervised"},
   roles |-> <<>>, constraints |-> <<>>, removals |-> {}, locks |-> {kit}]>>
MCDepot == admin :> {kit, lamp}
MCCore == admin :> [shell |-> 2, audit |-> 5]

MCCapabilities == {"text_generation", "tool_use", "filesystem_read", "filesystem_write"}
MCRequires == [text_generation |-> {}, tool_use |-> {}, filesystem_read |-> {"tool_use"},
               filesystem_write |-> {"filesystem_read"}]
MCHarnessTools == [text_generation |-> {}, tool_use |-> {},
                   filesystem_read |-> {"Read", "LS", "Glob", "Grep"}, filesystem_write |-> {"Edit"}]
MCHazard == [text_generation |-> "none", tool_use |-> "escalation",
             filesystem_read |-> "disclosure", filesystem_write |-> "mutation"]
MCCeilings == [cli |-> {}, chat |-> {"text_generation", "tool_use", "filesystem_read"}]
MCRows == {[name |-> "Read", depot |-> NoDepot], [name |-> "LS", depot |-> kit],
           [name |-> "Glob", depot |-> NoDepot], [name |-> "Grep", depot |-> NoDepot]}
MCProfiles == [compact |-> {"Read", "LS"}]

Channel(caps, default, profile) ==
  [slug |-> profile, default |-> default, capabilities |-> caps, profile |-> profile]
Reading == {"text_generation", "tool_use", "filesystem_read"}
Of(enabled, egress, transport, channels) ==
  [slug |-> "s", enabled |-> enabled, egress |-> egress, transport |-> transport,
   channels |-> channels]
MCRecords == {
  Of(TRUE, "private", "chat", {Channel(Reading, TRUE, "none"), Channel(Reading, FALSE, "compact")}),
  Of(TRUE, "private", "chat", {Channel(Reading \ {"tool_use"}, FALSE, "compact")}),
  Of(TRUE, "public", "cli", {Channel(MCCapabilities, FALSE, "none")}),
  Of(TRUE, "private", "chat", {Channel(Reading, TRUE, "lost")})}
MCSyndicate == {"s"}
MCAddresses == {<<"s", "">>, <<"s", "compact">>}
MCDefaultAddress == <<"s", "">>
MCRoster == <<ann, bob, cid>>
MCBookings == {{}, {bob}}
MCWorth == [x \in MCAgents |->
  [dns |-> CASE x = ann -> 4 [] x = bob -> 2 [] OTHER -> 1, sql |-> IF x = bob THEN 1 ELSE 0]]
MCViolations == [x \in MCAgents |-> IF x = ann THEN 1 ELSE 0]
MCExperience == [x \in MCAgents |-> IF x = cid THEN 1 ELSE 0]
MCDefaultTools == {"Read", "Grep"}
MCWorkTools == {"Read", "Edit"}
\* An ad-hoc task as both front ends may ask for it.
Task(means, names, terms, n) ==
  [means |-> means, names |-> names, terms |-> terms, count |-> n, kind |-> "task",
   scoped |-> FALSE, tools |-> {}, readOnly |-> TRUE, verbose |-> FALSE]
Scoped(form, tools) == [form EXCEPT !.scoped = TRUE, !.tools = tools]
MCForms == {
  Task("named", <<ann>>, {}, 1),
  Task("skill", <<>>, {"dns"}, 2), Task("skill", <<>>, {"sql"}, 1), Task("count", <<>>, {}, 1),
  Scoped([Task("named", <<ann, bob>>, {}, 3) EXCEPT !.kind = "codebase", !.verbose = TRUE], {"Read", "Glob"}),
  Scoped([Task("count", <<>>, {}, 3) EXCEPT !.kind = "security"], {"LS"}),
  Scoped([Task("named", <<bob>>, {}, 1) EXCEPT !.verbose = TRUE], {}),
  [Task("named", <<ann>>, {}, 1) EXCEPT !.kind = "cycle", !.readOnly = FALSE, !.verbose = TRUE]}
MCConfigs == {[modality |-> "readonly", egress |-> "private"],
              [modality |-> "supervised", egress |-> "public"]}

MCEntries == {"top", "work", "note", "git", "config", "out", "secret", "link", "door", "near"}
MCParent == [top |-> "top", work |-> "top", note |-> "work", git |-> "work", config |-> "git",
             out |-> "top", secret |-> "out", link |-> "work", door |-> "work", near |-> "work"]
MCKind == [top |-> "dir", work |-> "dir", note |-> "file", git |-> "dir", config |-> "file",
           out |-> "dir", secret |-> "file", link |-> "link", door |-> "link",
           near |-> "link"]
MCTarget == [link |-> "secret", door |-> "out", near |-> "note"]
=============================================================================
