# nim.agency: formal model

TLA+ models of nim.agency, the TLC runs that check them and the TLAPS proofs about
them. nim.agency runs "missions" (sets of tasks with dependencies) on language-model
providers for a crew of "agents" whose records, projects, gold, skills, badges and
machines it keeps in files. It is a single-user program, but several processes and many
coroutines of it work on the same files: CLI commands, the terminal interface and its
worker thread, and missions that stay out for minutes. There is no lock anywhere.

## Inventory

| part | state | operations | hard behaviours | correct when |
|---|---|---|---|---|
| dispatcher (`lib/dispatch/dispatcher.py`, `mission.py`) | mission and task statuses, semaphore, known-answer cache, conduct ledger | intake, waves, tasks, known-answer check, payroll, verdict, interrupt | coroutines of a wave, failures in mid-wave, cycles, stale agent records, orphans of timeouts | limit held, one verdict and the right one, verified work paid |
| projects and engagements (`lib/data/project.py`, `lib/cli/project.py`) | project record: status, engagement rows, journal | new, edit, assign, release, pause, resume, complete, cycle | processes that read and write back whole lists around a mission and a prompt; crashes | one engagement per agent, bookings within caps, cycles serialize, history stays |
| economy and ledger (`lib/data/economy.py`) | xp, gold, rank, skill points, tools; append log of gold | award, payroll, train, equip | two files per operation, stale copies, torn ledger | ledger explains balances, points match ranks |
| agent generation, rerolls (`lib/data/generator.py`, `tui/views/progression.py`) | a rolled agent | generate, reroll one part or all | caps met by dice, purses changed outside the ledger | points are in the skills, nobody in debt |
| relay (`lib/dispatch/bird.py`) | problems, tries, retransmit budget, deadline | transmit, back off, record | retries racing one deadline, budget shared by the exchanges of a task | ends in time, budget held, anomalies recorded |
| harness loop (`lib/dispatch/harness/loop.py`, `provider.py`) | transcript, tokens, wrap-up flag, context budget | turn, tool call, finish | budgets that run out between and within turns | ends, bounded, answers never cut |
| harness executor and matcher (`harness/executor.py`, `matcher.py`) | none | admit a call, resolve its path, read, list, glob, grep | links, depths, writes under a read-only order | nothing outside the working directory, nothing ungranted |
| briefing, builder (`briefing.py`, `builder.py`, `cli/dispatch.py`) | the order on the operator's desk | build, gate, disclose, confirm | gates asked twice, the world edited between disclosure and launch | the briefing binds |
| composer (`lib/data/composer.py`) | the process-wide lists of secondary roles | compose a profile from blocks | a shared list that composing extends | what is disclosed is executed |
| syndicates, channels (`syndicate.py`) | provider records | resolve an address, close capabilities, gate, grant functions | records edited under a mission | calls within order, channel and depot at once |
| roster, crew (`lib/data/roster.py`, `lib/cli/common.py`) | the agents | match by terms, choose by count or name, hire | bookings read before they change, ties, hires of a refused order | the booked are left out, the best are chosen |
| datastore (`crud.py`, `refs.py`, `schema.py`) | record files, tables, caches | create, read, replace, move, delete, add and delete rows | in-place writes, moves, caches of long-lived processes | a record exists once, a mishap costs one record |
| drafts and forms (`drafts.py`, `forms.py`) | draft records | start, fill, check, commit, delete | lost updates, dangling references | no record points at a row that is gone |
| logs (`ops_log.py`, `hq_log.py`) | CSV and JSON dispatch log, operations log | make, append, cap, summarise | two files per entry, whole-file rewrites | the logs agree and count what was done |
| terminal interface (`src/tui`) | roster, dossier, crue on screen; a worker thread | open, buy, upgrade, reroll, edit, enlist, launch | copies held while a mission pays | no old copy written back |
| identity, enrollment (`identity.py`) | badge: key, manifest, record | roll, hire, rename, retire, enroll, backfill | death between the three stores, names shared | a badge is backed and kept |
| vault, keys (`lib/remote/vault.py`) | master file, session file, credential files, keys in memory | initialize, unlock, lock, store, change passphrase | session expiry, partial rewrites, two processes | credentials stay readable |
| connections (`ssh.py`) | host keys, pool, links | learn, verify, dial, share, close all | first-use races, tasks that share, a pool closed under them | keys never change silently, one link per host |
| remote operations (`protocol.py`, `safety.py`) | audit file | classify, permit, run, batch, deploy | whole-file rewrites | the audit file is the newest responses |
| installation (`lib/install`) | environments, receipts | create, recreate, remove, doctor | stops in the middle, shared directories | receipt matches the directory |
| the rest | - | see "Not modelled" | - | - |

How they interact. A command (or the interface) resolves a provider and a crew, builds an
order, shows a briefing composed from the agents, and asks for consent. The dispatcher
gates the order again, composes each task's prompt, and sends tasks in waves to the
provider, through the relay and, where the channel offers functions, the harness, whose
executor serves the calls. It writes conduct and engagement rows and the dispatch log, and
calls the paymaster. A project command then reads the project again and appends to its
journal. The interface does the same on a worker thread while its screens hold copies of
the records being paid. Enrolling, the vault, remote hosts and installation touch the rest
only through the agents' records and the datastore. Everything shared goes through files.

## Modules

| module | models |
|---|---|
| `Dispatch` | `Dispatcher.execute`, one mission |
| `Engagements` | project records under concurrent CLI processes |
| `Generator` | what the dice decide of an agent's economy |
| `Paymaster` | the economy, rerolls and the append to the ledger; extends `Generator` |
| `Bank` | what the economy promises, abstractly |
| `Relay` | `bird.transmit` and its ledger, the requests of one task |
| `Harness` | `HttpProvider.execute` and the tool loop; extends `Relay`, and implements it |
| `Composer`, `Crew`, `Syndicates`, `Executor` | profile composition, choice of a crew, providers and grants, tool calls |
| `Orders` | a mission from its form to its tool calls; extends the four above |
| `DataStore` | collections, tables and drafts |
| `Console` | the screens and the worker thread |
| `Journals` | the dispatch log and the operations log |
| `Enrollment` | recruiting and enrolling |
| `Vault` | the credential vault |
| `Instances` | installed instances |
| `Connections` | host keys, pool and links |
| `RemoteOps` | the remote executor and its audit file; extends `Connections` |
| `MCDispatch`, `MCEngagements`, `MCHarness`, `MCOrders`, `MCVault` | instances of one component |
| `MCMission`, `MCRecords`, `MCMachines` | several components in one run, see below |
| `MissionProofs`, `EngagementProofs`, `HarnessProofs`, `VaultProofs`, `EnrollmentProofs`, `MachineProofs`, `RecordProofs`, `OrdersProofs` | theorems |

Three MC modules hold components that share no variable: `MCMission` has `Dispatch` and
`Paymaster`, `MCRecords` has `Console`, `DataStore` and `Journals`, `MCMachines` has
`RemoteOps`, `Enrollment`, `Vault` and `Instances`. A behaviour of such a module is a
behaviour of one of its components, chosen by `part` at the start, while the others keep
one initial state: the reachable states are the sum of the components', not the product.
Nothing is claimed about an interplay there. Interplay is modelled where the code has it:
`Harness` over `Relay`, `RemoteOps` over `Connections`, `Orders` over its four, `Paymaster`
over `Generator`.

What one action is. Within a process of asyncio, the code between two awaits: nothing else
of that process runs in between. Between processes, one read or one write of a file. The
modules whose subject is what a death or another process does inside a write (`DataStore`,
`Journals`, `Vault`, `Enrollment`, `Paymaster`'s ledger, the files of `Connections` and
`RemoteOps`) split a write in two, the truncation by `open(path, "w")` and the filling; the
others take `DataStore.update` (read, merge, write) for one step and say so.

### Dispatch

A state is a mission in flight: task and mission statuses, the wave released, the tasks
inside the semaphore, the subprocesses still alive, conduct on disk, the crew's
engagement rows and what was paid. `Refuse`, `Begin` are the intake; `NextWave`,
`Stuck`, `LeaveLoop`, `WaveEnds` the loop of `execute`; `StartTask`, `MissAgent`,
`FinishTask` the coroutine `run_task` between its awaits; `Conclude`, `PayAgent`,
`LogVerdict`, `Settle` the tail; `Interrupt` a death of the process. Left out: texts,
events, the per-task log entries (`Journals`), and everything below the provider's answer.

Fairness: weak fairness of the dispatcher's own steps. The event loop runs every
ready coroutine, and a provider either answers or hits the task's deadline, which the
code enforces with `wait_for`. Nothing is assumed of the environment (strikes, orphans).

### Engagements

`store` is the project records on disk, `proc` what each running command remembers: the
rows, journal and crew it read and will write back. `StartX` is the read and the checks
of a command, `X` its write. A cycle goes `StartCycle` (all checks), `Decline` or
`RefuseMission` or `Dispatch` (the dispatcher reads the project for itself), `Swarm`,
`Land`, `Reread`, `Journal`, and back to the head of the next round. `Crash` ends a
process anywhere. `DataStore.update` reads the record again, merges the fields given and
writes the file; this is one step here, so a list is lost as a whole but never torn, and
two updates of different fields do not lose each other. No fairness: operators owe nothing.

### Generator, Paymaster, Bank

`Generate` is the set of records the dice can make: experience and the rank it unlocks, or
a fixed rank with the experience to match, gold, skill points spread under caps
(`RandomSkills`, which loses what the last domain has no room for), starter tools bought
from a purse. `agents` is the balances, `ledger` the file with its last complete content
and whether it is torn, `proc` the clerks: processes in an economy operation. `StartCredit`,
`StartTrain`, `StartEquip`, `StartReroll`, `PayNext` read an agent; `Save` writes what was
computed from that copy; `LoadLedger`, `OpenLedger`, `WriteLedger` are `_append_to_log`;
`Credit` is the second update of the payroll. `office` is the situation: who works, for
whom, and whether clerks may die. `Bank` moves gold and enters it in one step, and lets
dice move gold unentered, counted; with one clerk and no crash `Paymaster` implements it,
an account having moved once the ledger says so.

### Relay

`link` says where `transmit` is: sending (in `wait_for`), sleeping (in `back_off`), or
back with a reply or an exception. Time is counted down: `left` is what `deadline -
time.monotonic()` would say, `timer` what remains of the wait. `Fail(s)` is a request that
ends in anomaly `s`, `FailUnclassified` one that `classify_exception` does not know,
`Reply(F)` a reply in which `inspect` finds `F`; each records, resends or gives up as the
code does. `Floor`, `MinAttempt` and `Grace` are the code's `max(1.0, ...)`,
`MIN_ATTEMPT_SECONDS` and the five seconds added to `wait_for`. The socket's own timeout is
shorter than that of `wait_for`, so a timeout may be seen before the timer runs out.
`Call` and `Notice` stand for any caller; `Harness` is one, and implements them.

Fairness: time passes, a timer that has run out is served before time goes on (the event
loop is prompt, and `transmit` computes in no time), nothing else. An endpoint that never
answers is a behaviour of the model. A worker thread `wait_for` abandons changes no state
and is left out.

### Harness

`stage` says where `execute` is: before the choice of path, in the single-shot request, at
the head of the loop, in a turn's request, between its calls, in a call, done. `remaining`
is the task's deadline, checked at the head of the loop only. The history variables
`refusedAt` and `ranAt` are what the loop reads from its transcript; `told` is the turn
whose results carried the wrap-up note. The context window is reduced to the three
questions the loop asks: did the prompt overflow, is there no room for results (`full`), is
the room low; only a channel that states its window can answer yes. A call's outcome (ok,
refused, error) does not change the loop, so there is one `EndCall`; `AbandonCall` is the
same step when the timer ends it. Fairness: the coroutine's own steps, time and timers.

### Orders, with Composer, Crew, Syndicates, Executor

One process, a command (`entry = "cli"`) or the interface (`"tui"`). `TakeOrder` is
everything up to the disclosure: the address is resolved (`GetProvider`), a crew chosen
(`ResolveCrew` or `BriefedCrew`, perhaps hiring), the order built by its template, both
gates asked, and where the form is verbose every member composed. The result lies on
`desk`. `Launch` asks the gates again and puts it in the `field`, with the provider the
entrance uses: the disclosed one on the command line, one resolved anew in the interface.
`StartTask` composes an agent's prompt from the record loaded at launch, `CallTool` has the
executor admit and serve a call, `Land` ends it. `Promote`, `Rebook`, `EditSyndicate` are
other processes, `OpenProfile` the dossier, which composes too. `lists` is the composer's
state: `Extended` is the aliasing of `composer.py`, where selecting blocks appends to a
list that the reference cache owns. `Executor` has a file tree with links: `Resolve` is the
path check, `Run` what each function may answer and whose contents or names it shows.

### DataStore

One collection whose files a layout names, one table its records point at, and every
process's cache of the table. A save is a job: `Create`, `Replace` begin it,
`Truncate`, `FillRecord`, `Unlink` carry it out (a moved record is written to its new file
before the old one goes); `AddRow`, `RewriteRow`, `DeleteRow` read the table and begin a
rewrite that `FillTable` ends. `OpenNew`, `Open`, `Rename`, `PointAt`, `PointAway`,
`Leave` are a draft, with `problems` asked on save and `inbound` on delete. `Crash` is a
death inside a job. `races` counts operations begun while another was under way, `crashes`
deaths: the properties bound damage by their sum.

### Console

The keyboard loop with its copies (`roster`, `dossier`, `company`, `crue`), the store and
the worker. Screens write a whole copy (`WriteCopy`), the form's fields (`SaveEdit`) or two
records (`Commit`), and reload what they reload. `Launch`, `Pay`, `Finish`, `Raise`,
`Background`, `Quit` are the mission. `due` is what each agent's balances and role should
be, `loose` whether the operator left a mission in the background, its thread raised, or
an agent was edited in the composer, which has no roster to reload.

### Journals

Every process goes through the making of the three files (asked, then made), and then has
entries to write: `AppendCsv`, then `ReadJson`, `CutJson`, `FillJson`. `Start`, `Dispatched`,
`Answered`, `Orphan`, `Ended` are what `execute` and `run_task` log, `LogOps` the operations
log. `outcome` is what `execute` counted.

### Enrollment

`Roll`, `Rechristen`, `Drop`, `Hire`, `Retire`, `Rename` are recruiting; `LookUp` and
`Backfill` take copies; `Claim` or `Refuse`, `Generate` or `GenerateFails`, `OpenManifest`,
`FillManifest`, `Record` are `enroll`, with `VaultDir` the choice of the directory.
ssh-keygen is external: it makes a pair or fails, and fails over one that is there.

### Vault

The master file, the session file and the credentials, each absent, torn or whole; every
process's key in memory and whether its screens believe the vault open. A write is a job
with an open and a fill. The cipher is external: what was encrypted under a key is read
with that key, and a wrong passphrase is told apart. `ChangePassphrase` has two outcomes,
as the code decodes bytes that are not base64: it is refused, or stores garbage.

### Instances

`dirs` is the directories, `receipts` the collection, `job` the commands: `create` goes
clear, build, pip, save, mirror; `remove` goes rmtree, rmdir, delete, and fails where its
directory is gone or filled again meanwhile; `doctor` looks and
writes the receipt back. `paths.py` resolves a directory without asking the receipts, so
any is chosen for any instance.

### Connections, RemoteOps

`known` is what each process loaded of `file`, `conns` every connection object with its
link, flag and whether the pool lists it, `call` what each task is doing. `Get` is
`get_connection` up to its first await, `Dial` the handshake and the verdict on whichever
key the host shows, `Save` the whole-file write, `Redial` what `run` does to an object that
is not connected, `Close` to `Clear` the loop of `close_all` with its awaits. `RemoteOps`
has tasks bring jobs (a command, a batch, a script, a deployment of three), which are
permitted or not, issued, answered and logged (`Cut`, `Fill`). Links drop, processes die.

## Runs

| run | instance | shows |
|---|---|---|
| `mission` | every plan over three tasks, cyclic and dangling ones included; three offices of the economy: one clerk and any recruit, one clerk and a crew, two clerks that race and die | nothing is released after a failure, complete missions are complete, verified work is paid once, conduct is never overcharged and is charged in full where tasks of an agent cannot overlap, missions end; ranks and points agree, points are in skills, the economy implements `Bank` |
| `engagements_serial` | one operator, three projects with caps 1, 2 and 1, two agents, crashes, `--force` | bookings fit the caps, rows swarm only with a mission out, history stays, one engagement per agent |
| `harness` | three turns of a call each, one resend of each kind of anomaly, two timeouts | the relay used as specified, bounded overshoot, the wrap-up handshake, whole answers, termination |
| `orders` | both entrances, eight forms, four versions of a syndicate, four agents one of whom is yet to be hired, two missions, one edit, one look, one call | the briefing binds, only secondary roles drift, calls stay within order, channel, depot and directory, crews are the qualified |
| `records` | two processes, two records, a table of two rows; two agents, a crue, three writes and a mission; two processes that log missions of two tasks | a mishap costs one record, moves leave one copy, no dangling reference, no stale copy, counters cover members, the logs agree and count |
| `machines` | two processes of three tasks over two hosts and two keys; two processes that enroll two agents under two names, that use a vault of two credentials, that install two instances in two directories | keys trusted once, one link, the audit tail; badges backed and kept, stray keys and files explained; credentials readable |
| `dispatch_cycle` | the cyclic plans | violated: a mission stuck on a cycle is marked complete and paid the bonus |
| `dispatch_channel` | three tasks, channel limit 1 | violated: a timed-out exchange leaves its subprocess behind |
| `engagements_overlap` | two operators | violated: two cycles of a project are out |
| `engagements_history` | two operators | violated: a released row becomes active again |
| `orders_prompts` | as `orders` | violated: a prompt executed is not the prompt disclosed (`composer.py:463`) |
| `vault_passphrase` | two processes, no crash | violated: after a change of passphrase no passphrase opens the vault (`vault.py:580`) |

Many properties bound damage instead of excluding it: the code has no locks and no atomic
writes, so what it can promise is that every lost record, stray key, unbacked receipt or
cut credential is paid for by a mishap (a death, an overlap), one for one. Such a property
says that in the absence of mishaps nothing is lost, and that one mishap does not cascade.

Bounds. Three tasks give every dependency shape the loop distinguishes (none, chain, fork,
join, cycle, dangling). Engagements are bounded by the rows ever made, the journal and the
rounds of `-n`; two of each let every stale list be written over a newer one. The economy
is bounded by ledger entries and experience; three thresholds let a penalty fall below one
and a promotion cross it again. The harness' three turns are the least in which a model is
told, refused and ended, and its deadline of three units falls before, in and after a turn.
Two missions in `orders` are the least in which a composition of the first reaches the
second. In `records` and `machines` two processes with two mishaps give an overlap with a
death inside it; three data operations let a record be saved, moved and deleted; a JSON log
of six entries is cut by a mission of two tasks; an audit file of two entries by the third.
The bounds stand in guards of the actions that start something, so that what was started
always ends. They are the constants named `Max...`, `Cap` and `entries`.

Symmetry is used over processes, agents, hosts, names, records and credentials, in runs
without liveness properties only; in `machines` one model value stands for several kinds of
things, and a permutation renames them all.

Fairness is assumed of `Dispatch` and `Harness` only, as said there. No other component
promises progress: operators, other processes, remote hosts and ssh-keygen owe nothing.

## Where code and text disagree

The six violation runs are the disagreements that a run states. Others met on the way; the
models have the behaviour unless said otherwise:

- `identity.py:100`: whether an agent has its badge is asked of the caller's copy, while the
  docstring says "there is deliberately no re-issue path". An agent renamed since the copy
  was made gets a second pair; `KeyKept` excepts the renamed and the contested.
- `crud.py:844`: two appends at once erase entries of the ledger that `economy.py:117` calls
  immutable.
- `economy.py:5`: "every gold movement lands in the ledger"; the shop (`dossier.py`) and the
  rerolls (`progression.py`) move gold past it. `Bank` admits the rolls and counts them.
- `generator.py:506`: points the last skill domain has no room for are assigned and in no
  skill; `PointsInSkills` counts them as lost.
- `common.py:67`: the preference for new archetypes never takes effect, since the other half
  of the test holds of every agent below the count.
- `tui/views/dispatch.py:228`: "first available" looks at no booking.
- `protocol.py:303`: the request is asked for an attribute it lacks, so an operation that
  needs confirmation is neither confirmed nor run, and logged as failed.
- `bird.py:245`: every anomaly is said to land on the ledger; a suspected truncation found in
  an empty reply that is resent never does.
- A reply whose fields are not objects raises `AttributeError` out of the single-shot path
  (`escaped` in `Harness`), which `asyncio.gather` hands on to the wave.
- Two tasks of one agent refused in one wave are charged once; a cycle that waits for
  consent goes out on a project paused meanwhile; a completed project takes a new engagement.
- With two clerks a promotion's points vanish under a training that read the total before,
  and a death after `Save` leaves gold that no entry explains; the properties that would deny
  it are stated of one process at a time (`Alone`).

## Hazards without an entry of their own

`PROJECT.json` lists forty hazards with their properties. The models meet these as well:

| where | what | covered by, or why not |
|---|---|---|
| `lib/dispatch/dispatcher.py:450` | The coroutines of one wave interleave at the semaphore and at the provider's answer; a task could be started before its dependencies or over the limit in an order no test drives. | FailureEndsWithItsWave |
| `lib/dispatch/dispatcher.py:252` | The process dies while the mission is out: rows were set to swarming on disk and nothing moves them back. | Proved, not run: RowsFollowMissionHolds says what the rows of an interrupted mission are; SwarmingMeansOut is the same question asked of the commands. |
| `lib/dispatch/dispatcher.py:277` | A task that ends early (missing agent, error) must hand its semaphore slot on, or the rest of its wave waits for ever. | MissionEnds |
| `lib/cli/project.py:379` | The status that refuses a cycle is read once for all rounds. | The model has the behaviour: a cycle that waits for consent, or for its next round, goes out on a project paused meanwhile, so the property does not hold and no run states it. |
| `lib/cli/project.py:440` | The cycle number, the journal and max_cycles meet across refused, declined, failed and lost rounds; an off-by-one runs a cycle too many. | The numbering follows from next_cycle alone while one command runs at a time; two commands at once number two cycles alike, which is the overlap CyclesSerialize shows. |
| `lib/data/crud.py:844` | The ledger is rewritten from a copy: of two appends at once one erases what the other held, and a death between truncation and dump followed by another append erases history. | The model has it (OpenLedger, Loaded): the ledger is append-only only for one process at a time, which BankSpec checks. |
| `lib/data/economy.py:156` | A penalty larger than the balance is floored; the ledger must get what was taken, and nothing when nothing was. | BankSpec |
| `lib/data/economy.py:242` | The missions_completed credit is a second update from the copy read before the award. | Credit is a step of its own in the model; nothing in the code reads the count back against the missions. |
| `lib/data/generator.py:506` | The last skill domain takes no more than its cap: a roll may leave points over that count as assigned and are in no skill. | PointsInSkills |
| `tui/views/progression.py:421` | A reroll of the tools refunds their price and buys others, on the gold the agent has, and a reroll of the gold replaces it, neither through the ledger: no sequence of rolls, purchases and fines may leave an agent in debt. | BankSpec |
| `lib/dispatch/bird.py:288` | A reply with several findings is resent for one of them, and only that one is recorded. | Proved in LedgerKeepsHolds, which excepts a suspected truncation: found together with an empty message that is resent, it is never recorded, although the docstring of transmit says that every anomaly lands on the ledger. |
| `lib/dispatch/harness/loop.py:339` | Endpoints and tools may hang; only timers and the iteration count end a task. | Ends |
| `lib/dispatch/bird.py:277` | An exception classify_exception does not know, such as a reply cut in mid-body, is raised without a record on the ledger. | Modelled as FailUnclassified; it counts as no anomaly, so LedgerKeeps does not see it. |
| `lib/data/crud.py:424` | create checks that the target file is free and writes it later: two creators of one name both pass and one record is overwritten. | MishapCostsOne |
| `lib/data/crud.py:305` | The next row id is the highest plus one: after the highest row was deleted its id is given again, and an interface with an older cache edits or deletes the new row by the old one's id. | MishapCostsOne |
| `tui/views/composer.py:450` | replace returns None for a record that was deleted meanwhile; _compose_save reads fields of it and the interface dies of an AttributeError. | SaveOfNone models what happens; whether it should be an error message instead is not stated anywhere. |
| `tui/views/dispatch.py:361` | The worker loads the roster when the mission ends, while the dossier on screen keeps its copy of before: it shows no pay, and a purchase from it takes the pay away. | NothingReverted |
| `tui/views/dispatch.py:332` | The worker is a daemon thread: quitting the interface ends it between two payments of one crew, and the mission is never concluded. | Quit drops the worker in the model; the ledger of what was paid is Paymaster's, and nothing in the code promises the rest. |
| `lib/data/identity.py:121` | The check for unclaimed key material and ssh-keygen are apart: two enrollments of one dogtag both pass the check. | BadgesBacked, KeyKept |
| `lib/data/identity.py:181` | ssh-keygen that hangs is ended by a TimeoutExpired, which try_enroll does not expect: an enrollment at the end of a hire raises through the interface. | OrphansExplained |
| `lib/data/identity.py:198` | One refused agent ends a backfill, and the agents behind it stay without a badge. | OrphansExplained |
| `lib/remote/vault.py:203` | Whether the vault is initialized is asked before the key is written: two processes set it up at once and one key is lost. | CredentialsReadable |
| `lib/remote/vault.py:229` | The master key file is emptied and then filled; a death in between leaves a vault that says it is initialized and cannot be unlocked or set up again. | CredentialsReadable |
| `lib/remote/vault.py:561` | A credential is rewritten in place; a death in between leaves a file that no reader can parse. | CredentialsReadable |
| `lib/install/instance.py:251` | A death inside rmtree may take pyvenv.cfg first: remove then refuses for ever what is left. | ReceiptsBacked |
| `lib/install/instance.py:184` | Whether the name is taken is asked before the environment is built, minutes before the receipt is written: two creators of one name both pass. | LitterExplained |
| `lib/install/instance.py:262` | doctor writes back the whole receipt it read: a recreate in between is reverted, a removal kills it with a TypeError. | ReceiptsBacked |
| `lib/install/paths.py:173` | NIM_VENV or a project .venv takes every instance, whatever its name: two receipts get one directory, and removing or recreating one takes the other's environment. | ReceiptsBacked |
| `lib/remote/ssh.py:148` | A known_hosts file cut short by a death reads as empty: every host is on first use again. | FirstKeyKept |
| `lib/remote/ssh.py:285` | A connection refused for its key has its link open, is in no pool, and nobody closes it. | OneLinkPerHost |
| `lib/remote/ssh.py:236` | is_connected does not look at the link: a connection whose link dropped stays in the pool and fails every command until close_all. | Drop is an action of the model, so every property holds across it; that commands go on failing is what the code does, and no text promises otherwise. |
| `lib/remote/ssh.py:635` | close_all awaits every connection while tasks use and make others: they dial again outside the pool, join a list that is dropped, get a KeyError, or end the loop with a RuntimeError. | OneLinkPerHost |
| `lib/remote/protocol.py:133` | The audit file at its limit must drop its oldest entry and no other. | AuditComplete |
| `lib/remote/protocol.py:303` | execute asks the request for requires_permission, which it lacks: nothing unconfirmed is ever run, nobody is asked to confirm, and the health check finds no agent; the failure is logged as the host's. | AuditComplete |
| `lib/dispatch/ops_log.py:335` | At its limit the JSON log must drop its oldest entry and no other. | JsonIsTail |
| `lib/dispatch/ops_log.py:338` | A death while the JSON log is rewritten leaves a file that reads as empty, and the next entry makes the loss final. | JsonIsTail, LogsTell |
| `lib/dispatch/ops_log.py:304` | Two processes find no log file, one logs, and the other writes the header over its rows. | LogsTell |
| `lib/dispatch/ops_log.py:536` | A failed task's dispatch time is never taken: the logger of a long-lived process keeps one for every failed task. | Modelled (times), bounded by nothing in the code; no text promises otherwise. |
| `lib/cli/common.py:55` | The bookings a crew is chosen by are read at the briefing; a project may book one of its members before the operator confirms. | CrewQualified |
| `tui/views/dispatch.py:228` | The interface calls its crew 'first available' and asks nobody whether it is booked. | Modelled (BriefedCrew), and CrewQualified promises bookings for the command line only; the label is layout. |
| `lib/cli/common.py:67` | The test that should prefer new archetypes holds of every agent below the count, so the first agents of the roster go whatever their archetype. | Modelled as it is (SelectCrew); the preference is a docstring's, and archetypes are not in the model. |
| `lib/dispatch/dispatcher.py:168` | The posture and the capability gates are asked twice, from the configuration and records each side holds; a confirmed mission must not be refused late for a reason the briefing could have known. | BriefingBinds |
| `lib/dispatch/harness/loop.py:250` | What a task may call is the meeting of the mission's tools, the channel's grant and profile and the agent's depot tools, computed in four modules from records read at different times. | ServedWithinOrders |
| `lib/data/project.py:111` | A process that dies between the mission's landing and the journal entry leaves a mission without an entry. | Engagements has the death (Crash); that the journal is then behind the missions is what the code does, and no text promises an entry per mission. |
| `tui/views/substations.py:542` | A permission is switched on the copy of the host the screen holds, and the whole copy is merged over the record: a permission withdrawn elsewhere meanwhile is given back. | The same read, hold and write back is NothingReverted for agents; hosts are written by this screen and the editor alone, and the screen is not modelled. |
| `lib/cli/syndicate.py:295` | A probe reads the whole record, puts its observation in and replaces the file: an edit or a conformance result saved in between is lost. | EditSyndicate lets a record become any other; which observation is lost is not stated. |
| `lib/remote/ssh.py:279` | The connection to a jump host is held by no pool and closed by nobody, and stays open when the host behind it refuses. | Jump hosts are left out of Connections: OneLinkPerHost counts the links of hosts dialled directly. |

## Proofs

`MissionProofs`, for any mission, crew and limit. The inductive invariant is in parts:
`Shape` (which statuses go with which phase and wave), `Outcome` (what the phases after
the loop know of the tasks), `RowsInv` (rows and phase), `PayInv` (who was paid what).
`CompleteIfResolvable` and `FailedIsFinal` speak of missions whose dependencies can be
resolved, which is stated as in graph theory: every non-empty set of tasks has one that
depends on none of the others. Without that they are false, as `dispatch_cycle` shows;
`ListOrderedIsResolvable` proves it of a plan whose tasks only name earlier ones.

`PayrollSettles` needs `SettleInv`: an agent that is still to be paid was paid nothing, and
one that is not was paid for each task done. For `SerialConduct`, `ConductInv` says that what
the dispatcher remembers of the conduct ledger is what it holds (`CacheTrue`), and what a
running task read of it is never more than the refusals there were and, where an agent's
tasks cannot overlap, all of them (`SerialRunsOne`).

Also in `MissionProofs`, the economy, for any situation of clerks and agents, ranks, caps,
rates and depot. `EconomyInv` holds however many clerks race and whoever dies: records are
typed and `Sound` (points assigned are in the skills or lost in a roll), and what a clerk is
about to save passed its checks against the copy it computes from (`Checked`). It rests on
what the dice can make: `SkillsDealt` and `BoughtWithin` follow the spreading of points and
the buying of tools step by step, by `Chaining`, a recursion over 0..n that is proved from
its defining equation, and sums over a finite set are solved by `Folding` (`SumsSolve`,
`SumsAdd`), so nothing is assumed of a fold. `SoloInv` is what one clerk may rely on while no
other works and none dies: what it read is stored, the ledger it loaded is the ledger, and
what it owes the ledger has moved (`Current`); records are `Ranked`, one grant per threshold
crossed, which adds up over promotions (`PassedAdds`). `Forms` brings the actions down to
seven kinds of step, and each of them keeps both invariants and is a step of `Bank` or none
(`Still`, `Moves`, `Rolls`), which proves `BankSpec`. The last conjunct of `PointsInSkills` has a hypothesis of
its own, `Budgeted`: whoever fixes a rank assigns no more points than an agent has. `seed.py`
assigns 50 and ten more to each next agent, of the 100 there are, so the seventh sample agent
starts with more assigned than it has, and the dojo then trains it no further.

`EngagementProofs`, for any number of processes. `TypeCorrect` needs that `next_cycle` is
defined for every journal: a finite list of numbers has a maximum, proved by a minimal
counterexample in its length. `OneEngagement` is not inductive: a process writes back the
list it read. `OneInv` says that every list is in order, on disk or in a process, and that
the list an assignment will extend does not hold its agent. `WithinCap`, `SwarmingMeansOut`
and `ReleasedIsHistory` are false of two operators at once (`engagements_overlap`), and are
theorems for one, which is their hypothesis `Alone` and what `engagements_serial` checks.
`Turn` is the relation between two states of the store that every step is in: the
rows stay, an agent is booked, some are freed, a crew's rows change status, or the operator
dies with its mission out. On it
rests `AloneInv`: what the operator read is what is on disk (`FreshCopies`), a crew is out
whole or not at all (`WholeCrew`), an assignment under way still has room (`RoomLeft`), and
the cap in an inductive form (`CapKept`), where a booking adds one row at most.

`HarnessProofs` begins with `Relay`, for any table of attempts, delays and timeouts. `ExchangesAccounted` is
inductive once `ResendsStep` has said what the ends of a wait have in common. `InTime` is
not: `Timed` adds that the wait for a reply never outlasts the deadline by more than the
slack, which a resend restores because `back_off` leaves it `MinAttempt`, not less than the
shortest timeout. `LedgerKeeps` needs `NoopSuspicion`, what the anomaly table says of a
suspected truncation.

It goes on with `Harness`, for any budgets, timeouts and number of turns. `RelayRefined` shows that a
task is one of the callers `Relay` allows, so the theorems of `Relay` carry over; it
needs `Usage` (requests made and calls served, by stage) and `Noted` (what the task has put
on the ledger itself), because `Relay` bounds its callers and `BoundsAssumption` says that
the bounds leave room. `Handshake` is the state of the wrap-up between turns, `Clock` the
relation of the task's deadline, the relay's and the call's timer; from them follow
`ToldStopsCalls`, `ToldInTime` and `Overshoot`.

`VaultProofs`, for any number of processes, credentials and crashes. `CredentialsReadable`
is not inductive. `KeyInv` says which keys are at hand while the passphrase is not changed
and no two processes set the vault up: one process writes the master file, which is absent
until it is opened and torn until it is filled (`OneWriter`, `WriterFits`); before it is
whole nobody has a key and nothing was encrypted (`Closed`); then its key is the only one in
memory, in jobs and under credentials (`OneKey`). `CutInv` counts: a step either cuts
nothing short or is a death that cuts one file (`CutShortGrows`).

`EnrollmentProofs`, for any number of processes, agents and names. `BadgeInv` says that a
job past generating holds the key of its directory, with the manifest it has written so far
(`PairsHeld`), that no two such jobs name one directory (`PairsApart`) and that no badge
names a job's (`PairsFresh`): a generator finds its directory empty, so nothing claimed is
written over. `next_tag` is a maximum; its bound
is that of a finite set of tags (`TagsBounded`, `NextTagAbove`), and a candidate's tag is
apart from every tag on the roster it was rolled over (`CandidateTags`). `KeyInv` is about
agents that are not disturbed: copies have the right name, one process is at an agent, and
what a badge or a job names is the directory that `_agent_vault_dir` finds next time,
because what blocks a dogtag's directory stays in it (`RightDir`, `Blocked`); that directory
has a key, so a later attempt is refused. `OrphansExplained` is a count over what may still
become an orphan: a claim is an enrollment under way, or a name a record or a copy without a
badge has and no key was issued under (`Claims`). An agent's first badge is free, so one claim
of an agent without a badge costs nothing, and the other claims and the orphans together are
no more than the mishaps (`Covered`); `PairInv` (keys apart, a directory by agent only beside
one that is taken, a job's manifest not yet whole) says that a claim meets no key under its
name. `MachineProofs` carries these theorems, and that
of the vault, over to the composition the run `machines` checks.

`MachineProofs` has, before that, the theorems about `RemoteOps` and its connections, for any
number of processes, tasks, hosts, connections and entries. `Types` says besides the types
that a task at work has a connection of its own process. `FirstKeyKept` follows from
`FirstInv`: while processes follow one another and do not die at work, one is up, it knows
every key that was accepted, the file is what it knows but while it writes it, and once it
is down the file has them all. `AuditComplete` follows from `AuditInv`: without a clash one
task is at the audit file, and it read it as it was before its own response; `NewestOfLast`
is what cutting at the limit does. `OneLinkPerHost` follows from `Links`: until a pool is
closed a listed connection is one that calls itself connected, one task at a time dials for
a host, for a connection of its own and while the host has none, and whatever else has a
link was refused (`StraysFew`).

Then come the two properties of `Instances`, for any number of commands, instances and
directories. The invariant of `LitterExplained` (`Solvent`) is an account. On one side are the commands at work and the directories
that are `Exposed`: an environment without a receipt and with nobody at it, or one whose
removal stopped half way, or one a command builds for a receipt that is gone, which will fail
where it would write it (`Doomed`). On the other are deaths, failures of pip, overlaps and
moves. A command that quits leaves its own debt to its directory (`QuitsLeave`), one that
overwrites a receipt leaves it to the directory the receipt was at (`StoreSolvent`), one that
deletes a receipt leaves it likewise, and dooms the commands about to replace that receipt,
each of which exposes its own directory (`Bequest`). A command that begins alone is free, so the account may be
one over as long as some command is `Harmless`: left alone it exposes nothing. What makes
each kind of step harmless is the content of the invariant; when the only harmless command
ceases to be, its step turns out to save a debt (`Forgiven`). Ids are drawn fresh, which
`SaveNew` says as uuid4 does.

`ReceiptsBacked` needs another account, because no directory can be blamed for good: two
receipts in one directory are both backed until one command empties it. The invariant
(`Honest`) says that there is a set of receipts that can be `Trusted`. They differ in name
and in place, and each is backed or at the directory of a command that will back it or
delete it, if left alone (`Mends`; together `Sound`). A command that will create a receipt
may be at the place of one of them, and then in the way of no other (`Fair`); when it writes,
its receipt takes the other's place in the set. Everything else is billed (`Bill`): each
receipt outside the set, and each command at work. Deaths, failures of pip, overlaps and
shared directories pay the bill. A command that begins alone is again free, so the bill may
be one over while it is `Peaceful`: nobody is at a trusted receipt's place, or of its name,
unless by right (`Apart`), and one command, left alone, ends at nobody's cost (`Blameless`).
A command that ends takes its own entry off the bill and puts at most one receipt on it, the
one only it answered for, so only the one entry that was not paid for needs peace
(`EndsHonest`, `OverHonest`, `NewHonest`, `RecordsHonest`, `DeletesHonest`); one that goes on
in its directory disturbs nothing that is not at that directory (`ContinueHonest`); one that
begins finds its place and name free of trusted receipts, or that is counted
(`StartsHonest`). What is neither backed nor in hand is outside the set (`HonestBacks`).

`RecordProofs`, for any number of agents, crues, writes, missions, processes and records. `ScreensInv` says what
a copy may be relied on for, however old it is: the roster lists exactly the agents not
retired and has their crues, a dossier on screen is of one of them, a crue on screen has its
counter from disk. Only screens change these, one keyboard drives them, and each loads
the roster after it wrote. `TerminatedStay` and `MembersCounted` (with `Counted`, where the
members are a finite set) rest on it. What the worker changes, balances, is not among these:
`NothingReverted` needs `Attended`, that until a mission is left in the background or raises,
a worker at work means its own screen is up and any other screen shows the disk.
`JsonIsTail` rests on `FilesInv`, that a process past its search knows its files are there
and a file that is not there holds nothing, and on `TailInv`, which says where the two files
stand in the middle of a write: the row is in the CSV file and the JSON file, or what a
process has read of it, is the tail of the rows before (`TailGrows` is what appending and
cutting at the limit do to a tail). Two processes may both have a row in the CSV file while
one has read the JSON file, and that is not yet a clash: the second reads after the first
wrote (`ToFillAndRead`). `LogsTell` rests on `MissionsInv`, that a report is the last of what
its process has to write and names the mission the process executes, and on `TellInv`: the
count of a mission's rows, with the report its process still owes the CSV file, is what it
counted. A process that dies takes what it owed with it, and its mission never ends.
Of the datastore, `OneCopy` is a count and becomes inductive record by record: a record is
`Tidy` when one process at most writes it and its files are those its job knows of, and each
death and each overlap costs one record its order at most (`CopyInv`). An operation begun
alone has no such cost, which needs `Drawn` and `Unborn`: an id is given once, and a draft
not yet created shares its id with no file, job or other draft. `RestrictAlone` rests on
`SoloInv`, what one process may rely on while no other has begun anything: its cache is the
table, and what it is about to write fits the records, or the rows, that are there.
`MishapCostsOne` counts what may still be lost. A record is `AtRisk` while a process has a job
on it, while it is missing, or while one of its files is about to be emptied or removed. A
death or an overlap puts one record at risk at most, but an operation begun alone puts its own
at risk for nothing. So the account (`Account`) is one over as long as it is `Tight`: one
process is a `Survivor`, whose record will be there when it is done, no two write one record,
and whatever file a record's writer does not replace nobody else aims at. When the survivor
ends, its record leaves the set (`EndsWell`), unless another process has the same file still
to fill, which then survives in its place (`RivalSurvives`); whoever begins beside it
pays for a record (`BeginsBeside`). The rows have an account of their own, `RowInv`: an overlap
is what sets the table, or a process about to write it, one more row apart from what was added.

`OrdersProofs`, for any inventory, roster, forms and file tree. `DeskInv` says that what is
on the desk passed the gates of its entrance and, in the interface, that its provider is one
the configured address still means until the inventory is edited; `FieldGated` that what
runs passed the gates again. `BriefingBinds` then needs that an address means one channel of
a record (`OneChannel`): where a record flags two channels default, or two share a slug, the
code takes the first listed, and the model, whose channels are a set, any. A call is served
within the orders because the profile of a channel that passed the gate is closed under
dependencies (`CapabilitiesHeld`) and because an entry below one inside the working directory
is inside it (`AncestorsClimb`, which only needs each entry to have a parent), whichever
function shows it (`ShowsInside`). `CrewQualified` is decided when the crew is chosen, so its
invariant only carries the crew from the desk to the field; what is to prove is the choice: a
finite set has one listing by a total order (`Sorting`), scores, experience and the places on
the roster are such an order (`CandidatesRanked`), and its first members are the best
(`MatchChosen`). `RosterInv` says that the roster repeats nobody, so a hire is new to it.
`OnlyRolesDrift` rests on `RolesInv`: the shared list of an instruction has every disclosed
profile's roles as its beginning, and an instruction without a list keeps none. A composition
extends one list at its end (`Composed`), a briefing several in turn (`BriefingTold`), and
the rest of a profile does not depend on the lists (`Drifts`). The folds over blocks, crews,
terms and the roster are solved by `Folding`, as in `MissionProofs`.

Assumed are only the named assumptions on constants in the modules, which every run whose
module extends them evaluates.

## Model-checked only

Liveness (`MissionEnds`, `Ends`) and `ENABLED`, induction over data and RECURSIVE operators
are out of the prover's reach. Both refinements, of `Relay` by `Harness` and of `Bank` by
`Paymaster`, are proved. Every other property of a passing run has a theorem. The violation
runs are counterexamples and have none.

## Plan

Done, in this order: the core (`Dispatch`, `Engagements`, `Paymaster`, `Bank`, `Relay`,
`Harness`) with its proofs, then the files and machines (`DataStore`, `Console`, `Journals`,
`Enrollment`, `Vault`, `Instances`, `Connections`, `RemoteOps`), then the composition of an
order with its parts (`Orders`, `Composer`, `Crew`, `Syndicates`, `Executor`), then
`VaultProofs`, `EnrollmentProofs`, `MachineProofs`, `RecordProofs` and `OrdersProofs`, and
the economy's part of `MissionProofs`.

Nothing of the plan is left; what could come next is under "Not modelled".

## Not modelled

Wholly left out, with the reasons in `PROJECT.json`: the probes of syndicates and their
conformance suite (network I/O; what they write is an edit of a syndicate in `Orders`); the
verification of answers (a pure test; `Dispatch` has its outcome); the access log of work
queues, attribution, persona and lexicon (text, no state that is read back); configuration
(one file, whose posture is a constant of a process in `Orders`); the remainder of the
command line and the substations screen (parsing and listings over modelled operations);
drawing; the importers of reference tables.

Left out of components that are modelled: new and edit of projects; schema validation,
archives, resets and queries of the datastore; fields of drafts that are no references;
rendering of badges and the reset of the roster; the viewers and the editor of reference
tables among the screens; jump hosts, streaming, transfers and the allow and block lists of
remote operations (these last are one parameter, what is permitted). Encryption, HTTP, SSH
and ssh-keygen are external and modelled from how the code uses them.
