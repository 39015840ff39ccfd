------------------------------ MODULE Harness ------------------------------
(***************************************************************************)
(* One task on an HTTP channel: HttpProvider.execute, which either asks    *)
(* once or drives the tool loop (lib/dispatch/harness/loop.py), every      *)
(* request through the relay, every call through the executor.             *)
(*                                                                         *)
(* `remaining` is the task's deadline - monotonic(), `callTimer` what is   *)
(* left of the wait for a tool call.  The context window is abstracted to  *)
(* what the loop asks of it: did the prompt overflow, is there room for    *)
(* results, is the room low.                                               *)
(***************************************************************************)
EXTENDS Relay

CONSTANTS
  MaxIterations,   \* harness.max_iterations
  MaxCalls,        \* harness.max_calls_per_turn
  CallTimeout,     \* harness.call_timeout_seconds
  TokenBudget,     \* harness.token_budget
  Timeout,         \* constraints.timeout_seconds
  ChannelTimeout,  \* the channel's own timeout
  TurnTokens,      \* what a turn may cost
  MaxEmitted       \* bound: calls a model emits in one turn

ASSUME HarnessAssumption ==
  /\ {MaxIterations, MaxCalls, CallTimeout, TokenBudget, MaxEmitted} \subseteq Nat
  /\ {Timeout, ChannelTimeout} \subseteq Nat \ {0}
  /\ TurnTokens \subseteq Nat

\* The bounds of Relay's own instance leave room for this caller.
ASSUME BoundsAssumption ==
  /\ 1 .. LargerOf(Floor, SmallerOf(Timeout, ChannelTimeout)) \subseteq Timeouts
  /\ MaxIterations <= MaxTransmits /\ 1 <= MaxTransmits
  /\ MaxIterations * MaxEmitted < MaxNotices

VARIABLES
  stage,      \* where the task is
  result,     \* how its TaskResult reads
  tracked,    \* the channel states its context window
  remaining,  \* time left of the task
  iteration,  \* turns asked for
  tokens,     \* state.tokens
  wrapUp,     \* state.wrap_up
  emitted,    \* calls of this turn
  served,     \* of them, those with an outcome
  callTimer,  \* time left of the wait for the call that runs
  told,       \* history: the turn whose results told the model to answer
  refusedAt,  \* turns with calls refused because of it (of the transcript)
  ranAt       \* turns with calls that ran (of the transcript)

loopVars == <<iteration, tokens, wrapUp, emitted, served, callTimer, told,
              refusedAt, ranAt>>
vars == <<relayVars, stage, result, tracked, remaining, loopVars>>

Stages  == {"intake", "single", "head", "turn", "calls", "running", "done"}
Results == {"none", "answered", "refused", "unavailable", "escaped",
            "failed", "empty", "truncated", "timed out", "overflow", "budget",
            "kept calling", "no room", "exhausted"}
-----------------------------------------------------------------------------
Init ==
  /\ RelayInit
  /\ stage = "intake" /\ result = "none" /\ tracked \in BOOLEAN
  /\ remaining = Timeout
  /\ iteration = 0 /\ tokens = 0 /\ wrapUp = FALSE
  /\ emitted = 0 /\ served = 0 /\ callTimer = 0
  /\ told = 0 /\ refusedAt = {} /\ ranAt = {}

Finish(r) == stage' = "done" /\ result' = r

\* Mutant of Verdicts: a cut answer counts.
VerdictsUncut ==
  IF "frame_empty_message" \in found THEN {"empty"} ELSE {"answered", "refused"}

\* What a reply without tool calls makes of the task: blank, cut at the
\* output limit, refused on policy, or the answer.
Verdicts ==
  IF "frame_empty_message" \in found THEN {"empty"}
  ELSE IF "frame_output_truncated" \in found THEN {"empty", "truncated"}
  ELSE {"answered", "refused"}
-----------------------------------------------------------------------------
(* HttpProvider.execute. *)

Unavailable ==
  /\ stage = "intake"
  /\ Finish("unavailable")
  /\ UNCHANGED <<relayVars, tracked, remaining, loopVars>>

\* No function is offered: one request, with the shorter timeout.
AskOnce ==
  /\ stage = "intake"
  /\ Transmit(SmallerOf(Timeout, ChannelTimeout))
  /\ stage' = "single"
  /\ UNCHANGED <<result, tracked, remaining, loopVars>>

\* A reply whose fields are not even objects raises out of execute: the
\* errors caught there are those of missing keys and wrong indexes.
EndSingle ==
  /\ stage = "single"
  /\ Collect
  /\ \/ link = "raised" /\ Finish("failed")
     \/ /\ link = "replied" /\ "frame_malformed_body" \in found
        /\ \E r \in {"failed", "escaped"} : Finish(r)
     \/ /\ link = "replied" /\ "frame_malformed_body" \notin found
        /\ \E r \in Verdicts : Finish(r)
  /\ UNCHANGED <<tracked, remaining, loopVars>>

EnterLoop ==
  /\ stage = "intake"
  /\ stage' = "head"
  /\ UNCHANGED <<relayVars, result, tracked, remaining, loopVars>>
-----------------------------------------------------------------------------
(* The head of the loop. *)

\* Mutant of NextTurn: the deadline is looked at in the relay only.
NextTurnAnyway ==
  /\ stage = "head" /\ iteration < MaxIterations
  /\ Transmit(LargerOf(Floor, SmallerOf(remaining, ChannelTimeout)))
  /\ stage' = "turn" /\ iteration' = iteration + 1
  /\ UNCHANGED <<result, tracked, remaining, tokens, wrapUp, emitted, served,
                 callTimer, told, refusedAt, ranAt>>

\* Mutant of NextTurn: each request has a resend budget of its own.
NextTurnNewBudget ==
  /\ stage = "head" /\ iteration < MaxIterations /\ remaining > 0
  /\ link = "idle" /\ link' = "sending"
  /\ left' = LargerOf(Floor, SmallerOf(remaining, ChannelTimeout))
  /\ timer' = left' + Grace
  /\ tries' = NoTries /\ retransmits' = 0
  /\ exchanges' = exchanges + 1 /\ transmits' = transmits + 1
  /\ stage' = "turn" /\ iteration' = iteration + 1
  /\ UNCHANGED <<found, recorded, detected, result, tracked, remaining, tokens,
                 wrapUp, emitted, served, callTimer, told, refusedAt, ranAt>>

NextTurn ==
  /\ stage = "head" /\ iteration < MaxIterations /\ remaining > 0
  /\ Transmit(LargerOf(Floor, SmallerOf(remaining, ChannelTimeout)))
  /\ stage' = "turn" /\ iteration' = iteration + 1
  /\ UNCHANGED <<result, tracked, remaining, tokens, wrapUp, emitted, served,
                 callTimer, told, refusedAt, ranAt>>

TimeUp ==
  /\ stage = "head" /\ iteration < MaxIterations /\ remaining <= 0
  /\ Finish("timed out")
  /\ UNCHANGED <<relayVars, tracked, remaining, loopVars>>

\* Mutant of IterationsUp: one turn more than there is.
IterationsUpLate ==
  /\ stage = "head" /\ iteration > MaxIterations
  /\ Finish("exhausted")
  /\ UNCHANGED <<relayVars, tracked, remaining, loopVars>>

IterationsUp ==
  /\ stage = "head" /\ iteration = MaxIterations
  /\ Finish("exhausted")
  /\ UNCHANGED <<relayVars, tracked, remaining, loopVars>>
-----------------------------------------------------------------------------
(* A turn comes back from provider.chat. *)

TurnFails ==
  /\ stage = "turn"
  /\ link = "raised" \/ (link = "replied" /\ "frame_malformed_body" \in found)
  /\ Collect
  /\ Finish("failed")
  /\ UNCHANGED <<tracked, remaining, loopVars>>

\* The tokens of a turn that arrived are counted before anything else.
TurnArrives(n) ==
  /\ stage = "turn" /\ link = "replied" /\ "frame_malformed_body" \notin found
  /\ Collect
  /\ tokens' = tokens + n
  /\ UNCHANGED <<tracked, remaining, iteration, callTimer, refusedAt, ranAt>>

\* The backstop: the prompt overflowed, whatever the turn says.
TurnOverflows(n) ==
  /\ tracked
  /\ TurnArrives(n)
  /\ Finish("overflow")
  /\ UNCHANGED <<wrapUp, emitted, served, told>>

\* No tool calls: the final answer, however many tokens it cost.
TurnAnswers(n) ==
  /\ TurnArrives(n)
  /\ \E r \in Verdicts : Finish(r)
  /\ UNCHANGED <<wrapUp, emitted, served, told>>

\* Why a turn that calls functions is the last: the budget is spent, or the
\* model was told to answer, was refused once and is still calling, or was
\* told and there is no room left.
StopsWith(spent, full) ==
  IF spent > TokenBudget THEN "budget"
  ELSE IF wrapUp /\ iteration - 1 \in refusedAt THEN "kept calling"
  ELSE IF wrapUp /\ full THEN "no room" ELSE "none"

\* A turn with tool calls, when there is room for their results or not (full).
TurnCalls(n, calls, full) ==
  /\ full => tracked
  /\ "frame_empty_message" \notin found
  /\ TurnArrives(n)
  /\ IF StopsWith(tokens', full) # "none"
     THEN Finish(StopsWith(tokens', full)) /\ UNCHANGED <<wrapUp, emitted, served, told>>
     ELSE /\ stage' = "calls" /\ UNCHANGED result
          /\ wrapUp' = (wrapUp \/ full)
          /\ told' = IF full THEN iteration ELSE told
          /\ emitted' = calls /\ served' = 0
-----------------------------------------------------------------------------
(* The calls of a turn, one after the other. *)

Admitted == ~wrapUp /\ served < MaxCalls

\* A call is refused because the model was told to answer, or is one too many.
RefuseCall ==
  /\ stage = "calls" /\ served < emitted
  /\ ~Admitted
  /\ served' = served + 1
  /\ refusedAt' = IF wrapUp THEN refusedAt \cup {iteration} ELSE refusedAt
  /\ UNCHANGED <<relayVars, stage, result, tracked, remaining, iteration,
                 tokens, wrapUp, emitted, callTimer, told, ranAt>>

\* Arguments that are not a JSON object go back to the model.
MalformedCall ==
  /\ stage = "calls" /\ served < emitted
  /\ Admitted
  /\ Note("frame_malformed_arguments")
  /\ served' = served + 1
  /\ UNCHANGED <<stage, result, tracked, remaining, iteration, tokens, wrapUp,
                 emitted, callTimer, told, refusedAt, ranAt>>

\* Mutant of StartCall: the wrap-up note does not stop calls.
StartCallAnyway ==
  /\ stage = "calls" /\ served < emitted
  /\ served < MaxCalls
  /\ stage' = "running"
  /\ callTimer' = CallTimeout + Grace
  /\ ranAt' = ranAt \cup {iteration}
  /\ UNCHANGED <<relayVars, result, tracked, remaining, iteration, tokens,
                 wrapUp, emitted, served, told, refusedAt>>

StartCall ==
  /\ stage = "calls" /\ served < emitted
  /\ Admitted
  /\ stage' = "running"
  /\ callTimer' = CallTimeout + Grace
  /\ ranAt' = ranAt \cup {iteration}
  /\ UNCHANGED <<relayVars, result, tracked, remaining, iteration, tokens,
                 wrapUp, emitted, served, told, refusedAt>>

\* The executor's outcome: ok, refused or error, all results for the model.
EndCall ==
  /\ stage = "running"
  /\ stage' = "calls" /\ served' = served + 1 /\ callTimer' = 0
  /\ UNCHANGED <<relayVars, result, tracked, remaining, iteration, tokens,
                 wrapUp, emitted, told, refusedAt, ranAt>>

\* No outcome in time: the worker is abandoned and the model told so.
AbandonCall == callTimer = 0 /\ EndCall

\* The results join the conversation; if that leaves little room the model is
\* told, once, to answer.
EndTurn(low) ==
  /\ stage = "calls" /\ served = emitted
  /\ stage' = "head"
  /\ IF low /\ tracked /\ ~wrapUp
     THEN /\ wrapUp' = TRUE /\ told' = iteration
          /\ Note("context_low_water")
     ELSE UNCHANGED <<relayVars, wrapUp, told>>
  /\ UNCHANGED <<result, tracked, remaining, iteration, tokens, emitted,
                 served, callTimer, refusedAt, ranAt>>
-----------------------------------------------------------------------------
\* The relay's part of a request: the harness waits.
Relaying ==
  /\ stage \in {"single", "turn"}
  /\ Answered \/ Resend
  /\ UNCHANGED <<stage, result, tracked, remaining, loopVars>>

\* Time passes for the task, and for the request or the call it waits for.
Passes ==
  /\ stage \in {"single", "turn", "running"}
  /\ IF stage = "running"
     THEN callTimer > 0 /\ callTimer' = callTimer - 1 /\ UNCHANGED relayVars
     ELSE Tick /\ UNCHANGED callTimer
  /\ remaining' = remaining - 1
  /\ UNCHANGED <<stage, result, tracked, iteration, tokens, wrapUp, emitted,
                 served, told, refusedAt, ranAt>>

\* The task's own steps: it never waits for anyone to take them.
Own ==
  \/ Unavailable \/ AskOnce \/ EndSingle \/ EnterLoop
  \/ NextTurn \/ TimeUp \/ IterationsUp
  \/ TurnFails
  \/ \E n \in TurnTokens :
       \/ TurnOverflows(n) \/ TurnAnswers(n)
       \/ \E calls \in 1 .. MaxEmitted, full \in BOOLEAN : TurnCalls(n, calls, full)
  \/ RefuseCall \/ MalformedCall \/ StartCall
  \/ \E low \in BOOLEAN : EndTurn(low)

Next == Own \/ EndCall \/ Relaying \/ Passes

Spec == Init /\ [][Next]_vars

\* The coroutine goes on, time passes and its timers fire; endpoints, models
\* and tools owe nothing.
Fairness ==
  /\ WF_vars(Own) /\ WF_vars(Passes) /\ WF_vars(AbandonCall)
  /\ WF_vars(Relaying /\ (Fail("link_timeout") \/ Resend))

FairSpec == Spec /\ Fairness
-----------------------------------------------------------------------------
(* Properties. *)

\* Type invariant of the task; the relay's is its own.
TypeOK ==
  /\ RelayTypeOK
  /\ stage \in Stages /\ result \in Results /\ tracked \in BOOLEAN
  /\ remaining \in Int
  /\ {iteration, tokens, emitted, served, callTimer, told} \subseteq Nat
  /\ wrapUp \in BOOLEAN
  /\ refusedAt \subseteq Nat /\ ranAt \subseteq Nat

\* A task sends at most one request a turn and, over all its turns, one
\* budget of resends.
ExchangesBounded ==
  exchanges <= LargerOf(1, MaxIterations) + MaxRetransmits

\* How far a task can overshoot its deadline: a last turn that begins just
\* before it, its slack, and the calls that turn may still run.
Overshoot ==
  remaining >= 1 - Floor - Grace - MaxCalls * (CallTimeout + Grace)

\* Once the model was told to answer nothing runs, in no later turn, and the
\* refusals are those of one turn.
ToldStopsCalls ==
  told # 0 => /\ \A t \in ranAt : t <= told
              /\ refusedAt \subseteq {told, told + 1}
              /\ Cardinality(refusedAt) <= 1

\* No task fails for a full window before the model had a whole turn to give
\* its answer after it was told to.
ToldInTime ==
  result \in {"kept calling", "no room"} => told # 0 /\ told < iteration

\* A task is complete only with a whole answer: a reply that is blank, cut or
\* malformed never is one, however often it was resent.
AnswersAreWhole ==
  [][result' = "answered" /\ result # "answered" =>
       found \cap {"frame_malformed_body", "frame_empty_message",
                   "frame_output_truncated"} = {}]_vars

\* Every task ends, whatever endpoint, model and tools do.
Ends == <>(stage = "done")
=============================================================================
