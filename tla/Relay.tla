------------------------------- MODULE Relay -------------------------------
(***************************************************************************)
(* BIRD, the relay every HTTP request to a syndicate passes                *)
(* (lib/dispatch/bird.py): transmit sends a request, classifies what came  *)
(* back, resends within the row's attempts, the task's budget and the      *)
(* deadline, and records anomalies on the task's ledger.                   *)
(*                                                                         *)
(* One task: ledgers are context variables, one per task.  Time is counted *)
(* down: `left` is deadline - monotonic(), `timer` what is left of the     *)
(* wait_for or the sleep the coroutine awaits.  A tick is any unit of      *)
(* time; Floor, MinAttempt and Grace are the code's 1, 5 and 5 seconds.    *)
(***************************************************************************)
EXTENDS Integers, FiniteSets

CONSTANTS
  MaxAttempts,     \* max_attempts of each anomaly whose remedy is retransmit
  Hinted,          \* anomalies whose reply may carry a Retry-After
  MaxRetransmits,  \* relay.max_retransmits_per_task
  BaseDelay, MaxDelay,        \* relay.base_delay_seconds, max_delay_seconds
  Floor, MinAttempt, Grace,   \* shortest timeout, shortest resend, slack
  Timeouts,        \* what callers ask for
  MaxTransmits,    \* bound: requests of the task
  MaxNotices       \* bound: notices of each kind

\* How a request fails, and what is found in a reply that arrived.
Failures == {"link_timeout", "link_unreachable", "link_rate_limited",
             "link_unavailable", "link_http_error", "context_exceeded",
             "frame_malformed_body"}
Findings == {"frame_malformed_body", "frame_output_truncated",
             "frame_empty_message", "context_truncation_suspected"}
\* What the harness records itself.
Notices  == {"frame_malformed_arguments", "context_low_water"}
Anomalies == Failures \cup Findings \cup Notices

ASSUME RelayAssumption ==
  /\ MaxAttempts \in [Anomalies -> Nat]
  /\ {MaxRetransmits, BaseDelay, MaxDelay, MinAttempt, Grace} \subseteq Nat
  /\ Floor \in Nat \ {0} /\ Floor <= MinAttempt
  /\ Timeouts \subseteq Nat
  /\ {MaxTransmits, MaxNotices} \subseteq Nat

VARIABLES
  link,         \* where transmit is
  left,         \* time left before its deadline
  timer,        \* time left of what it awaits
  tries,        \* resends of this request, by anomaly
  found,        \* the findings of the reply being returned
  recorded,     \* problems on the ledger, by anomaly
  retransmits,  \* Ledger.retransmits
  exchanges,    \* Ledger.exchanges
  detected,     \* history: anomalies seen, by kind
  transmits     \* history: requests made

relayVars == <<link, left, timer, tries, found, recorded, retransmits,
               exchanges, detected, transmits>>
-----------------------------------------------------------------------------
LargerOf(a, b)  == IF a >= b THEN a ELSE b
SmallerOf(a, b) == IF a <= b THEN a ELSE b

NoTries == [s \in Anomalies |-> 0]

\* What each member of S adds to a count by anomaly.
Plus(count, S) == [s \in Anomalies |-> IF s \in S THEN count[s] + 1 ELSE count[s]]

MayRetry(s) == tries[s] < MaxAttempts[s] /\ retransmits < MaxRetransmits

\* _delay: Retry-After when the server gave one, else full jitter under an
\* exponential ceiling.
Delays(s) == 0 .. (IF s \in Hinted THEN MaxDelay
                   ELSE SmallerOf(MaxDelay, BaseDelay * 2 ^ tries[s]))

\* back_off goes ahead only if the resend still has a useful attempt's time.
Fits(d) == left - d >= MinAttempt

\* What inspect can find: a reply that lacks the fields is looked at no
\* further; one cut at the limit is not also called empty.
Inspections ==
  {{"frame_malformed_body"}} \cup
  {F \cup G : F \in {{}, {"frame_output_truncated"}, {"frame_empty_message"}},
              G \in {{}, {"context_truncation_suspected"}}}

\* The first finding that may be retried; a suspected truncation is last.
Retryable(F) ==
  LET may == {s \in F : MayRetry(s)}
  IN IF may \subseteq {"context_truncation_suspected"} THEN may
     ELSE may \ {"context_truncation_suspected"}
-----------------------------------------------------------------------------
RelayInit ==
  /\ link = "idle" /\ left = 0 /\ timer = 0 /\ found = {}
  /\ tries = NoTries /\ recorded = NoTries /\ detected = NoTries
  /\ retransmits = 0 /\ exchanges = 0 /\ transmits = 0

\* The caller's request and its first exchange.
Transmit(timeout) ==
  /\ link = "idle"
  /\ link' = "sending"
  /\ left' = LargerOf(Floor, timeout)
  /\ timer' = left' + Grace
  /\ tries' = NoTries
  /\ exchanges' = exchanges + 1
  /\ transmits' = transmits + 1
  /\ UNCHANGED <<found, recorded, retransmits, detected>>

\* back_off: the anomaly is recorded, counted against both limits, slept on.
BackOff(s, d) ==
  /\ link' = "sleeping"
  /\ timer' = d
  /\ recorded' = Plus(recorded, {s})
  /\ tries' = [tries EXCEPT ![s] = @ + 1]
  /\ retransmits' = retransmits + 1
  /\ UNCHANGED <<left, found, exchanges, transmits>>

\* The failure is recorded and raised, or the reply returned with all that
\* was found in it.
Settle(outcome, S, kept) ==
  /\ link' = outcome
  /\ timer' = 0
  /\ recorded' = Plus(recorded, S)
  /\ found' = kept
  /\ UNCHANGED <<left, tries, retransmits, exchanges, transmits>>

\* The sleep is over: the next exchange has what is left of the deadline.
Resend ==
  /\ link = "sleeping" /\ timer = 0
  /\ link' = "sending"
  /\ timer' = LargerOf(Floor, left) + Grace
  /\ exchanges' = exchanges + 1
  /\ UNCHANGED <<left, tries, found, recorded, retransmits, detected, transmits>>

\* A request that fails as s: the socket times out when its share of the
\* deadline is used up, the wait_for at the latest Grace later.
Fail(s) ==
  /\ link = "sending"
  /\ s = "link_timeout" => timer <= Grace
  /\ s # "link_timeout" => timer > 0
  /\ detected' = Plus(detected, {s})
  /\ \E d \in 0 .. MaxDelay :
       /\ d \in Delays(s)
       /\ IF MayRetry(s) /\ Fits(d) THEN BackOff(s, d)
          ELSE Settle("raised", {s}, {})

\* A failure classify_exception does not know is raised as it is.
FailUnclassified ==
  /\ link = "sending" /\ timer > 0
  /\ Settle("raised", {}, {})
  /\ UNCHANGED detected

\* A reply arrives: the first finding that may be retried is, else every
\* finding is recorded and the reply returned.
Reply(F) ==
  /\ link = "sending" /\ timer > 0
  /\ detected' = Plus(detected, F)
  /\ \/ \E s \in Retryable(F), d \in 0 .. MaxDelay :
          /\ d \in Delays(s)
          /\ IF Fits(d) THEN BackOff(s, d) ELSE Settle("replied", F, F)
     \/ Retryable(F) = {} /\ Settle("replied", F, F)

\* transmit returned or raised; its caller goes on.
Collect ==
  /\ link \in {"replied", "raised"}
  /\ link' = "idle" /\ left' = 0 /\ found' = {}
  /\ UNCHANGED <<timer, tries, recorded, retransmits, exchanges, detected,
                 transmits>>

\* Time passes while something is awaited; the event loop is prompt, so a
\* timer that has run out is served before the next tick.
Tick ==
  /\ link \in {"sending", "sleeping"} /\ timer > 0
  /\ left' = left - 1 /\ timer' = timer - 1
  /\ UNCHANGED <<link, tries, found, recorded, retransmits, exchanges,
                 detected, transmits>>

\* Ledger.record, called between two requests by the harness.
Note(s) ==
  /\ link = "idle"
  /\ detected' = Plus(detected, {s})
  /\ recorded' = Plus(recorded, {s})
  /\ UNCHANGED <<link, left, timer, tries, found, retransmits, exchanges,
                 transmits>>

\* How the wait for a reply ends.
Answered == \/ \E s \in Failures : Fail(s)
            \/ FailUnclassified
            \/ \E F \in Inspections : Reply(F)

\* A caller that still needs the task's ledger.
Call == transmits < MaxTransmits /\ \E t \in Timeouts : Transmit(t)

Notice == \E s \in Notices : detected[s] < MaxNotices /\ Note(s)

RelayNext == Call \/ Notice \/ Answered \/ Resend \/ Collect \/ Tick

RelaySpec == RelayInit /\ [][RelayNext]_relayVars

-----------------------------------------------------------------------------
(* Properties. *)

\* Type invariant of the relay.
RelayTypeOK ==
  /\ link \in {"idle", "sending", "sleeping", "replied", "raised"}
  /\ left \in Int /\ timer \in Nat
  /\ found \subseteq Findings
  /\ {tries, recorded, detected} \subseteq [Anomalies -> Nat]
  /\ {retransmits, exchanges, transmits} \subseteq Nat

\* Every exchange is a request's first or a counted resend, so a task sends
\* at most its requests plus one budget of resends, over all its requests.
ExchangesAccounted ==
  /\ exchanges + (IF link = "sleeping" THEN 1 ELSE 0) = transmits + retransmits
  /\ retransmits <= MaxRetransmits

\* A request is over Grace after its deadline at the latest, resends and
\* sleeps included, and a resend under way has a useful attempt's time.
InTime ==
  /\ link # "idle" => left + Grace >= 0
  /\ link = "sleeping" => left - timer >= MinAttempt

\* The ledger has what was seen, whatever was resent meanwhile; only a
\* suspected truncation may be missing, when its reply was resent.
LedgerKeeps ==
  \A s \in Anomalies \ {"context_truncation_suspected"} :
    recorded[s] = detected[s]

=============================================================================
