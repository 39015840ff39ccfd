---------------------------- MODULE HarnessProofs ----------------------------
(***************************************************************************)
(* Theorems about Relay, for any anomaly table, budget and times, and then *)
(* about Harness, for every budget, timeout and number of turns: the task  *)
(* uses the relay as Relay allows, so what is proved of any caller holds   *)
(* of it.                                                                  *)
(***************************************************************************)
EXTENDS Harness, FiniteSetTheorems, TLAPS

\* A count by anomaly stays one.
LEMMA PlusType ==
  ASSUME NEW count \in [Anomalies -> Nat], NEW S
  PROVE  Plus(count, S) \in [Anomalies -> Nat]
  BY DEF Plus

\* What a step of transmit does to the counts: it adds to what was detected
\* and to what is on the ledger, and may count a resend.
LEMMA CountsType ==
  ASSUME RelayTypeOK, [RelayNext]_relayVars
  PROVE  {tries', recorded', detected'} \subseteq [Anomalies -> Nat]
<1> USE PlusType DEF RelayTypeOK
<1>1. CASE Call \/ Resend \/ Collect \/ Tick \/ FailUnclassified \/ UNCHANGED relayVars
  BY <1>1 DEF Call, Transmit, Resend, Collect, Tick, FailUnclassified, Settle,
              NoTries, relayVars
<1>2. ASSUME NEW s \in Notices, Note(s)
      PROVE  {tries', recorded', detected'} \subseteq [Anomalies -> Nat]
  BY <1>2 DEF Note
<1>3. ASSUME NEW s \in Anomalies, NEW d, BackOff(s, d)
      PROVE  {tries', recorded'} \subseteq [Anomalies -> Nat]
  BY <1>3 DEF BackOff
<1>4. ASSUME NEW r, NEW S, NEW kept, Settle(r, S, kept)
      PROVE  {tries', recorded'} \subseteq [Anomalies -> Nat]
  BY <1>4 DEF Settle
<1>5. ASSUME NEW s \in Failures, Fail(s)
      PROVE  {tries', recorded', detected'} \subseteq [Anomalies -> Nat]
  <2>1. s \in Anomalies /\ detected' \in [Anomalies -> Nat]
    BY <1>5 DEF Fail, Anomalies
  <2>2. (\E d : BackOff(s, d)) \/ Settle("raised", {s}, {})
    BY <1>5 DEF Fail
  <2>3. QED
    BY <1>3, <1>4, <2>1, <2>2
<1>6. ASSUME NEW F \in Inspections, Reply(F)
      PROVE  {tries', recorded', detected'} \subseteq [Anomalies -> Nat]
  <2>1. F \subseteq Anomalies
    BY DEF Inspections, Anomalies, Findings
  <2>2. Retryable(F) \subseteq F
    BY DEF Retryable
  <2>3. QED
    BY <1>3, <1>4, <1>6, <2>1, <2>2 DEF Reply
<1>7. QED
  BY <1>1, <1>2, <1>5, <1>6 DEF RelayNext, Answered, Notice

(* RelayTypeOK: the relay's counters and timers stay natural numbers. *)
THEOREM RelayTypeCorrect == RelaySpec => []RelayTypeOK
<1>1. RelayInit => RelayTypeOK
  BY DEF RelayInit, RelayTypeOK, NoTries
<1>2. RelayTypeOK /\ [RelayNext]_relayVars => RelayTypeOK'
  <2> SUFFICES ASSUME RelayTypeOK, [RelayNext]_relayVars PROVE RelayTypeOK'
    OBVIOUS
  <2>1. {tries', recorded', detected'} \subseteq [Anomalies -> Nat]
    BY CountsType
  <2> USE <2>1, RelayAssumption DEF RelayTypeOK
  <2>2. CASE Call
    BY <2>2 DEF Call, Transmit, LargerOf
  <2>3. CASE Notice
    BY <2>3 DEF Notice, Note
  <2>4. ASSUME NEW s, NEW d \in 0 .. MaxDelay, BackOff(s, d) PROVE RelayTypeOK'
    BY <2>4 DEF BackOff
  <2>5. ASSUME NEW r \in {"replied", "raised"}, NEW S,
               NEW kept \in SUBSET Findings, Settle(r, S, kept)
        PROVE  RelayTypeOK'
    BY <2>5 DEF Settle
  <2>6. ASSUME NEW s \in Failures, Fail(s) PROVE RelayTypeOK'
    <3>1. \/ \E d \in 0 .. MaxDelay : BackOff(s, d)
          \/ Settle("raised", {s}, {})
      BY <2>6 DEF Fail
    <3>2. QED
      BY <2>4, <2>5, <3>1
  <2>7. CASE FailUnclassified
    BY <2>5, <2>7 DEF FailUnclassified
  <2>8. ASSUME NEW F \in Inspections, Reply(F) PROVE RelayTypeOK'
    <3>1. F \in SUBSET Findings
      BY DEF Inspections, Findings
    <3>2. QED
      BY <2>4, <2>5, <2>8, <3>1 DEF Reply
  <2>9. CASE Resend
    BY <2>9 DEF Resend, LargerOf
  <2>10. CASE Collect
    BY <2>10 DEF Collect
  <2>11. CASE Tick
    BY <2>11 DEF Tick
  <2>12. CASE UNCHANGED relayVars
    BY <2>12 DEF relayVars
  <2>13. QED
    BY <2>2, <2>3, <2>6, <2>7, <2>8, <2>9, <2>10, <2>11, <2>12
       DEF RelayNext, Answered
<1>3. QED
  BY <1>1, <1>2, PTL DEF RelaySpec
-----------------------------------------------------------------------------
(* The accounts: what a step does to exchanges, requests and resends.        *)

\* Only back_off counts a resend, and only while the task has one left.
LEMMA ResendsStep ==
  ASSUME RelayTypeOK, Answered
  PROVE  /\ link = "sending"
         /\ UNCHANGED <<exchanges, transmits>>
         /\ \/ /\ link' = "sleeping" /\ retransmits < MaxRetransmits
               /\ retransmits' = retransmits + 1
            \/ link' \in {"replied", "raised"} /\ retransmits' = retransmits
<1>1. ASSUME NEW s \in Failures, Fail(s)
      PROVE  \/ MayRetry(s) /\ (\E d : BackOff(s, d))
             \/ Settle("raised", {s}, {})
  BY <1>1 DEF Fail
<1>2. ASSUME NEW F \in Inspections, Reply(F)
      PROVE  \/ \E s, d : MayRetry(s) /\ BackOff(s, d)
             \/ Settle("replied", F, F)
  <2>1. \A s \in Retryable(F) : MayRetry(s)
    BY DEF Retryable
  <2>2. QED
    BY <1>2, <2>1 DEF Reply
<1>3. link = "sending"
  BY DEF Answered, Fail, FailUnclassified, Reply
<1>4. \/ \E s, d : MayRetry(s) /\ BackOff(s, d)
      \/ \E S, kept : Settle("raised", S, kept) \/ Settle("replied", S, kept)
  BY <1>1, <1>2 DEF Answered, FailUnclassified
<1>5. QED
  BY <1>3, <1>4 DEF BackOff, Settle, MayRetry

(* ExchangesAccounted: however requests, replies and sleeps interleave, a    *)
(* task's exchanges are its requests and its counted resends, which its      *)
(* budget bounds.                                                            *)
THEOREM ExchangesAccountedHolds == RelaySpec => []ExchangesAccounted
<1>1. RelayInit => ExchangesAccounted
  BY RelayAssumption DEF RelayInit, ExchangesAccounted
<1>2. RelayTypeOK /\ ExchangesAccounted /\ [RelayNext]_relayVars
        => ExchangesAccounted'
  <2> SUFFICES ASSUME RelayTypeOK, ExchangesAccounted, [RelayNext]_relayVars
               PROVE  ExchangesAccounted'
    OBVIOUS
  <2> USE RelayAssumption DEF ExchangesAccounted, RelayTypeOK
  <2>1. CASE Call
    BY <2>1 DEF Call, Transmit
  <2>2. CASE Answered
    BY <2>2, ResendsStep
  <2>3. CASE Notice
    BY <2>3 DEF Notice, Note
  <2>4. CASE Resend
    BY <2>4 DEF Resend
  <2>5. CASE Collect
    BY <2>5 DEF Collect
  <2>6. CASE Tick \/ UNCHANGED relayVars
    BY <2>6 DEF Tick, relayVars
  <2>7. QED
    BY <2>1, <2>2, <2>3, <2>4, <2>5, <2>6 DEF RelayNext
<1>3. QED
  BY <1>1, <1>2, RelayTypeCorrect, PTL DEF RelaySpec

(***************************************************************************)
(* Time.  InTime needs to know that the wait for a reply never outlasts    *)
(* the deadline and its slack: a resend starts with MinAttempt left, which *)
(* is not shorter than the shortest timeout.                               *)
(***************************************************************************)
Timed ==
  /\ link = "sending" => timer <= left + Grace
  /\ link = "sleeping" => left - timer >= MinAttempt
  /\ link \in {"replied", "raised"} => left + Grace >= 0

\* What an answer leaves of the time.
LEMMA TimeOfAnswer ==
  ASSUME Answered
  PROVE  /\ link = "sending" /\ left' = left
         /\ \/ link' = "sleeping" /\ \E d \in 0 .. MaxDelay : timer' = d /\ Fits(d)
            \/ link' \in {"replied", "raised"}
<1>1. ASSUME NEW s \in Failures, Fail(s)
      PROVE  \/ \E d \in 0 .. MaxDelay : Fits(d) /\ BackOff(s, d)
             \/ Settle("raised", {s}, {})
  BY <1>1 DEF Fail
<1>2. ASSUME NEW F \in Inspections, Reply(F)
      PROVE  \/ \E s, d : d \in 0 .. MaxDelay /\ Fits(d) /\ BackOff(s, d)
             \/ Settle("replied", F, F)
  BY <1>2 DEF Reply
<1>3. link = "sending"
  BY DEF Answered, Fail, FailUnclassified, Reply
<1>4. \/ \E s, d : d \in 0 .. MaxDelay /\ Fits(d) /\ BackOff(s, d)
      \/ \E S, kept : Settle("raised", S, kept) \/ Settle("replied", S, kept)
  BY <1>1, <1>2 DEF Answered, FailUnclassified
<1>5. QED
  BY <1>3, <1>4 DEF BackOff, Settle

(* InTime: a request is over Grace after its deadline, whatever failed and   *)
(* was resent meanwhile.                                                     *)
THEOREM InTimeHolds == RelaySpec => []InTime
<1>1. RelayInit => Timed
  BY DEF RelayInit, Timed
<1>2. RelayTypeOK /\ Timed /\ [RelayNext]_relayVars => Timed'
  <2> SUFFICES ASSUME RelayTypeOK, Timed, [RelayNext]_relayVars PROVE Timed'
    OBVIOUS
  <2> USE RelayAssumption DEF Timed, RelayTypeOK
  <2>1. CASE Call
    <3>1. link' = "sending" /\ timer' = left' + Grace
      BY <2>1 DEF Call, Transmit
    <3>2. PICK t \in Timeouts : left' = LargerOf(Floor, t)
      BY <2>1 DEF Call, Transmit
    <3>3. left' \in Nat
      BY <3>2 DEF LargerOf
    <3>4. QED
      BY <3>1, <3>3
  <2>2. CASE Answered
    BY <2>2, TimeOfAnswer DEF Fits
  <2>3. CASE Resend
    BY <2>3 DEF Resend, LargerOf
  <2>4. CASE Notice
    BY <2>4 DEF Notice, Note
  <2>5. CASE Collect
    BY <2>5 DEF Collect
  <2>6. CASE Tick
    BY <2>6 DEF Tick
  <2>7. CASE UNCHANGED relayVars
    BY <2>7 DEF relayVars
  <2>8. QED
    BY <2>1, <2>2, <2>3, <2>4, <2>5, <2>6, <2>7 DEF RelayNext
<1>3. RelayTypeOK /\ Timed => InTime
  BY RelayAssumption DEF RelayTypeOK, Timed, InTime
<1>4. QED
  BY <1>1, <1>2, <1>3, RelayTypeCorrect, PTL DEF RelaySpec

-----------------------------------------------------------------------------
\* The remedy of a suspected truncation is noop: it is never resent for.
NoopSuspicion == MaxAttempts["context_truncation_suspected"] = 0

\* One reply has one finding besides a suspected truncation.
LEMMA OneFinding ==
  ASSUME NEW F \in Inspections, NEW s \in F, s # "context_truncation_suspected"
  PROVE  F \subseteq {s, "context_truncation_suspected"}
  BY DEF Inspections

(* LedgerKeeps: what was seen is on the ledger, resent or given up.          *)
THEOREM LedgerKeepsHolds ==
  ASSUME NoopSuspicion
  PROVE  RelaySpec => []LedgerKeeps
<1> DEFINE sus == "context_truncation_suspected"
<1>1. RelayInit => LedgerKeeps
  BY DEF RelayInit, LedgerKeeps, NoTries
<1>2. RelayTypeOK /\ LedgerKeeps /\ [RelayNext]_relayVars => LedgerKeeps'
  <2> SUFFICES ASSUME RelayTypeOK, LedgerKeeps, [RelayNext]_relayVars
               PROVE  LedgerKeeps'
    OBVIOUS
  <2> USE DEF LedgerKeeps
  <2>1. ASSUME NEW S, NEW R, detected' = Plus(detected, S),
               recorded' = Plus(recorded, R),
               \A s \in Anomalies \ {sus} : s \in S <=> s \in R
        PROVE  LedgerKeeps'
    BY <2>1 DEF Plus
  <2>2. ASSUME NEW s \in Failures, Fail(s) PROVE LedgerKeeps'
    <3>1. recorded' = Plus(recorded, {s}) /\ detected' = Plus(detected, {s})
      BY <2>2 DEF Fail, BackOff, Settle
    <3>2. QED
      BY <2>1, <3>1
  <2>3. ASSUME NEW F \in Inspections, Reply(F) PROVE LedgerKeeps'
    <3>1. detected' = Plus(detected, F)
      BY <2>3 DEF Reply
    <3>2. CASE recorded' = Plus(recorded, F)
      BY <2>1, <3>1, <3>2
    <3>3. ASSUME NEW s \in Retryable(F), recorded' = Plus(recorded, {s})
          PROVE  LedgerKeeps'
      <4>1. s \in F /\ MayRetry(s)
        BY DEF Retryable
      <4>2. s \in Anomalies
        BY <4>1 DEF Inspections, Anomalies, Findings
      <4>3. s # sus
        BY <4>1, <4>2, NoopSuspicion DEF MayRetry, RelayTypeOK, NoopSuspicion
      <4>4. \A u \in Anomalies \ {sus} : u \in F <=> u \in {s}
        BY <4>1, <4>3, OneFinding
      <4>5. QED
        BY <2>1, <3>1, <3>3, <4>4
    <3>4. recorded' = Plus(recorded, F)
          \/ \E s \in Retryable(F) : recorded' = Plus(recorded, {s})
      BY <2>3 DEF Reply, BackOff, Settle
    <3>5. QED
      BY <3>2, <3>3, <3>4
  <2>4. CASE FailUnclassified
    <3>1. recorded' = Plus(recorded, {}) /\ UNCHANGED detected
      BY <2>4 DEF FailUnclassified, Settle
    <3>2. QED
      BY <3>1 DEF Plus, RelayTypeOK
  <2>5. ASSUME NEW s \in Notices, Note(s) PROVE LedgerKeeps'
    BY <2>1, <2>5 DEF Note
  <2>6. CASE Call \/ Resend \/ Collect \/ Tick \/ UNCHANGED relayVars
    BY <2>6 DEF Call, Transmit, Resend, Collect, Tick, relayVars
  <2>7. QED
    BY <2>2, <2>3, <2>4, <2>5, <2>6 DEF RelayNext, Answered, Notice
<1>3. QED
  BY <1>1, <1>2, RelayTypeCorrect, PTL DEF RelaySpec

-----------------------------------------------------------------------------
(* The task. *)

\* The task's own variables are of their types.
LoopTypeOK ==
  /\ stage \in Stages /\ result \in Results /\ tracked \in BOOLEAN
  /\ remaining \in Int
  /\ {iteration, tokens, emitted, served, callTimer, told} \subseteq Nat
  /\ wrapUp \in BOOLEAN
  /\ refusedAt \subseteq Nat /\ ranAt \subseteq Nat

LEMMA LoopTypeStep ==
  ASSUME LoopTypeOK, [Next]_vars
  PROVE  LoopTypeOK'
<1> USE HarnessAssumption DEF LoopTypeOK, Stages
<1> DEFINE Rest == UNCHANGED <<tracked, remaining, loopVars>>
<1>1. CASE Unavailable \/ AskOnce \/ EnterLoop
  BY <1>1 DEF Unavailable, AskOnce, EnterLoop, Finish, Results, loopVars
<1>2. CASE EndSingle
  <2>1. stage' = "done" /\ result' \in Results /\ Rest
    BY <1>2 DEF EndSingle, Finish, Verdicts, Results
  <2>2. QED
    BY <2>1 DEF loopVars
<1>3. CASE NextTurn
  BY <1>3 DEF NextTurn
<1>4. CASE TimeUp \/ IterationsUp \/ TurnFails
  BY <1>4 DEF TimeUp, IterationsUp, TurnFails, Finish, Results, loopVars
<1>5. ASSUME NEW n \in TurnTokens, TurnOverflows(n) PROVE LoopTypeOK'
  <2>1. tokens' \in Nat
    BY <1>5 DEF TurnOverflows, TurnArrives
  <2>2. stage' = "done" /\ result' \in Results
    BY <1>5 DEF TurnOverflows, Finish, Results
  <2>3. QED
    BY <1>5, <2>1, <2>2 DEF TurnOverflows, TurnArrives
<1>6. ASSUME NEW n \in TurnTokens, TurnAnswers(n) PROVE LoopTypeOK'
  <2>1. stage' = "done" /\ result' \in Results
    BY <1>6 DEF TurnAnswers, Finish, Verdicts, Results
  <2>2. QED
    BY <1>6, <2>1 DEF TurnAnswers, TurnArrives
<1>7. ASSUME NEW n \in TurnTokens, NEW calls \in 1 .. MaxEmitted,
             NEW full \in BOOLEAN, TurnCalls(n, calls, full)
      PROVE  LoopTypeOK'
  <2>1. /\ tokens' \in Nat
        /\ UNCHANGED <<tracked, remaining, iteration, callTimer, refusedAt, ranAt>>
    BY <1>7 DEF TurnCalls, TurnArrives
  <2>2. StopsWith(tokens', full) \in Results
    BY DEF StopsWith, Results
  <2>3. \/ stage' = "done" /\ result' \in Results /\ UNCHANGED <<wrapUp, emitted, served, told>>
        \/ /\ stage' = "calls" /\ result' = result /\ wrapUp' = (wrapUp \/ full)
           /\ told' \in {told, iteration} /\ emitted' = calls /\ served' = 0
    BY <1>7, <2>2 DEF TurnCalls, Finish
  <2>4. QED
    BY <2>1, <2>3
<1>8. CASE RefuseCall \/ MalformedCall \/ StartCall
  <2>1. CASE RefuseCall
    <3>1. served' \in Nat
      BY <2>1 DEF RefuseCall
    <3>2. refusedAt' \in {refusedAt, refusedAt \cup {iteration}}
      BY <2>1 DEF RefuseCall
    <3>3. refusedAt' \subseteq Nat
      BY <3>2
    <3>4. QED
      BY <2>1, <3>1, <3>3 DEF RefuseCall
  <2>2. CASE MalformedCall
    BY <2>2 DEF MalformedCall
  <2>3. CASE StartCall
    <3>1. callTimer' \in Nat
      BY <2>3, RelayAssumption DEF StartCall
    <3>2. ranAt' \subseteq Nat
      BY <2>3 DEF StartCall
    <3>3. QED
      BY <2>3, <3>1, <3>2 DEF StartCall
  <2>4. QED
    BY <1>8, <2>1, <2>2, <2>3
<1>9. ASSUME NEW low \in BOOLEAN, EndTurn(low) PROVE LoopTypeOK'
  BY <1>9 DEF EndTurn
<1>10. CASE EndCall
  BY <1>10 DEF EndCall
<1>11. CASE Relaying
  BY <1>11 DEF Relaying, loopVars
<1>12. CASE Passes
  BY <1>12 DEF Passes
<1>13. CASE UNCHANGED vars
  BY <1>13 DEF vars, loopVars
<1>14. QED
  BY <1>1, <1>2, <1>3, <1>4, <1>5, <1>6, <1>7, <1>8, <1>9, <1>10, <1>11,
     <1>12, <1>13 DEF Next, Own
-----------------------------------------------------------------------------
(***************************************************************************)
(* Refinement.  Relay bounds its callers by MaxTransmits, Timeouts and     *)
(* MaxNotices; that the task stays within them is an invariant: it asks    *)
(* once, or once a turn, and notes at most each call it serves and, once,  *)
(* a window that runs low.                                                 *)
(***************************************************************************)
args == "frame_malformed_arguments"
low  == "context_low_water"

Looping == stage \in {"head", "turn", "calls", "running"}

\* Calls counted before those of the turn under way.
Before == IF stage = "head" THEN iteration ELSE iteration - 1

Usage ==
  /\ remaining <= Timeout /\ iteration <= MaxIterations
  /\ stage = "intake" => transmits = 0 /\ iteration = 0 /\ ~wrapUp
  /\ stage = "single" => transmits = 1
  /\ Looping => transmits = iteration
  /\ transmits <= LargerOf(1, MaxIterations)
  /\ stage \in {"turn", "calls", "running"} => iteration >= 1
  /\ stage \in {"calls", "running"} => served <= emitted /\ emitted <= MaxEmitted
  /\ stage = "running" => served < emitted

Noted ==
  /\ detected[args] \in Nat /\ detected[low] \in Nat
  /\ stage = "intake" => detected[args] = 0 /\ detected[low] = 0
  /\ Looping /\ ~wrapUp => detected[low] = 0
  /\ stage \in {"head", "turn"} => detected[args] <= Before * MaxEmitted
  /\ stage \in {"calls", "running"} =>
       detected[args] <= Before * MaxEmitted + served

\* What the relay's own steps leave alone.
LEMMA RelaysAlone ==
  ASSUME Answered \/ Resend \/ Tick
  PROVE  /\ transmits' = transmits
         /\ detected'[args] = detected[args] /\ detected'[low] = detected[low]
<1>1. ASSUME NEW s \in Failures, Fail(s)
      PROVE  detected' = Plus(detected, {s}) /\ transmits' = transmits
  BY <1>1 DEF Fail, BackOff, Settle
<1>2. ASSUME NEW F \in Inspections, Reply(F)
      PROVE  detected' = Plus(detected, F) /\ transmits' = transmits
  BY <1>2 DEF Reply, BackOff, Settle
<1>3. ASSUME NEW S, args \notin S, low \notin S, detected' = Plus(detected, S)
      PROVE  detected'[args] = detected[args] /\ detected'[low] = detected[low]
  BY <1>3 DEF Plus, Anomalies, Notices, args, low
<1>4. CASE \E s \in Failures : Fail(s)
  BY <1>1, <1>3, <1>4 DEF Failures, args, low
<1>5. CASE \E F \in Inspections : Reply(F)
  <2>1. \A F \in Inspections : args \notin F /\ low \notin F
    BY DEF Inspections, args, low
  <2>2. QED
    BY <1>2, <1>3, <1>5, <2>1
<1>6. CASE FailUnclassified \/ Resend \/ Tick
  BY <1>6 DEF FailUnclassified, Settle, Resend, Tick
<1>7. QED
  BY <1>4, <1>5, <1>6 DEF Answered

\* Ledger.record counts the one anomaly.
LEMMA NoteCounts ==
  ASSUME NEW s \in {args, low}, Note(s)
  PROVE  /\ transmits' = transmits
         /\ \A n \in {args, low} :
              detected'[n] = IF n = s THEN detected[n] + 1 ELSE detected[n]
  BY DEF Note, Plus, Anomalies, Notices, args, low

LEMMA Distributes ==
  ASSUME NEW n \in Nat, n >= 1, NEW k \in Nat
  PROVE  (n - 1) * k + k = n * k
  OBVIOUS

LEMMA Monotone ==
  ASSUME NEW m \in Nat, NEW n \in Nat, m <= n, NEW k \in Nat
  PROVE  m * k <= n * k
  OBVIOUS

LEMMA UsageStep ==
  ASSUME LoopTypeOK, Usage, [Next]_vars
  PROVE  Usage'
<1> USE HarnessAssumption DEF LoopTypeOK, Usage, Looping
<1>0. /\ LargerOf(1, MaxIterations) >= 1 /\ LargerOf(1, MaxIterations) >= MaxIterations
      /\ MaxIterations \in Nat /\ MaxEmitted \in Nat
      /\ LargerOf(1, MaxIterations) \in Nat
  BY DEF LargerOf
<1>1. CASE Unavailable \/ EnterLoop \/ TimeUp \/ IterationsUp
  BY <1>1 DEF Unavailable, EnterLoop, TimeUp, IterationsUp, Finish, relayVars, loopVars
<1>2. CASE AskOnce
  BY <1>0, <1>2 DEF AskOnce, Transmit, loopVars
<1>3. CASE EndSingle \/ TurnFails
  <2>1. stage' = "done" /\ UNCHANGED <<transmits, remaining, iteration>>
    BY <1>3 DEF EndSingle, TurnFails, Collect, Finish, loopVars
  <2>2. QED
    BY <2>1
<1>4. CASE NextTurn
  <2>1. /\ stage = "head" /\ stage' = "turn" /\ iteration < MaxIterations
        /\ iteration' = iteration + 1 /\ transmits' = transmits + 1
        /\ UNCHANGED <<remaining, emitted, served>>
    BY <1>4 DEF NextTurn, Transmit
  <2>2. transmits' = iteration' /\ iteration' >= 1 /\ iteration' <= MaxIterations
    BY <1>0, <2>1
  <2>3. transmits' <= LargerOf(1, MaxIterations)
    BY <1>0, <2>1, <2>2
  <2>4. QED
    BY <2>1, <2>2, <2>3
<1>5. ASSUME NEW n \in TurnTokens, TurnOverflows(n) \/ TurnAnswers(n) PROVE Usage'
  <2>1. stage' = "done" /\ UNCHANGED <<transmits, remaining, iteration>>
    BY <1>5 DEF TurnOverflows, TurnAnswers, TurnArrives, Collect, Finish
  <2>2. QED
    BY <2>1
<1>6. ASSUME NEW n \in TurnTokens, NEW calls \in 1 .. MaxEmitted,
             NEW full \in BOOLEAN, TurnCalls(n, calls, full)
      PROVE  Usage'
  <2>1. /\ stage = "turn" /\ UNCHANGED <<transmits, remaining, iteration>>
        /\ \/ stage' = "done"
           \/ stage' = "calls" /\ emitted' = calls /\ served' = 0
    BY <1>6 DEF TurnCalls, TurnArrives, Collect, Finish
  <2>2. QED
    BY <1>0, <2>1
<1>7. CASE RefuseCall \/ MalformedCall \/ EndCall
  <2>1. /\ stage \in {"calls", "running"} /\ stage' = "calls"
        /\ served < emitted /\ served' = served + 1
        /\ UNCHANGED <<transmits, remaining, iteration, emitted>>
    BY <1>7 DEF RefuseCall, MalformedCall, EndCall, Note, relayVars
  <2>2. served' <= emitted' /\ emitted' <= MaxEmitted /\ iteration' >= 1
    BY <2>1
  <2>3. QED
    BY <2>1, <2>2
<1>8. CASE StartCall
  BY <1>8 DEF StartCall, relayVars
<1>9. ASSUME NEW l \in BOOLEAN, EndTurn(l) PROVE Usage'
  <2>1. /\ stage = "calls" /\ stage' = "head"
        /\ UNCHANGED <<transmits, remaining, iteration>>
    BY <1>9 DEF EndTurn, Note, relayVars
  <2>2. QED
    BY <2>1
<1>10. CASE Relaying
  <2>1. UNCHANGED <<transmits, stage, remaining, iteration, emitted, served, wrapUp>>
    BY <1>10, RelaysAlone DEF Relaying, loopVars
  <2>2. QED
    BY <2>1
<1>11. CASE Passes
  <2>1. /\ remaining' = remaining - 1
        /\ UNCHANGED <<transmits, stage, iteration, emitted, served, wrapUp>>
    BY <1>11, RelaysAlone DEF Passes, relayVars
  <2>2. QED
    BY <2>1
<1>12. CASE UNCHANGED vars
  BY <1>12 DEF vars, relayVars, loopVars
<1>13. QED
  BY <1>1, <1>2, <1>3, <1>4, <1>5, <1>6, <1>7, <1>8, <1>9, <1>10, <1>11, <1>12
     DEF Next, Own

LEMMA NotedStep ==
  ASSUME LoopTypeOK, Usage, Noted, [Next]_vars
  PROVE  Noted'
<1> USE HarnessAssumption DEF LoopTypeOK, Noted, Looping, Before
<1>0. MaxEmitted \in Nat /\ iteration \in Nat /\ served \in Nat
  OBVIOUS
<1>1. CASE Unavailable \/ EnterLoop \/ TimeUp \/ IterationsUp
  <2>1. UNCHANGED detected /\ \/ stage' = "done"
                              \/ stage = "intake" /\ stage' = "head"
    BY <1>1 DEF Unavailable, EnterLoop, TimeUp, IterationsUp, Finish, relayVars
  <2>2. stage = "intake" => (iteration = 0 /\ iteration' = 0) \/ stage' = "done"
    BY <1>1 DEF Unavailable, EnterLoop, TimeUp, IterationsUp, Finish, loopVars, Usage
  <2>3. QED
    BY <2>1, <2>2
<1>2. CASE AskOnce \/ EndSingle \/ TurnFails
  <2>1. stage' \in {"single", "done"}
    BY <1>2 DEF AskOnce, EndSingle, TurnFails, Finish
  <2>2. UNCHANGED detected
    BY <1>2 DEF AskOnce, EndSingle, TurnFails, Transmit, Collect
  <2>3. QED
    BY <2>1, <2>2
<1>3. CASE NextTurn
  <2>1. /\ stage = "head" /\ stage' = "turn" /\ iteration' = iteration + 1
        /\ UNCHANGED <<detected, wrapUp>>
    BY <1>3 DEF NextTurn, Transmit
  <2>2. QED
    BY <2>1
<1>4. ASSUME NEW n \in TurnTokens, TurnOverflows(n) \/ TurnAnswers(n) PROVE Noted'
  <2>1. stage' = "done" /\ UNCHANGED detected
    BY <1>4 DEF TurnOverflows, TurnAnswers, TurnArrives, Collect, Finish
  <2>2. QED
    BY <2>1
<1>5. ASSUME NEW n \in TurnTokens, NEW calls \in 1 .. MaxEmitted,
             NEW full \in BOOLEAN, TurnCalls(n, calls, full)
      PROVE  Noted'
  <2>1. /\ stage = "turn" /\ UNCHANGED <<detected, iteration>>
        /\ \/ stage' = "done"
           \/ stage' = "calls" /\ served' = 0 /\ (wrapUp' = (wrapUp \/ full))
    BY <1>5 DEF TurnCalls, TurnArrives, Collect, Finish
  <2>2. QED
    BY <2>1
<1>6. CASE RefuseCall \/ EndCall \/ StartCall
  <2>1. /\ stage \in {"calls", "running"} /\ stage' \in {"calls", "running"}
        /\ served' \in {served, served + 1}
        /\ UNCHANGED <<detected, iteration, wrapUp>>
    BY <1>6 DEF RefuseCall, EndCall, StartCall, relayVars
  <2>2. QED
    BY <2>1
<1>7. CASE MalformedCall
  <2>1. /\ stage = "calls" /\ stage' = "calls" /\ served' = served + 1
        /\ Note(args) /\ UNCHANGED <<iteration, wrapUp>>
    BY <1>7 DEF MalformedCall, args
  <2>2. detected'[args] = detected[args] + 1 /\ detected'[low] = detected[low]
    BY <2>1, NoteCounts DEF args, low
  <2>3. QED
    BY <2>1, <2>2
<1>8. ASSUME NEW l \in BOOLEAN, EndTurn(l) PROVE Noted'
  <2>1. /\ stage = "calls" /\ stage' = "head" /\ served = emitted
        /\ UNCHANGED iteration
        /\ \/ wrapUp' = TRUE /\ Note(low)
           \/ UNCHANGED <<detected, wrapUp>>
    BY <1>8 DEF EndTurn, low, relayVars
  <2>2. /\ detected'[args] = detected[args]
        /\ detected'[low] \in {detected[low], detected[low] + 1}
        /\ ~wrapUp' => detected'[low] = detected[low] /\ ~wrapUp
    BY <2>1, NoteCounts DEF args, low
  <2>3. detected[args] <= (iteration - 1) * MaxEmitted + MaxEmitted
    <3>1. served <= MaxEmitted /\ (iteration - 1) * MaxEmitted \in Int
      BY <2>1 DEF Usage
    <3>2. detected[args] <= (iteration - 1) * MaxEmitted + served
      BY <2>1
    <3>3. QED
      BY <3>1, <3>2
  <2>4. detected'[args] <= iteration * MaxEmitted
    BY <1>0, <2>1, <2>2, <2>3, Distributes DEF Usage
  <2>5. QED
    BY <2>1, <2>2, <2>4
<1>9. CASE Relaying \/ Passes
  <2>1. UNCHANGED <<stage, iteration, served, wrapUp>>
    BY <1>9 DEF Relaying, Passes, loopVars
  <2>2. detected'[args] = detected[args] /\ detected'[low] = detected[low]
    BY <1>9, RelaysAlone DEF Relaying, Passes, relayVars
  <2>3. QED
    BY <2>1, <2>2
<1>10. CASE UNCHANGED vars
  BY <1>10 DEF vars, relayVars, loopVars
<1>11. QED
  BY <1>1, <1>2, <1>3, <1>4, <1>5, <1>6, <1>7, <1>8, <1>9, <1>10 DEF Next, Own

\* Every step of the task is one the relay's callers may take.
LEMMA RelayStep ==
  ASSUME LoopTypeOK, Usage, Noted, [Next]_vars
  PROVE  [RelayNext]_relayVars
<1> USE HarnessAssumption DEF LoopTypeOK
<1> DEFINE most == SmallerOf(Timeout, ChannelTimeout)
<1>1. ASSUME NEW t \in 1 .. LargerOf(Floor, most), Transmit(t),
             transmits < MaxTransmits
      PROVE  RelayNext
  BY <1>1, BoundsAssumption DEF RelayNext, Call
<1>2. CASE AskOnce
  <2>1. most \in 1 .. LargerOf(Floor, most)
    BY RelayAssumption DEF LargerOf, SmallerOf
  <2>2. transmits < MaxTransmits
    BY <1>2, BoundsAssumption, RelayAssumption DEF AskOnce, Usage
  <2>3. QED
    BY <1>1, <1>2, <2>1, <2>2 DEF AskOnce
<1>3. CASE NextTurn
  <2> DEFINE t == LargerOf(Floor, SmallerOf(remaining, ChannelTimeout))
  <2>1. remaining \in Int /\ remaining > 0 /\ remaining <= Timeout
    BY <1>3 DEF NextTurn, Usage
  <2>2. t \in 1 .. LargerOf(Floor, most)
    <3> DEFINE u == SmallerOf(remaining, ChannelTimeout)
    <3>1. u \in Nat /\ most \in Nat /\ 1 <= u /\ u <= most
      BY <2>1 DEF SmallerOf
    <3> HIDE DEF u, most
    <3>2. LargerOf(Floor, u) \in 1 .. LargerOf(Floor, most)
      BY <3>1, RelayAssumption DEF LargerOf
    <3>3. QED
      BY <3>2 DEF u
  <2>3. transmits < MaxTransmits
    BY <1>3, BoundsAssumption, RelayAssumption DEF NextTurn, Usage, Looping
  <2>4. QED
    BY <1>1, <1>3, <2>2, <2>3 DEF NextTurn
<1>4. CASE MalformedCall
  <2>1. stage = "calls" /\ served < emitted /\ Note(args)
    BY <1>4 DEF MalformedCall, args
  <2>2. detected[args] <= (iteration - 1) * MaxEmitted + served
    BY <2>1 DEF Noted, Before
  <2>3. /\ iteration >= 1 /\ iteration <= MaxIterations /\ served < MaxEmitted
        /\ iteration \in Nat /\ MaxIterations \in Nat /\ MaxEmitted \in Nat
        /\ served \in Nat
    BY <2>1 DEF Usage
  <2>4. (iteration - 1) * MaxEmitted + MaxEmitted = iteration * MaxEmitted
    BY <2>3, Distributes
  <2>5. iteration * MaxEmitted <= MaxIterations * MaxEmitted
    BY <2>3, Monotone
  <2>6. detected[args] < MaxNotices
    <3> DEFINE a == (iteration - 1) * MaxEmitted
               b == iteration * MaxEmitted
               c == MaxIterations * MaxEmitted
    <3>1. a \in Int /\ b \in Int /\ c \in Int /\ a + MaxEmitted = b /\ b <= c
      BY <2>3, <2>4, <2>5
    <3>2. c < MaxNotices /\ MaxNotices \in Nat /\ detected[args] \in Nat
      BY BoundsAssumption, RelayAssumption DEF Noted
    <3>3. detected[args] <= a + served
      BY <2>2
    <3> HIDE DEF a, b, c
    <3>4. QED
      BY <2>3, <3>1, <3>2, <3>3
  <2>7. QED
    BY <2>1, <2>6 DEF RelayNext, Notice, Notices, args
<1>5. ASSUME NEW l \in BOOLEAN, EndTurn(l) PROVE [RelayNext]_relayVars
  <2>1. CASE Note(low) /\ ~wrapUp /\ stage = "calls"
    <3>1. detected[low] = 0
      BY <2>1 DEF Noted, Looping
    <3>2. MaxIterations * MaxEmitted >= 0
      BY Monotone
    <3>3. 0 < MaxNotices
      BY <3>2, BoundsAssumption, RelayAssumption
    <3>4. QED
      BY <2>1, <3>1, <3>3 DEF RelayNext, Notice, Notices, low
  <2>2. QED
    BY <1>5, <2>1 DEF EndTurn, low
<1>6. CASE EndSingle \/ TurnFails \/ Relaying \/ Passes
  BY <1>6 DEF EndSingle, TurnFails, Relaying, Passes, RelayNext
<1>7. ASSUME NEW n \in TurnTokens, TurnArrives(n) PROVE RelayNext
  BY <1>7 DEF TurnArrives, RelayNext
<1>8. ASSUME NEW n \in TurnTokens,
             \/ TurnOverflows(n) \/ TurnAnswers(n)
             \/ \E calls, full : TurnCalls(n, calls, full)
      PROVE  RelayNext
  BY <1>7, <1>8 DEF TurnOverflows, TurnAnswers, TurnCalls
<1>9. CASE \/ Unavailable \/ EnterLoop \/ TimeUp \/ IterationsUp
           \/ RefuseCall \/ StartCall \/ EndCall \/ UNCHANGED vars
  BY <1>9 DEF Unavailable, EnterLoop, TimeUp, IterationsUp, RefuseCall,
     StartCall, EndCall, vars
<1>10. QED
  BY <1>2, <1>3, <1>4, <1>5, <1>6, <1>8, <1>9 DEF Next, Own

TaskInv == LoopTypeOK /\ Usage /\ Noted

LEMMA TaskInvHolds == Spec => []TaskInv
<1>1. Init => TaskInv
  <2> SUFFICES ASSUME Init PROVE TaskInv
    OBVIOUS
  <2>1. LoopTypeOK
    <3>1. Timeout \in Int
      BY HarnessAssumption
    <3>2. stage \in Stages /\ result \in Results
      BY DEF Init, Stages, Results
    <3>3. /\ {iteration, tokens, emitted, served, callTimer, told} \subseteq Nat
          /\ refusedAt \subseteq Nat /\ ranAt \subseteq Nat
      BY DEF Init
    <3>4. remaining \in Int /\ tracked \in BOOLEAN /\ wrapUp \in BOOLEAN
      BY <3>1 DEF Init
    <3>5. QED
      BY <3>2, <3>3, <3>4 DEF LoopTypeOK
  <2>2. Usage
    <3>1. 0 <= LargerOf(1, MaxIterations)
      BY HarnessAssumption DEF LargerOf
    <3>2. QED
      BY <3>1, HarnessAssumption DEF Init, RelayInit, Usage, Looping
  <2>3. Noted
    BY DEF Init, RelayInit, NoTries, Noted, Looping, Anomalies, Notices, args, low
  <2>4. QED
    BY <2>1, <2>2, <2>3 DEF TaskInv
<1>2. TaskInv /\ [Next]_vars => TaskInv'
  BY LoopTypeStep, UsageStep, NotedStep DEF TaskInv
<1>3. QED
  BY <1>1, <1>2, PTL DEF Spec

(* RelaySpec: a task, its tool loop included, uses the relay as Relay says  *)
(* its callers do: one request at a time, within its bounds.                *)
THEOREM RelayRefined == Spec => RelaySpec
<1>1. Init => RelayInit
  BY DEF Init
<1>2. TaskInv /\ [Next]_vars => [RelayNext]_relayVars
  BY RelayStep DEF TaskInv
<1>3. QED
  BY <1>1, <1>2, TaskInvHolds, PTL DEF Spec, RelaySpec

(* TypeOK: every reachable state of a task and its relay is well typed.     *)
THEOREM TypeCorrect == Spec => []TypeOK
<1>1. LoopTypeOK /\ RelayTypeOK => TypeOK
  BY DEF LoopTypeOK, TypeOK
<1>2. TaskInv => LoopTypeOK
  BY DEF TaskInv
<1>3. QED
  BY <1>1, <1>2, TaskInvHolds, RelayRefined, RelayTypeCorrect, PTL

(* ExchangesBounded: however many turns a task takes and however many of    *)
(* its requests are resent, one budget of resends bounds what it sends.     *)
THEOREM ExchangesBoundedHolds == Spec => []ExchangesBounded
<1>1. TypeOK /\ Usage /\ ExchangesAccounted => ExchangesBounded
  <2> SUFFICES ASSUME TypeOK, Usage, ExchangesAccounted PROVE ExchangesBounded
    OBVIOUS
  <2>1. exchanges <= transmits + MaxRetransmits
    BY RelayAssumption DEF TypeOK, RelayTypeOK, ExchangesAccounted
  <2>2. LargerOf(1, MaxIterations) \in Nat
    BY HarnessAssumption DEF LargerOf
  <2>3. QED
    BY <2>1, <2>2, RelayAssumption
       DEF TypeOK, RelayTypeOK, Usage, ExchangesBounded
<1>2. TaskInv => Usage
  BY DEF TaskInv
<1>3. QED
  BY <1>1, <1>2, TaskInvHolds, TypeCorrect, RelayRefined,
     ExchangesAccountedHolds, PTL
-----------------------------------------------------------------------------
(***************************************************************************)
(* The wrap-up handshake: a model is told, may be refused in one turn, and *)
(* is ended in the next.                                                   *)
(***************************************************************************)

\* What the turns up to i leave of a handshake that has begun.
Shaken(i) == \/ refusedAt = {} /\ told = i
             \/ refusedAt = {i} /\ told \in {i, i - 1}

Handshake ==
  /\ told <= iteration
  /\ wrapUp <=> told # 0
  /\ told = 0 => refusedAt = {}
  /\ told # 0 => \E i \in {told, told + 1} : refusedAt \subseteq {i}
  /\ \A t \in ranAt : t <= iteration /\ (told # 0 => t <= told)
  /\ stage = "running" => ~wrapUp
  /\ stage = "calls" => emitted >= 1
  /\ stage = "head" /\ wrapUp => Shaken(iteration)
  /\ stage = "turn" /\ wrapUp => Shaken(iteration - 1)
  /\ stage = "calls" /\ wrapUp =>
       /\ told \in {iteration, iteration - 1}
       /\ refusedAt = IF served = 0 THEN {} ELSE {iteration}
  /\ stage # "done" => result = "none"
  /\ ToldInTime

LEMMA SomeCall ==
  ASSUME NEW m \in Nat, NEW n \in Nat, m < n
  PROVE  n >= 1
  OBVIOUS

LEMMA OneOrMore == \A n \in Nat : \A c \in 1 .. n : c >= 1
  OBVIOUS

LEMMA HandshakeStep ==
  ASSUME LoopTypeOK, Usage, Handshake, [Next]_vars
  PROVE  Handshake'
<1> USE DEF LoopTypeOK, Handshake, ToldInTime
<1> DEFINE shake == <<told, wrapUp, refusedAt, ranAt, iteration>>
<1>0. ASSUME UNCHANGED shake, stage' = "done",
             result' \notin {"kept calling", "no room"}
      PROVE  Handshake'
  BY <1>0
<1>1. CASE Unavailable \/ EndSingle \/ TimeUp \/ IterationsUp \/ TurnFails
  <2>1. UNCHANGED shake /\ stage' = "done"
    BY <1>1 DEF Unavailable, EndSingle, TimeUp, IterationsUp, TurnFails, Finish, loopVars
  <2>2. result' \notin {"kept calling", "no room"}
    BY <1>1 DEF Unavailable, EndSingle, TimeUp, IterationsUp, TurnFails, Finish, Verdicts
  <2>3. QED
    BY <1>0, <2>1, <2>2
<1>2. CASE AskOnce \/ EnterLoop
  <2>1. stage = "intake" /\ stage' \in {"single", "head"}
    BY <1>2 DEF AskOnce, EnterLoop
  <2>2. UNCHANGED shake /\ UNCHANGED result
    BY <1>2 DEF AskOnce, EnterLoop, loopVars
  <2>3. ~wrapUp
    BY <2>1 DEF Usage
  <2>4. QED
    BY <2>1, <2>2, <2>3
<1>3. CASE NextTurn
  <2>1. /\ stage = "head" /\ stage' = "turn" /\ iteration' = iteration + 1
        /\ UNCHANGED <<result, told, wrapUp, refusedAt, ranAt>>
    BY <1>3 DEF NextTurn
  <2>2. wrapUp' => Shaken(iteration - 1)'
    BY <2>1 DEF Shaken
  <2>3. QED
    BY <2>1, <2>2
<1>4. ASSUME NEW n \in TurnTokens, TurnOverflows(n) \/ TurnAnswers(n) PROVE Handshake'
  <2>1. UNCHANGED shake /\ stage' = "done"
    BY <1>4 DEF TurnOverflows, TurnAnswers, TurnArrives, Finish
  <2>2. result' \notin {"kept calling", "no room"}
    BY <1>4 DEF TurnOverflows, TurnAnswers, Finish, Verdicts
  <2>3. QED
    BY <1>0, <2>1, <2>2
<1>5. ASSUME NEW n \in TurnTokens, NEW calls \in 1 .. MaxEmitted,
             NEW full \in BOOLEAN, TurnCalls(n, calls, full)
      PROVE  Handshake'
  <2> DEFINE r == StopsWith(tokens', full)
  <2>1. stage = "turn" /\ UNCHANGED <<iteration, refusedAt, ranAt>> /\ iteration >= 1
    BY <1>5 DEF TurnCalls, TurnArrives, Usage
  <2>2. CASE r # "none"
    <3>1. stage' = "done" /\ result' = r /\ UNCHANGED <<wrapUp, told>>
      BY <1>5, <2>2 DEF TurnCalls, Finish
    <3>2. r \in {"kept calling", "no room"} => wrapUp
      BY DEF StopsWith
    <3>3. wrapUp => told # 0 /\ told < iteration
      BY <2>1 DEF Shaken
    <3>4. QED
      BY <2>1, <3>1, <3>2, <3>3
  <2>3. CASE r = "none"
    <3>1. /\ stage' = "calls" /\ UNCHANGED result /\ served' = 0
          /\ emitted' = calls
          /\ wrapUp' = (wrapUp \/ full)
          /\ told' = IF full THEN iteration ELSE told
      BY <1>5, <2>3 DEF TurnCalls
    <3>2. wrapUp => ~full /\ iteration - 1 \notin refusedAt
      BY <2>3 DEF StopsWith
    <3>3. CASE wrapUp
      <4>1. refusedAt = {} /\ told = iteration - 1
        BY <2>1, <3>2, <3>3 DEF Shaken
      <4>2. told' = told /\ wrapUp' = TRUE
        BY <3>1, <3>2, <3>3
      <4>3. told' # 0 /\ emitted' >= 1
        <5>1. emitted' >= 1
          <6>1. calls >= 1
            BY OneOrMore, HarnessAssumption
          <6>2. emitted' = calls
            BY <3>1
          <6>3. QED
            BY <6>1, <6>2
        <5>2. told # 0
          BY <3>3
        <5>3. QED
          BY <4>2, <5>1, <5>2
      <4>4. told' < iteration' /\ told' = iteration' - 1 /\ refusedAt' = {}
        BY <2>1, <4>1, <4>2
      <4>5. QED
        BY <2>1, <3>1, <4>2, <4>3, <4>4
    <3>4. CASE ~wrapUp
      <4>1. told = 0 /\ refusedAt = {}
        BY <3>4
      <4>2. QED
        BY <2>1, <3>1, <3>4, <4>1
    <3>5. QED
      BY <3>3, <3>4
  <2>4. QED
    BY <2>2, <2>3
<1>6. CASE RefuseCall
  <2>1. /\ stage = "calls" /\ stage' = "calls" /\ served' = served + 1
        /\ refusedAt' = IF wrapUp THEN refusedAt \cup {iteration} ELSE refusedAt
        /\ UNCHANGED <<result, told, wrapUp, ranAt, iteration, emitted>>
    BY <1>6 DEF RefuseCall
  <2>2. wrapUp => refusedAt' = {iteration}
    BY <2>1
  <2>3. ~wrapUp => refusedAt' = {}
    BY <2>1
  <2>4. told # 0 => \E i \in {told, told + 1} : refusedAt' \subseteq {i}
    <3>1. wrapUp => iteration \in {told, told + 1}
      BY <2>1
    <3>2. QED
      BY <2>2, <3>1
  <2>5. served' # 0
    BY <2>1
  <2>6. QED
    BY <2>1, <2>2, <2>3, <2>4, <2>5
<1>7. CASE MalformedCall \/ EndCall
  <2>1. /\ stage \in {"calls", "running"} /\ stage' = "calls" /\ ~wrapUp
        /\ served < emitted
        /\ UNCHANGED <<result, told, wrapUp, refusedAt, ranAt, iteration, emitted>>
    BY <1>7 DEF MalformedCall, EndCall, Admitted, Usage
  <2>2. served \in Nat /\ emitted \in Nat /\ served < emitted
    BY <2>1
  <2>3. emitted >= 1
    BY <2>2, SomeCall
  <2>4. QED
    BY <2>1, <2>3
<1>8. CASE StartCall
  <2>1. /\ stage' = "running" /\ ~wrapUp /\ stage = "calls"
        /\ ranAt' = ranAt \cup {iteration}
        /\ UNCHANGED <<result, told, wrapUp, refusedAt, iteration, emitted>>
    BY <1>8 DEF StartCall, Admitted
  <2>2. QED
    BY <2>1
<1>9. ASSUME NEW l \in BOOLEAN, EndTurn(l) PROVE Handshake'
  <2>1. /\ stage = "calls" /\ stage' = "head" /\ served = emitted
        /\ UNCHANGED <<result, refusedAt, ranAt, iteration, emitted, served>>
    BY <1>9 DEF EndTurn
  <2>2. CASE UNCHANGED <<wrapUp, told>>
    <3>1. wrapUp => Shaken(iteration)
      BY <2>1 DEF Shaken
    <3>2. wrapUp' => Shaken(iteration)'
      BY <2>1, <2>2, <3>1 DEF Shaken
    <3>3. QED
      BY <2>1, <2>2, <3>2
  <2>3. CASE ~wrapUp /\ wrapUp' = TRUE /\ told' = iteration
    <3>1. refusedAt = {} /\ iteration >= 1
      BY <2>1, <2>3 DEF Usage
    <3>2. Shaken(iteration)'
      BY <2>1, <2>3, <3>1 DEF Shaken
    <3>3. QED
      BY <2>1, <2>3, <3>1, <3>2
  <2>4. QED
    BY <1>9, <2>2, <2>3 DEF EndTurn
<1>10. CASE Relaying \/ Passes \/ UNCHANGED vars
  <2>1. /\ UNCHANGED shake /\ UNCHANGED <<stage, result, emitted, served>>
    BY <1>10 DEF Relaying, Passes, vars, loopVars
  <2>2. QED
    BY <2>1 DEF Shaken
<1>11. QED
  BY <1>1, <1>2, <1>3, <1>4, <1>5, <1>6, <1>7, <1>8, <1>9, <1>10 DEF Next, Own

LEMMA HandshakeHolds == Spec => []Handshake
<1>1. Init => Handshake
  BY DEF Init, Handshake, ToldInTime
<1>2. TaskInv /\ Handshake /\ [Next]_vars => Handshake'
  BY HandshakeStep DEF TaskInv
<1>3. QED
  BY <1>1, <1>2, TaskInvHolds, PTL DEF Spec

(* ToldStopsCalls: nothing runs after the model was told to answer, and the *)
(* calls refused for it are those of one turn.                              *)
THEOREM ToldStopsCallsHolds == Spec => []ToldStopsCalls
<1>1. Handshake => ToldStopsCalls
  <2> SUFFICES ASSUME Handshake, told # 0
               PROVE  /\ \A t \in ranAt : t <= told
                      /\ refusedAt \subseteq {told, told + 1}
                      /\ Cardinality(refusedAt) <= 1
    BY DEF ToldStopsCalls
  <2>1. PICK i \in {told, told + 1} : refusedAt \subseteq {i}
    BY DEF Handshake
  <2>2. Cardinality(refusedAt) <= 1
    <3>1. refusedAt = {} \/ refusedAt = {i}
      BY <2>1
    <3>2. Cardinality({}) = 0 /\ Cardinality({i}) = 1
      BY FS_EmptySet, FS_Singleton
    <3>3. QED
      BY <3>1, <3>2
  <2>3. QED
    BY <2>1, <2>2 DEF Handshake
<1>2. QED
  BY <1>1, HandshakeHolds, PTL

(* ToldInTime: a task that fails for a full window had a whole turn, after  *)
(* the one whose results told it to, to give its answer.                    *)
THEOREM ToldInTimeHolds == Spec => []ToldInTime
<1>1. Handshake => ToldInTime
  BY DEF Handshake
<1>2. QED
  BY <1>1, HandshakeHolds, PTL
-----------------------------------------------------------------------------
(***************************************************************************)
(* Overshoot.  The deadline is looked at before a turn only: what a turn   *)
(* can take beyond it is the relay's slack and the time of its calls.      *)
(***************************************************************************)
CallSpan == CallTimeout + Grace

\* The most that n calls of a turn take: those over the limit take no time.
Spent(n) == SmallerOf(n, MaxCalls) * CallSpan

LEMMA SpentGrows ==
  /\ CallSpan \in Nat
  /\ \A n \in Nat : Spent(n) \in Nat /\ Spent(n) <= MaxCalls * CallSpan
  /\ MaxCalls * CallSpan \in Nat
  /\ Spent(0) = 0
  /\ \A n \in Nat : Spent(n) <= Spent(n + 1)
  /\ \A n \in Nat : n < MaxCalls => Spent(n + 1) = Spent(n) + CallSpan
<1>1. CallSpan \in Nat /\ MaxCalls \in Nat
  BY RelayAssumption, HarnessAssumption DEF CallSpan
<1> HIDE DEF CallSpan
<1>2. \A n \in Nat : SmallerOf(n, MaxCalls) \in Nat /\ SmallerOf(n, MaxCalls) <= MaxCalls
  BY <1>1 DEF SmallerOf
<1>3. \A m, n \in Nat : m * CallSpan \in Nat /\ (m <= n => m * CallSpan <= n * CallSpan)
  BY <1>1, Monotone
<1>4. \A n \in Nat : Spent(n) \in Nat /\ Spent(n) <= MaxCalls * CallSpan
  BY <1>1, <1>2, <1>3 DEF Spent
<1>5. SmallerOf(0, MaxCalls) = 0 /\ 0 * CallSpan = 0
  BY <1>1 DEF SmallerOf
<1>6. ASSUME NEW n \in Nat PROVE Spent(n) <= Spent(n + 1)
  <2>1. SmallerOf(n, MaxCalls) <= SmallerOf(n + 1, MaxCalls)
    BY <1>1 DEF SmallerOf
  <2>2. QED
    BY <1>2, <1>3, <2>1 DEF Spent
<1>7. ASSUME NEW n \in Nat, n < MaxCalls PROVE Spent(n + 1) = Spent(n) + CallSpan
  <2>1. SmallerOf(n, MaxCalls) = n /\ SmallerOf(n + 1, MaxCalls) = n + 1
    BY <1>1, <1>7 DEF SmallerOf
  <2>2. ((n + 1) - 1) * CallSpan + CallSpan = (n + 1) * CallSpan /\ (n + 1) - 1 = n
    BY <1>1, Distributes
  <2>3. QED
    BY <2>1, <2>2 DEF Spent
<1>8. QED
  BY <1>1, <1>3, <1>4, <1>5, <1>6, <1>7 DEF Spent

Slack == 1 - Floor - Grace

Clock ==
  /\ stage = "intake" => remaining = Timeout
  /\ stage \in {"single", "turn"} => link # "idle" /\ remaining - left >= 1 - Floor
  /\ stage \in {"head", "done"} => remaining >= Slack - MaxCalls * CallSpan
  /\ stage = "calls" => remaining >= Slack - Spent(served)
  /\ stage = "running" =>
       /\ served < MaxCalls
       /\ remaining >= Slack - Spent(served) - CallSpan + callTimer

\* What the time left says when a request is over.
LEMMA AfterRequest ==
  ASSUME LoopTypeOK, Clock, RelayTypeOK, InTime, stage \in {"single", "turn"}
  PROVE  remaining >= Slack
<1>1. link # "idle" /\ remaining - left >= 1 - Floor /\ left + Grace >= 0
  BY DEF Clock, InTime
<1>2. remaining \in Int /\ left \in Int /\ Floor \in Int /\ Grace \in Int
  BY RelayAssumption DEF LoopTypeOK, RelayTypeOK
<1>3. QED
  BY <1>1, <1>2 DEF Slack

\* A request starts with no more time than the task has, or the least there is.
LEMMA RequestFits ==
  ASSUME NEW r \in Int, r > 0, NEW t,
         t = LargerOf(Floor, SmallerOf(r, ChannelTimeout))
  PROVE  r - t >= 1 - Floor /\ LargerOf(Floor, t) = t
<1>1. Floor \in Nat /\ Floor >= 1 /\ ChannelTimeout \in Nat
  BY RelayAssumption, HarnessAssumption
<1>2. SmallerOf(r, ChannelTimeout) \in Int /\ SmallerOf(r, ChannelTimeout) <= r
  BY <1>1 DEF SmallerOf
<1> DEFINE u == SmallerOf(r, ChannelTimeout)
<1> HIDE DEF u
<1>3. u \in Int /\ u <= r /\ t = LargerOf(Floor, u)
  BY <1>2 DEF u
<1>4. QED
  BY <1>1, <1>3 DEF LargerOf

LEMMA ClockStep ==
  ASSUME TypeOK, TypeOK', Clock, InTime, [Next]_vars
  PROVE  Clock'
<1>0. /\ Slack \in Int /\ CallSpan \in Nat /\ Floor \in Nat /\ Grace \in Nat
      /\ remaining \in Int /\ remaining' \in Int /\ left \in Int /\ left' \in Int
      /\ served \in Nat /\ callTimer \in Nat /\ MaxCalls \in Nat /\ CallTimeout \in Nat
      /\ Timeout \in Nat /\ Timeout > 0 /\ ChannelTimeout \in Nat
      /\ LoopTypeOK /\ RelayTypeOK
  BY RelayAssumption, HarnessAssumption
     DEF Slack, CallSpan, TypeOK, RelayTypeOK, LoopTypeOK
<1>s. /\ Spent(served) \in Nat /\ Spent(served) <= MaxCalls * CallSpan
      /\ Spent(served) <= Spent(served + 1) /\ Spent(served + 1) \in Nat
      /\ MaxCalls * CallSpan \in Nat /\ Spent(0) = 0
      /\ served < MaxCalls => Spent(served + 1) = Spent(served) + CallSpan
  BY <1>0, SpentGrows
<1> DEFINE all == MaxCalls * CallSpan
<1> HIDE DEF Slack, CallSpan, Spent, all
<1>1. CASE Unavailable \/ EnterLoop
  <2>1. /\ stage = "intake" /\ stage' \in {"head", "done"} /\ remaining' = remaining
    BY <1>1 DEF Unavailable, EnterLoop, Finish
  <2>2. Slack <= 0
    BY RelayAssumption DEF Slack
  <2>3. remaining' >= Slack - MaxCalls * CallSpan
    BY <1>0, <1>s, <2>1, <2>2 DEF Clock, all
  <2>4. QED
    BY <2>1, <2>3 DEF Clock
<1>2. CASE AskOnce
  <2>1. /\ stage' = "single" /\ link' = "sending" /\ remaining' = Timeout
        /\ left' = LargerOf(Floor, SmallerOf(Timeout, ChannelTimeout))
    BY <1>2 DEF AskOnce, Transmit, Clock
  <2>2. Timeout - left' >= 1 - Floor
    BY <1>0, <2>1, RequestFits
  <2>3. QED
    BY <2>1, <2>2 DEF Clock
<1>3. CASE NextTurn
  <2> DEFINE t == LargerOf(Floor, SmallerOf(remaining, ChannelTimeout))
  <2>1. /\ stage' = "turn" /\ link' = "sending" /\ remaining' = remaining
        /\ remaining > 0 /\ left' = LargerOf(Floor, t)
    BY <1>3 DEF NextTurn, Transmit
  <2>2. remaining - t >= 1 - Floor /\ LargerOf(Floor, t) = t
    BY <1>0, <2>1, RequestFits
  <2>3. QED
    BY <2>1, <2>2 DEF Clock
<1>4. CASE TimeUp \/ IterationsUp
  <2>1. stage = "head" /\ stage' = "done" /\ remaining' = remaining
    BY <1>4 DEF TimeUp, IterationsUp, Finish
  <2>2. QED
    BY <2>1 DEF Clock
<1>5. ASSUME stage \in {"single", "turn"}, remaining' = remaining,
             \/ stage' = "done"
             \/ stage' = "calls" /\ served' = 0
      PROVE  Clock'
  <2>1. remaining >= Slack
    BY <1>0, <1>5, AfterRequest
  <2>2. remaining >= Slack - MaxCalls * CallSpan
    BY <1>0, <1>s, <2>1 DEF all
  <2>3. remaining >= Slack - Spent(0)
    BY <1>0, <1>s, <2>1
  <2>4. QED
    BY <1>5, <2>2, <2>3 DEF Clock
<1>6. CASE EndSingle \/ TurnFails
  BY <1>5, <1>6 DEF EndSingle, TurnFails, Finish
<1>7. ASSUME NEW n \in TurnTokens, TurnOverflows(n) \/ TurnAnswers(n) PROVE Clock'
  BY <1>5, <1>7 DEF TurnOverflows, TurnAnswers, TurnArrives, Finish
<1>8. ASSUME NEW n \in TurnTokens, NEW calls \in 1 .. MaxEmitted,
             NEW full \in BOOLEAN, TurnCalls(n, calls, full)
      PROVE  Clock'
  BY <1>5, <1>8 DEF TurnCalls, TurnArrives, Finish
<1>9. CASE RefuseCall \/ MalformedCall
  <2>1. /\ stage = "calls" /\ stage' = "calls" /\ served' = served + 1
        /\ remaining' = remaining
    BY <1>9 DEF RefuseCall, MalformedCall
  <2>2. remaining >= Slack - Spent(served + 1)
    BY <1>0, <1>s, <2>1 DEF Clock
  <2>3. QED
    BY <2>1, <2>2 DEF Clock
<1>10. CASE StartCall
  <2>1. /\ stage = "calls" /\ stage' = "running" /\ served' = served
        /\ remaining' = remaining /\ served < MaxCalls /\ callTimer' = CallSpan
    BY <1>10 DEF StartCall, Admitted, CallSpan
  <2>2. remaining >= Slack - Spent(served) - CallSpan + callTimer'
    BY <1>0, <1>s, <2>1 DEF Clock
  <2>3. QED
    BY <2>1, <2>2 DEF Clock
<1>11. CASE EndCall
  <2>1. /\ stage = "running" /\ stage' = "calls" /\ served' = served + 1
        /\ remaining' = remaining
    BY <1>11 DEF EndCall
  <2>2. remaining >= Slack - Spent(served + 1)
    BY <1>0, <1>s, <2>1 DEF Clock
  <2>3. QED
    BY <2>1, <2>2 DEF Clock
<1>12. ASSUME NEW l \in BOOLEAN, EndTurn(l) PROVE Clock'
  <2>1. stage = "calls" /\ stage' = "head" /\ remaining' = remaining
    BY <1>12 DEF EndTurn
  <2>2. remaining >= Slack - MaxCalls * CallSpan
    BY <1>0, <1>s, <2>1 DEF Clock, all
  <2>3. QED
    BY <2>1, <2>2 DEF Clock
<1>13. CASE Relaying
  <2>1. /\ stage \in {"single", "turn"} /\ stage' = stage /\ remaining' = remaining
    BY <1>13 DEF Relaying
  <2>2. left' = left /\ link' # "idle"
    BY <1>13, TimeOfAnswer DEF Relaying, Resend
  <2>3. QED
    BY <2>1, <2>2 DEF Clock
<1>14. CASE Passes
  <2>1. CASE stage = "running"
    <3>1. /\ stage' = "running" /\ callTimer' = callTimer - 1
          /\ remaining' = remaining - 1 /\ served' = served
      BY <1>14, <2>1 DEF Passes
    <3>2. /\ served < MaxCalls
          /\ remaining >= Slack - Spent(served) - CallSpan + callTimer
      BY <2>1 DEF Clock
    <3>3. remaining' >= Slack - Spent(served) - CallSpan + callTimer'
      BY <1>0, <1>s, <3>1, <3>2
    <3>4. QED
      BY <3>1, <3>2, <3>3 DEF Clock
  <2>2. CASE stage \in {"single", "turn"}
    <3>1. /\ stage' = stage /\ remaining' = remaining - 1
          /\ left' = left - 1 /\ link' = link
      BY <1>14, <2>2 DEF Passes, Tick
    <3>2. link # "idle" /\ remaining - left >= 1 - Floor
      BY <2>2 DEF Clock
    <3>3. remaining' - left' >= 1 - Floor
      BY <1>0, <3>1, <3>2
    <3>4. QED
      BY <2>2, <3>1, <3>2, <3>3 DEF Clock
  <2>3. QED
    BY <1>14, <2>1, <2>2 DEF Passes
<1>15. CASE UNCHANGED vars
  BY <1>15 DEF vars, relayVars, loopVars, Clock
<1>16. QED
  BY <1>1, <1>2, <1>3, <1>4, <1>6, <1>7, <1>8, <1>9, <1>10, <1>11, <1>12,
     <1>13, <1>14, <1>15 DEF Next, Own

LEMMA ClockHolds == Spec => []Clock
<1>1. Init => Clock
  BY DEF Init, Clock
<1>2. TypeOK /\ TypeOK' /\ InTime /\ Clock /\ [Next]_vars => Clock'
  BY ClockStep
<1>3. QED
  BY <1>1, <1>2, TypeCorrect, RelayRefined, InTimeHolds, PTL DEF Spec

(* Overshoot: whatever endpoint, model and tools do, a task is over within  *)
(* one request's slack and the calls of one turn after its deadline.        *)
THEOREM OvershootHolds == Spec => []Overshoot
<1>1. TypeOK /\ Clock /\ InTime => Overshoot
  <2> SUFFICES ASSUME TypeOK, Clock, InTime PROVE Overshoot
    OBVIOUS
  <2>1. /\ Slack \in Int /\ CallSpan \in Nat /\ MaxCalls * CallSpan \in Nat
        /\ Spent(served) \in Nat /\ Spent(served) <= MaxCalls * CallSpan
        /\ served < MaxCalls =>
             Spent(served) + CallSpan <= MaxCalls * CallSpan
    <3>1. served \in Nat
      BY DEF TypeOK
    <3>2. Spent(served + 1) <= MaxCalls * CallSpan
      BY <3>1, SpentGrows
    <3>3. QED
      BY <3>1, <3>2, SpentGrows, RelayAssumption DEF Slack
  <2>2. remaining \in Int /\ callTimer \in Nat /\ Timeout \in Nat /\ LoopTypeOK /\ RelayTypeOK
    BY HarnessAssumption DEF TypeOK, LoopTypeOK
  <2> DEFINE all == MaxCalls * CallSpan
  <2>3. remaining >= Slack - all
    <3> HIDE DEF all
    <3>1. all \in Nat /\ Spent(served) \in Nat /\ Spent(served) <= all
          /\ (served < MaxCalls => Spent(served) + CallSpan <= all)
      BY <2>1 DEF all
    <3>2. CASE stage \in {"single", "turn"}
      <4>1. remaining >= Slack
        BY <2>2, <3>2, AfterRequest
      <4>2. QED
        BY <2>1, <2>2, <3>1, <4>1
    <3>3. CASE stage = "intake"
      <4>1. Slack <= 0 /\ remaining >= 0
        BY <2>2, <3>3, RelayAssumption DEF Slack, Clock
      <4>2. QED
        BY <2>1, <2>2, <3>1, <4>1
    <3>4. CASE stage \in {"head", "done"}
      BY <3>4 DEF Clock, all
    <3>5. CASE stage = "calls"
      <4>1. remaining >= Slack - Spent(served)
        BY <3>5 DEF Clock
      <4>2. QED
        BY <2>1, <2>2, <3>1, <4>1
    <3>6. CASE stage = "running"
      <4>1. /\ served < MaxCalls
            /\ remaining >= Slack - Spent(served) - CallSpan + callTimer
        BY <3>6 DEF Clock
      <4>2. QED
        BY <2>1, <2>2, <3>1, <4>1
    <3>7. QED
      BY <3>2, <3>3, <3>4, <3>5, <3>6 DEF TypeOK, Stages
  <2>4. QED
    BY <2>3 DEF Overshoot, Slack, CallSpan
<1>2. QED
  BY <1>1, TypeCorrect, ClockHolds, RelayRefined, InTimeHolds, PTL
-----------------------------------------------------------------------------
(* AnswersAreWhole: on either path, and after any number of resends, only a *)
(* whole reply completes a task.                                            *)
THEOREM AnswersAreWholeHolds == Spec => AnswersAreWhole
<1> DEFINE Whole ==
      result' = "answered" /\ result # "answered" =>
        found \cap {"frame_malformed_body", "frame_empty_message",
                    "frame_output_truncated"} = {}
<1>1. ASSUME "frame_malformed_body" \notin found,
             NEW r \in Verdicts, r = "answered"
      PROVE  Whole
  BY <1>1 DEF Verdicts
<1>2. ASSUME [Next]_vars PROVE [Whole]_vars
  <2>1. CASE EndSingle
    BY <1>1, <2>1 DEF EndSingle, Finish
  <2>2. ASSUME NEW n \in TurnTokens, TurnAnswers(n) PROVE Whole
    BY <1>1, <2>2 DEF TurnAnswers, TurnArrives, Finish
  <2>3. ASSUME NEW n \in TurnTokens, TurnOverflows(n) PROVE Whole
    BY <2>3 DEF TurnOverflows, Finish
  <2>4. ASSUME NEW n \in TurnTokens, NEW calls \in 1 .. MaxEmitted,
               NEW full \in BOOLEAN, TurnCalls(n, calls, full)
        PROVE  Whole
    BY <2>4 DEF TurnCalls, StopsWith, Finish
  <2>5. CASE Unavailable \/ TimeUp \/ IterationsUp \/ TurnFails
    BY <2>5 DEF Unavailable, TimeUp, IterationsUp, TurnFails, Finish
  <2>6. CASE \/ AskOnce \/ EnterLoop \/ NextTurn \/ RefuseCall
             \/ MalformedCall \/ StartCall \/ EndCall \/ Relaying \/ Passes
             \/ \E l \in BOOLEAN : EndTurn(l)
    BY <2>6 DEF AskOnce, EnterLoop, NextTurn, RefuseCall, MalformedCall,
       StartCall, EndCall, Relaying, Passes, EndTurn
  <2>7. QED
    BY <1>2, <2>1, <2>2, <2>3, <2>4, <2>5, <2>6 DEF Next, Own
<1>3. QED
  BY <1>2, PTL DEF Spec, AnswersAreWhole
=============================================================================
