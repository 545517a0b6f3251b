----------------------------- MODULE DaemonLoop -----------------------------
(***************************************************************************)
(* The loop of the daemon (cmd/kliq/run.go): one goroutine that waits for  *)
(* its tickers, runs the task of one whose tick has arrived, and waits     *)
(* again.  A poll that does not fail, because it activated an assignment   *)
(* or because the cached bundle is still valid, resets every ticker to the *)
(* intervals of the active management profile.                             *)
(*                                                                         *)
(* As since Go 1.23 (go.mod asks for 1.26), a ticker keeps one tick that   *)
(* was not received, and Reset discards it.  The tasks are modelled by the *)
(* other modules; here they take some time and end.                        *)
(*                                                                         *)
(* The operators named Faulty... are not part of the model: each is the    *)
(* definition that follows it with a plausible mistake, and a property     *)
(* below is violated when it takes that definition's place.                *)
(***************************************************************************)
EXTENDS Naturals

CONSTANTS
  Tickers,      \* the tickers, one for each periodic task
  Profiles      \* the intervals a management profile, or the flags, may set

ASSUME LoopAssumption ==
  /\ "poll" \in Tickers
  /\ "none" \notin Tickers
  /\ Profiles \subseteq [Tickers -> Nat \ {0}]
  /\ Profiles # {}

VARIABLES
  opts,         \* the intervals in force
  left,         \* the time until each ticker ticks
  ready,        \* the tickers whose tick waits to be received
  serving       \* the ticker whose task runs

loopVars == <<opts, left, ready, serving>>

\* The tickers start after the first cycle, which has applied the profile.
LoopInit ==
  /\ opts \in Profiles
  /\ left = opts
  /\ ready = {}
  /\ serving = "none"

Pass ==
  /\ \A t \in Tickers : left[t] > 0
  /\ left' = [t \in Tickers |-> left[t] - 1]
  /\ UNCHANGED <<opts, ready, serving>>

\* Ticks that are due at one time arrive in any order.
Fire(t) ==
  /\ left[t] = 0
  /\ left' = [left EXCEPT ![t] = opts[t]]
  /\ ready' = ready \cup {t}
  /\ UNCHANGED <<opts, serving>>

\* select
Serve(t) ==
  /\ serving = "none"
  /\ t \in ready
  /\ ready' = ready \ {t}
  /\ serving' = t
  /\ UNCHANGED <<opts, left>>

\* resetTicker, for all tickers, after the poll has applied the profile
ResetTickers ==
  /\ opts' \in Profiles
  /\ left' = opts'
  /\ ready' = {}

FaultyReturn ==
  /\ serving \notin {"none", "poll"}
  /\ serving' = "none"
  /\ ResetTickers

\* A task other than polling ends.
Return ==
  /\ serving \notin {"none", "poll"}
  /\ serving' = "none"
  /\ UNCHANGED <<opts, left, ready>>

\* loadOrPoll returned no error,
PollReturns ==
  /\ serving = "poll"
  /\ serving' = "none"
  /\ ResetTickers

\* or one.
PollFails ==
  /\ serving = "poll"
  /\ serving' = "none"
  /\ UNCHANGED <<opts, left, ready>>

LoopNext ==
  \/ Pass
  \/ \E t \in Tickers : Fire(t) \/ Serve(t)
  \/ Return
  \/ PollReturns
  \/ PollFails

(***************************************************************************)
(* Fairness.  Time passes and due ticks arrive; a task ends; and because   *)
(* select chooses at random among the ticks that wait, one that waits      *)
(* there again and again is received some time.  Nothing is assumed of how *)
(* a poll ends.                                                            *)
(***************************************************************************)
LoopFairness ==
  /\ WF_loopVars(Pass)
  /\ WF_loopVars(Return)
  /\ WF_loopVars(PollReturns \/ PollFails)
  /\ \A t \in Tickers : WF_loopVars(Fire(t)) /\ SF_loopVars(Serve(t))

LoopSpec == LoopInit /\ [][LoopNext]_loopVars /\ LoopFairness

-----------------------------------------------------------------------------
(* Properties.                                                             *)

\* The tasks that every profile has run more often than polling.
Frequent ==
  {t \in Tickers : \A f \in Profiles : f[t] < f["poll"]} \cup {"poll"}

\* Polling, and every task with a shorter interval, runs again and again,
\* although each poll discards the ticks that wait: no task starves another by
\* being slow, and no profile of this kind stops a task.
FrequentTasksRun == \A t \in Frequent : []<>(serving = t)

\* Every task runs again and again.
EveryTaskRuns == \A t \in Tickers : []<>(serving = t)

=============================================================================
