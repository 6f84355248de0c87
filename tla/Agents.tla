------------------------------- MODULE Agents -------------------------------
(***************************************************************************)
(* One AgentController (agents.py) with the session of its world: events   *)
(* that trigger a turn, the turn with its limits, its model request and    *)
(* its checks, pausing, and the command that goes to the queue of the      *)
(* session.  The text of events and answers is left out; a command is the  *)
(* connection generation its request was made in.                          *)
(***************************************************************************)
EXTENDS Naturals, Sequences

CONSTANTS
    PerMinute,       \* limits.maximum_messages_per_minute
    Minute,          \* ticks of a minute
    Cooldown,        \* limits.minimum_seconds_between_turns, in ticks
    MaxTime,         \* bound: ticks
    MaxGenerations,  \* bound: connections of the world
    MaxPauses,       \* bound: pauses
    MaxHeard         \* bound: events that may trigger

ASSUME AgentsAssumption ==
    /\ PerMinute \in Nat \ {0} /\ Minute \in Nat \ {0} /\ Cooldown \in Nat
    /\ MaxTime \in Nat /\ MaxGenerations \in Nat /\ MaxPauses \in Nat /\ MaxHeard \in Nat

VARIABLES
    online,       \* session.state is connected
    generation,   \* session.connection_generation
    undelivered,  \* connection events still in the queue of AgentRuntime
    commands,     \* commands accepted by the session, not yet written
    written,      \* ghost: commands with the generation they were written in
    paused,
    trigger,      \* _trigger
    worker,       \* where _run is
    model,        \* _model_task: "none", "running", "done" or "cancelled"
    asking,       \* the generation of the request of this turn
    times,        \* _request_times
    clock,        \* ticks
    asked,        \* ghost: the times of all requests
    noticed,      \* ghost: the last event that triggered, and the one the last turn has seen
    pauses        \* pauses so far

agentVars == <<online, generation, undelivered, commands, written, paused, trigger, worker, model,
               asking, times, clock, asked, noticed, pauses>>

AgentsInit ==
    /\ online = FALSE /\ generation = 0 /\ undelivered = 0 /\ commands = <<>> /\ written = {}
    /\ paused = FALSE /\ trigger = FALSE /\ worker = "waiting" /\ model = "none"
    /\ asking = 0 /\ times = <<>> /\ clock = 0 /\ asked = <<>>
    /\ noticed = [last |-> 0, seen |-> 0] /\ pauses = 0

sessionVars == <<online, generation, undelivered, commands, written>>
limitVars == <<times, clock, asked>>

-----------------------------------------------------------------------------
(* The session, as far as the agent meets it *)

GoOnline ==
    /\ ~online /\ generation < MaxGenerations
    /\ online' = TRUE /\ generation' = generation + 1
    /\ UNCHANGED <<undelivered, commands, written, paused, trigger, worker, model, asking,
                   limitVars,
                   noticed, pauses>>

\* The event of it waits in the queue of the runtime.
GoOffline ==
    /\ online /\ online' = FALSE /\ undelivered' = undelivered + 1
    /\ UNCHANGED <<generation, commands, written, paused, trigger, worker, model, asking,
                   limitVars,
                   noticed, pauses>>

WriteCommand ==
    /\ online /\ commands # <<>>
    /\ written' = written \cup {[request |-> Head(commands), generation |-> generation]}
    /\ commands' = Tail(commands)
    /\ UNCHANGED <<online, generation, undelivered, paused, trigger, worker, model, asking,
                   limitVars,
                   noticed, pauses>>

Tick ==
    /\ clock < MaxTime /\ clock' = clock + 1
    /\ UNCHANGED <<sessionVars, paused, trigger, worker, model, asking, times, asked, noticed,
                   pauses>>

-----------------------------------------------------------------------------
(* handle_event, pause and resume *)

\* Nothing happens to a task that is done already.
CancelModel == model' = IF model = "running" THEN "cancelled" ELSE model

HearDisconnect ==
    /\ undelivered > 0 /\ undelivered' = undelivered - 1
    /\ CancelModel
    /\ UNCHANGED <<online, generation, commands, written, paused, trigger, worker, asking,
                   limitVars,
                   noticed, pauses>>

\* Speech of another, or a turn that the user asks for.
Hear ==
    /\ ~paused /\ noticed.last < MaxHeard
    /\ noticed' = [noticed EXCEPT !.last = @ + 1] /\ trigger' = TRUE
    /\ UNCHANGED <<sessionVars, paused, worker, model, asking, limitVars, pauses>>

\* What had triggered is dropped.
Pause ==
    /\ ~paused /\ pauses < MaxPauses
    /\ paused' = TRUE /\ pauses' = pauses + 1 /\ trigger' = FALSE
    /\ noticed' = [noticed EXCEPT !.seen = noticed.last]
    /\ CancelModel
    /\ UNCHANGED <<sessionVars, worker, asking, limitVars>>

Resume ==
    /\ paused /\ paused' = FALSE
    /\ UNCHANGED <<sessionVars, trigger, worker, model, asking, limitVars, noticed, pauses>>

-----------------------------------------------------------------------------
(* _run and _turn *)

\* The worker settles for a tenth of a second, so that speech that follows joins the turn.
Wake ==
    /\ worker = "waiting" /\ trigger
    /\ worker' = "settling"
    /\ UNCHANGED <<sessionVars, paused, trigger, model, asking, limitVars, noticed, pauses>>

\* Requests that are a minute old leave the front of _request_times; k of them do.
Expired(k) == /\ \A i \in 1..k : times[i] + Minute <= clock
              /\ k < Len(times) => times[k + 1] + Minute > clock

Recent(k) == SubSeq(times, k + 1, Len(times))

Allowed(k) ==
    /\ ~paused /\ online /\ Len(times) - k < PerMinute
    /\ k < Len(times) => clock - times[Len(times)] >= Cooldown

\* The old times are dropped only once the state of the session has been found good.
Kept(k) == IF ~paused /\ online THEN Recent(k) ELSE times

\* The turn begins, with the context as it is now: it asks, or says why not.
BeginTurn ==
    /\ worker = "settling"
    /\ trigger' = FALSE /\ noticed' = [noticed EXCEPT !.seen = noticed.last]
    /\ \E k \in 0..Len(times) :
          /\ Expired(k)
          /\ IF Allowed(k)
             THEN /\ times' = Append(Kept(k), clock) /\ asked' = Append(asked, clock)
                  /\ asking' = generation
                  /\ worker' = "auditing request"
             ELSE times' = Kept(k) /\ worker' = "waiting" /\ UNCHANGED <<asked, asking>>
    /\ UNCHANGED <<sessionVars, paused, model, clock, pauses>>

\* The request is on record, the model is asked.
AskModel ==
    /\ worker = "auditing request"
    /\ worker' = "asking" /\ model' = "running"
    /\ UNCHANGED <<sessionVars, paused, trigger, asking, limitVars, noticed, pauses>>

ModelAnswers ==
    /\ model = "running" /\ model' = "done"
    /\ UNCHANGED <<sessionVars, paused, trigger, worker, asking, limitVars, noticed, pauses>>

\* A cancelled or failed request ends the turn; an answer is put on record first.
TakeAnswer ==
    /\ worker = "asking" /\ model \in {"done", "cancelled"}
    /\ worker' \in (IF model = "done" THEN {"auditing answer", "waiting"} ELSE {"waiting"})
    /\ model' = "none"
    /\ UNCHANGED <<sessionVars, paused, trigger, asking, limitVars, noticed, pauses>>

\* Seeded fault: the trigger is cleared when the turn is over.
JudgeClearing ==
    /\ worker = "auditing answer"
    /\ worker' = "waiting" /\ trigger' = FALSE
    /\ \/ UNCHANGED commands
       \/ ~paused /\ asking = generation /\ commands' = Append(commands, asking)
    /\ UNCHANGED <<online, generation, undelivered, written, paused, model, asking,
                   limitVars, noticed, pauses>>

\* The answer is stale, invalid, disallowed or no action; or its command is submitted.
Judge ==
    /\ worker = "auditing answer"
    /\ worker' = "waiting"
    /\ \/ UNCHANGED commands
       \/ ~paused /\ asking = generation /\ commands' = Append(commands, asking)
    /\ UNCHANGED <<online, generation, undelivered, written, paused, trigger, model, asking,
                   limitVars, noticed, pauses>>

AgentsNext ==
    \/ GoOnline \/ GoOffline \/ WriteCommand \/ Tick
    \/ HearDisconnect \/ Hear \/ Pause \/ Resume
    \/ Wake \/ BeginTurn \/ AskModel \/ ModelAnswers \/ TakeAnswer \/ Judge

AgentsSpec == AgentsInit /\ [][AgentsNext]_agentVars

-----------------------------------------------------------------------------
(* Properties *)

\* Requests of the last minute are all that the cooldown is measured against.
Spacing == IF Cooldown < Minute THEN Cooldown ELSE Minute

\* No minute holds more requests than the limit, no two are closer than the cooldown, or than
\* a minute where the cooldown is longer, whatever pauses, disconnections and failed requests
\* lie between them (agents.py _turn).
RateKept ==
    \A i, j \in DOMAIN asked :
        i < j => /\ asked[j] - asked[i] >= Spacing
                 /\ j - i >= PerMinute => asked[j] - asked[i] >= Minute

\* When the worker rests, a turn has seen the last event that triggered, or a pause dropped
\* it: speech noticed while a turn settles or runs is not lost (agents.py _run).
SpeechConsidered == worker = "waiting" /\ ~trigger => noticed.seen = noticed.last

\* A command is written only in the connection in which its request was made: "Cancel or
\* disregard stale calls after disconnect, pause, or connection generation change"
\* (PLAN.md:546).  The code does not keep this.
ActionsAreCurrent == \A w \in written : w.generation = w.request

\* An agent speaks within its rate and only after it considered what was said to it.
TurnsSound == RateKept /\ SpeechConsidered
=============================================================================
