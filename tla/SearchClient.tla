---------------------------- MODULE SearchClient ----------------------------
(***************************************************************************)
(* GitHub Search as discovery asks it (packages/github/src/search.ts):     *)
(* several calls of SearchClient.page at a time behind one RatePacer.      *)
(*                                                                         *)
(* Instants are relative to now: gate is what is left until nextAllowedAt, *)
(* alarm what is left of the sleep of the call whose turn it is, pause what *)
(* is left of a backoff.  Tick lets a unit of time pass; a timer may be    *)
(* noticed late, never early.                                              *)
(***************************************************************************)
EXTENDS Naturals, Sequences

CONSTANTS
  Callers,          \* calls of page that may be in progress
  MinInterval,      \* minIntervalMs
  MaxRetries,
  Floor, Ceiling,   \* THROTTLE_FLOOR_MS, THROTTLE_CEILING_MS
  Headers,          \* values of retry-after and of the time to x-ratelimit-reset; 0 is none
  Backoff(_)        \* backoffMs of an attempt, in units of time

ASSUME TimesAssumption ==
  /\ {MinInterval, MaxRetries, Floor, Ceiling} \subseteq Nat \ {0}
  /\ Floor =< Ceiling
  /\ Headers \subseteq Nat
  /\ \A a \in 0..MaxRetries : Backoff(a) \in Nat

VARIABLES
  gate, alarm,
  queue,            \* the calls chained on RatePacer.queue, in order
  pc, attempt, pause,
  quiet,            \* ghost: what is left of the longest penalty
  since             \* ghost: time since the last request, up to MinInterval

pacer == <<gate, alarm, queue>>
calls == <<pc, attempt, pause>>
client == <<pacer, calls, quiet, since>>

Larger(a, b) == IF a > b THEN a ELSE b
Smaller(a, b) == IF a < b THEN a ELSE b
Less(n) == IF n = 0 THEN 0 ELSE n - 1

ClientInit ==
  /\ gate = 0 /\ alarm = 0 /\ queue = <<>>
  /\ pc = [c \in Callers |-> "idle"]
  /\ attempt = [c \in Callers |-> 0]
  /\ pause = [c \in Callers |-> 0]
  /\ quiet = 0 /\ since = MinInterval

Tick ==
  /\ gate' = Less(gate) /\ alarm' = Less(alarm) /\ quiet' = Less(quiet)
  /\ pause' = [c \in Callers |-> Less(pause[c])]
  /\ since' = Smaller(since + 1, MinInterval)
  /\ UNCHANGED <<queue, pc, attempt>>

-----------------------------------------------------------------------------
(* RatePacer *)

Wait(c) == /\ queue' = Append(queue, c)
           /\ pc' = [pc EXCEPT ![c] = "queued"]

(* waitTurn, from the top of its loop: sleep what is left, or take the turn *)
(* and send the request at once.                                            *)
TakeTurn(c) ==
  IF gate > 0
  THEN /\ alarm' = gate
       /\ pc' = [pc EXCEPT ![c] = "asleep"]
       /\ UNCHANGED <<gate, queue, since>>
  ELSE /\ gate' = MinInterval
       /\ queue' = Tail(queue)
       /\ pc' = [pc EXCEPT ![c] = "inflight"]
       /\ since' = 0
       /\ UNCHANGED alarm

Turn(c) ==
  /\ queue # <<>> /\ c = Head(queue)
  /\ pc[c] = "queued"
  /\ TakeTurn(c)
  /\ UNCHANGED <<attempt, pause, quiet>>

\* Mutant of Wake: the turn is taken on waking, without another look.
WakeAndGo(c) ==
  /\ pc[c] = "asleep" /\ alarm = 0
  /\ gate' = MinInterval
  /\ queue' = Tail(queue)
  /\ pc' = [pc EXCEPT ![c] = "inflight"]
  /\ since' = 0
  /\ UNCHANGED <<alarm, attempt, pause, quiet>>

Wake(c) ==
  /\ pc[c] = "asleep" /\ alarm = 0
  /\ TakeTurn(c)
  /\ UNCHANGED <<attempt, pause, quiet>>

Penalise(ms) == gate' = Larger(gate, ms)

-----------------------------------------------------------------------------
(* SearchClient.page *)

Page(c) ==
  /\ pc[c] \in {"idle", "ended"}
  /\ attempt' = [attempt EXCEPT ![c] = 0]
  /\ Wait(c)
  /\ UNCHANGED <<gate, alarm, pause, quiet, since>>

End(c) == /\ pc' = [pc EXCEPT ![c] = "ended"]
          /\ UNCHANGED queue

(* A page arrives; parsePage returns it, or throws when every item of it is *)
(* malformed, which ends the call too.  So does a status that is neither a  *)
(* throttle nor transient.                                                  *)
Answered(c) ==
  /\ pc[c] = "inflight"
  /\ End(c)
  /\ UNCHANGED <<gate, alarm, attempt, pause, quiet, since>>

ThrottleWait(retryAfter, reset) ==
  IF retryAfter > 0 THEN Smaller(Ceiling, retryAfter)
  ELSE IF reset > 0 THEN Smaller(Ceiling, reset)
  ELSE Floor

\* Mutant of AfterThrottle: a throttled request is repeated without being counted.
AfterThrottleUncounted(c) == Wait(c) /\ UNCHANGED attempt

AfterThrottle(c) ==
  \/ /\ attempt[c] < MaxRetries
     /\ attempt' = [attempt EXCEPT ![c] = @ + 1]
     /\ Wait(c)
  \/ /\ attempt[c] >= MaxRetries
     /\ End(c) /\ UNCHANGED attempt

\* Mutant of Throttled: the penalty is set only when the request will be repeated.
ThrottledLeniently(c) ==
  /\ pc[c] = "inflight"
  /\ \E retryAfter, reset \in Headers :
       /\ IF attempt[c] < MaxRetries THEN Penalise(ThrottleWait(retryAfter, reset))
                                     ELSE UNCHANGED gate
       /\ quiet' = Larger(quiet, ThrottleWait(retryAfter, reset))
  /\ AfterThrottle(c)
  /\ UNCHANGED <<alarm, pause, since>>

Throttled(c) ==
  /\ pc[c] = "inflight"
  /\ \E retryAfter, reset \in Headers :
       /\ Penalise(ThrottleWait(retryAfter, reset))
       /\ quiet' = Larger(quiet, ThrottleWait(retryAfter, reset))
  /\ AfterThrottle(c)
  /\ UNCHANGED <<alarm, pause, since>>

(* A time-out, a 408 or a 5xx: the call sleeps by itself, outside the queue. *)
Transient(c) ==
  /\ pc[c] = "inflight"
  /\ \/ /\ attempt[c] < MaxRetries
        /\ attempt' = [attempt EXCEPT ![c] = @ + 1]
        /\ pause' = [pause EXCEPT ![c] = Backoff(attempt[c])]
        /\ pc' = [pc EXCEPT ![c] = "backoff"]
        /\ UNCHANGED queue
     \/ /\ attempt[c] >= MaxRetries
        /\ End(c) /\ UNCHANGED <<attempt, pause>>
  /\ UNCHANGED <<gate, alarm, quiet, since>>

Resume(c) ==
  /\ pc[c] = "backoff" /\ pause[c] = 0
  /\ Wait(c)
  /\ UNCHANGED <<gate, alarm, attempt, pause, quiet, since>>

-----------------------------------------------------------------------------
Answer(c) == Answered(c) \/ Throttled(c) \/ Transient(c)

ClientNext ==
  \/ Tick
  \/ \E c \in Callers : Page(c) \/ Turn(c) \/ Wake(c) \/ Answer(c) \/ Resume(c)

(* Time passes, timers fire, and every request is answered or aborted after *)
(* its time limit.  Nobody has to ask for another page.                     *)
ClientFairness ==
  /\ WF_client(Tick)
  /\ \A c \in Callers : /\ WF_client(Turn(c)) /\ WF_client(Wake(c))
                        /\ WF_client(Answer(c)) /\ WF_client(Resume(c))

-----------------------------------------------------------------------------
(* No request leaves before a penalty is over, whichever call it was       *)
(* imposed on and whether or not that call is repeated, nor sooner than    *)
(* minIntervalMs after the one before (waitTurn, penalise).                *)
NoRequestTooSoon ==
  [][\A c \in Callers : pc'[c] = "inflight" /\ pc[c] # "inflight" =>
       quiet = 0 /\ since >= MinInterval]_client

(* Every call of page ends, however long GitHub throttles it and whatever  *)
(* becomes of the calls in front of it (the attempts of page, the chain of *)
(* RatePacer.wait).                                                        *)
EveryPageEnds ==
  \A c \in Callers : pc[c] \in {"queued", "asleep", "inflight", "backoff"} ~> pc[c] = "ended"
=============================================================================
