----------------------------- MODULE TunnelPool -----------------------------
(***************************************************************************)
(* TunnelPool.Pick (internal/multipath/pool.go) under dispatchWithRetry    *)
(* (stream.go): the goroutines of all streams walk one weighted ring of    *)
(* bearers through one shared counter, and retry on what Pick gives them   *)
(* next, while bearers lose and regain their connections.                  *)
(***************************************************************************)
EXTENDS Integers, Sequences

CONSTANTS Pickers,    \* the goroutines that send frames
          Weights,    \* the configured weight of each tunnel, in order
          DispatchRetries,
          MaxCalls,   \* bound: frames
          MaxFlips    \* bound: how often a bearer's health changes

ASSUME WeightsAssumption == Weights \in Seq(Int) /\ Weights # <<>>
ASSUME RetriesAssumption == DispatchRetries \in Int
ASSUME PickBounds == MaxCalls \in Nat /\ MaxFlips \in Nat

Bearers == 1..Len(Weights)

\* Fault: a weight of 0 leaves a tunnel out.
ConfiguredWeight(w) == IF w < 0 THEN 1 ELSE w

EffectiveWeight(w) == IF w < 1 THEN 1 ELSE w

\* buildRing: each tunnel in as many consecutive slots as it weighs.
Block(b) == [i \in 1..EffectiveWeight(Weights[b]) |-> b]
ringUpTo[n \in 0..Len(Weights)] ==
  IF n = 0 THEN <<>> ELSE ringUpTo[n - 1] \o Block(n)
Ring == ringUpTo[Len(Weights)]

Slots == Len(Ring)

\* Fault: no retries are configured, so there are none.
AttemptsAsGiven == IF DispatchRetries < 1 THEN 1 ELSE DispatchRetries

\* How often a frame is tried: 0 retries are as many as there are tunnels.
Attempts == IF DispatchRetries <= 0 THEN Len(Weights) ELSE DispatchRetries

VARIABLES counter,   \* rrCounter
          healthy,   \* the bearers that are connected
          pick,      \* each picker's call: [at, attempt, bearer, tries]
          result,    \* the bearer that took its last frame, 0 for an error,
                     \* -1 before a first return
          calls, flips,
          \* History:
          steady,    \* the bearers that were healthy all through the call
          calm,      \* nobody else moved the counter during the call, and no
                     \* bearer was connected again
          picked     \* how often each bearer was returned by Pick

vars == <<counter, healthy, pick, result, steady, calm, picked, calls, flips>>

Idle == [at |-> "idle", attempt |-> 0, bearer |-> 0, tries |-> 0]
Calling(p) == pick[p].at # "idle"

\* Every tunnel has connected and no stream has sent yet.
Init ==
  /\ counter = 0
  /\ healthy = Bearers
  /\ pick = [p \in Pickers |-> Idle]
  /\ result = [p \in Pickers |-> -1]
  /\ steady = [p \in Pickers |-> {}]
  /\ calm = [p \in Pickers |-> TRUE]
  /\ picked = [b \in Bearers |-> 0]
  /\ calls = 0
  /\ flips = 0

\* A stream dispatches a frame, and calls Pick.
Call(p) ==
  /\ ~Calling(p)
  /\ calls < MaxCalls
  /\ calls' = calls + 1
  /\ pick' = [pick EXCEPT ![p].at = "next"]
  /\ steady' = [steady EXCEPT ![p] = healthy]
  /\ calm' = [calm EXCEPT ![p] = TRUE]
  /\ UNCHANGED <<counter, healthy, result, picked, flips>>

\* Fault: the walk is one attempt longer than the ring.
NextSlotOnceMore(p) ==
  /\ pick[p].at = "next"
  /\ pick[p].attempt <= Slots
  /\ counter' = counter + 1
  /\ pick' = [pick EXCEPT ![p].at = "check",
                          ![p].bearer = Ring[1 + (counter % Slots)]]
  /\ calm' = [q \in Pickers |-> calm[q] /\ (q = p \/ ~Calling(q))]
  /\ UNCHANGED <<healthy, result, steady, picked, calls, flips>>

\* An attempt of Pick takes the slot the counter points at and moves the counter.
NextSlot(p) ==
  /\ pick[p].at = "next"
  /\ pick[p].attempt < Slots
  /\ counter' = counter + 1
  /\ pick' = [pick EXCEPT ![p].at = "check",
                          ![p].bearer = Ring[1 + (counter % Slots)]]
  /\ calm' = [q \in Pickers |-> calm[q] /\ (q = p \/ ~Calling(q))]
  /\ UNCHANGED <<healthy, result, steady, picked, calls, flips>>

\* The slot's bearer is healthy and returned,
Found(p) ==
  /\ pick[p].at = "check"
  /\ pick[p].bearer \in healthy
  /\ picked' = [picked EXCEPT ![pick[p].bearer] = @ + 1]
  /\ pick' = [pick EXCEPT ![p].at = "send"]
  /\ UNCHANGED <<counter, healthy, result, steady, calm, calls, flips>>

\* or it is not and the walk goes on,
Skip(p) ==
  /\ pick[p].at = "check"
  /\ pick[p].bearer \notin healthy
  /\ pick' = [pick EXCEPT ![p].at = "next", ![p].attempt = @ + 1]
  /\ UNCHANGED <<counter, healthy, result, steady, calm, picked, calls, flips>>

Return(p, value) ==
  /\ result' = [result EXCEPT ![p] = value]
  /\ pick' = [pick EXCEPT ![p] = Idle]
  /\ UNCHANGED <<counter, calm, picked, calls>>

\* and after as many attempts as the ring has slots Pick returns an error, which
\* ends the dispatch at once.
GiveUp(p) ==
  /\ pick[p].at = "next"
  /\ pick[p].attempt = Slots
  /\ Return(p, 0)
  /\ UNCHANGED <<healthy, steady, flips>>

\* SendFrame writes the frame.
Sent(p) ==
  /\ pick[p].at = "send"
  /\ pick[p].bearer \in healthy
  /\ Return(p, pick[p].bearer)
  /\ UNCHANGED <<healthy, steady, flips>>

\* After a failed send Pick is called again, unless this was the last try.
Retry(p) ==
  IF pick[p].tries + 1 = Attempts THEN Return(p, 0)
  ELSE /\ pick' = [pick EXCEPT ![p] = [Idle EXCEPT !.at = "next", !.tries = pick[p].tries + 1]]
       /\ UNCHANGED <<counter, result, calm, picked, calls>>

\* SendFrame finds the bearer not connected any more,
SendRefused(p) ==
  /\ pick[p].at = "send"
  /\ pick[p].bearer \notin healthy
  /\ Retry(p)
  /\ UNCHANGED <<healthy, steady, flips>>

\* or its write fails, and markDead.
Lose(b) ==
  /\ flips < MaxFlips
  /\ flips' = flips + 1
  /\ healthy' = healthy \ {b}
  /\ steady' = [p \in Pickers |-> steady[p] \ {b}]
SendFails(p) ==
  /\ pick[p].at = "send"
  /\ pick[p].bearer \in healthy
  /\ Lose(pick[p].bearer)
  /\ Retry(p)

\* A bearer's readLoop ends, or runLoop connects it again.
Lost(b) ==
  /\ b \in healthy
  /\ Lose(b)
  /\ UNCHANGED <<counter, pick, result, calm, picked, calls>>
Connected(b) ==
  /\ b \notin healthy
  /\ flips < MaxFlips
  /\ flips' = flips + 1
  /\ healthy' = healthy \cup {b}
  /\ calm' = [p \in Pickers |-> calm[p] /\ ~Calling(p)]
  /\ UNCHANGED <<counter, pick, result, steady, picked, calls>>

PickStep(p) ==
  \/ NextSlot(p) \/ Found(p) \/ Skip(p) \/ GiveUp(p)
  \/ Sent(p) \/ SendRefused(p) \/ SendFails(p)

Next ==
  \/ \E p \in Pickers : Call(p) \/ PickStep(p)
  \/ \E b \in Bearers : Lost(b) \/ Connected(b)

Spec == Init /\ [][Next]_vars

-----------------------------------------------------------------------------
(* Properties *)

TypeOK ==
  /\ counter \in Nat
  /\ healthy \in SUBSET Bearers
  /\ pick \in [Pickers -> [at : {"idle", "next", "check", "send"},
                           attempt : 0..Slots, bearer : 0..Len(Weights),
                           tries : 0..(Attempts - 1)]]
  /\ result \in [Pickers -> -1..Len(Weights)]
  /\ steady \in [Pickers -> SUBSET Bearers]
  /\ calm \in [Pickers -> BOOLEAN]
  /\ picked \in [Bearers -> Nat]
  /\ calls \in 0..MaxCalls
  /\ flips \in 0..MaxFlips

\* With no limit of retries, a dispatch that nobody else's overlaps reaches every
\* bearer in turn: it fails only if none stayed healthy all the while, unless
\* one was connected again meanwhile and took the turn of another
\* (dispatchWithRetry: "try every bearer at least once").
SoloSendSucceeds ==
  \A p \in Pickers :
    DispatchRetries <= 0 /\ ~Calling(p) /\ result[p] = 0 /\ calm[p] =>
      steady[p] = {}

\* Whoever picks, and however the calls overlap, as long as all bearers are
\* healthy every round of the ring gives each bearer as many frames as it
\* weighs, at least one ("Tunnel 0 receives 50 % of all dispatched frames").
Share(b) == IF Weights[b] < 1 THEN 1 ELSE Weights[b]
WeightedShare ==
  flips = 0 /\ counter % Slots = 0 /\ (\A p \in Pickers : ~Calling(p)) =>
    \A b \in Bearers : picked[b] = Share(b) * (counter \div Slots)
=============================================================================
