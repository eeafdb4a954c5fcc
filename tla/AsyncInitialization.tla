------------------------ MODULE AsyncInitialization ------------------------
(***************************************************************************)
(* mwfl::AsyncInitialization: one restartable asynchronous initialization   *)
(* whose native completions hold tickets.  A ticket may be copied, so it    *)
(* can be dispatched late, twice, or from inside its own callback.          *)
(*                                                                          *)
(* Each call holds the mutex, so it is one step, except Dispatch, which     *)
(* releases it around the callback: whatever the callback calls happens     *)
(* between Dispatch and Return.  A call from another thread than the owner  *)
(* changes nothing.  Destroying the owner is Close, and its tickets expire  *)
(* when they are already stale.                                             *)
(***************************************************************************)
EXTENDS Integers

CONSTANT MaxGeneration       \* bound on the 64-bit generation counter

ASSUME GenerationAssumption == MaxGeneration \in Nat

VARIABLES
  generation,   \* generation of the shared state
  state,        \* result.state
  dispatching,  \* dispatching
  frame,        \* generation_ of the ticket whose Dispatch is on the stack
  issued,       \* generations of the tickets Begin has returned
  ran,          \* how often Dispatch has invoked each ticket's callback
  verdict       \* what Fail, Cancel and Dispatch have reported of each ticket

vars == <<generation, state, dispatching, frame, issued, ran, verdict>>

Ticket == 1..MaxGeneration
NoTicket == 0

State == {"idle", "pending", "succeeded", "failed", "cancelled", "closed"}
Verdict == {"none", "succeeded", "failed", "cancelled"}

TypeOK ==
  /\ generation \in 0..MaxGeneration
  /\ state \in State
  /\ dispatching \in BOOLEAN
  /\ frame \in Ticket \cup {NoTicket}
  /\ issued \in SUBSET Ticket
  /\ ran \in [Ticket -> Nat]
  /\ verdict \in [Ticket -> Verdict]

Init ==
  /\ generation = 0
  /\ state = "idle"
  /\ dispatching = FALSE
  /\ frame = NoTicket
  /\ issued = {}
  /\ ran = [t \in Ticket |-> 0]
  /\ verdict = [t \in Ticket |-> "none"]

(* Is t the ticket of the attempt under way?                                *)
Live(t) == t = generation /\ state = "pending"

Advance ==
  /\ generation < MaxGeneration
  /\ generation' = generation + 1

(* Seeded faults, each of the operation that follows it: the ticket gets    *)
(* the generation from before the increment; a callback may begin another   *)
(* attempt; a stale ticket fails the new attempt.                           *)
BeginWithOldGeneration ==
  /\ state # "closed" /\ ~dispatching
  /\ Advance
  /\ state' = "pending"
  /\ issued' = issued \cup {generation}
  /\ UNCHANGED <<dispatching, frame, ran, verdict>>

BeginWhileDispatching ==
  /\ state # "closed"
  /\ Advance
  /\ state' = "pending"
  /\ issued' = issued \cup {generation'}
  /\ UNCHANGED <<dispatching, frame, ran, verdict>>

Begin ==
  /\ state # "closed" /\ ~dispatching
  /\ Advance
  /\ state' = "pending"
  /\ issued' = issued \cup {generation'}
  /\ UNCHANGED <<dispatching, frame, ran, verdict>>

Cancel ==
  /\ state = "pending"
  /\ Advance
  /\ state' = "cancelled"
  /\ verdict' = [verdict EXCEPT ![generation] = "cancelled"]
  /\ UNCHANGED <<dispatching, frame, issued, ran>>

FailStale(t) ==
  /\ ~dispatching /\ state = "pending"
  /\ state' = "failed"
  /\ verdict' = [verdict EXCEPT ![t] = "failed"]
  /\ UNCHANGED <<generation, dispatching, frame, issued, ran>>

Fail(t) ==
  /\ ~dispatching /\ Live(t)
  /\ state' = "failed"
  /\ verdict' = [verdict EXCEPT ![t] = "failed"]
  /\ UNCHANGED <<generation, dispatching, frame, issued, ran>>

Dispatch(t) ==
  /\ Live(t) /\ ~dispatching
  /\ dispatching' = TRUE
  /\ frame' = t
  /\ ran' = [ran EXCEPT ![t] = @ + 1]
  /\ UNCHANGED <<generation, state, issued, verdict>>

(* The callback returns, or throws; Dispatch takes the mutex again.         *)
Return(threw) ==
  /\ frame # NoTicket
  /\ dispatching' = FALSE
  /\ frame' = NoTicket
  /\ IF Live(frame)
     THEN /\ state' = IF threw THEN "failed" ELSE "succeeded"
          /\ verdict' = [verdict EXCEPT ![frame] = state']
     ELSE UNCHANGED <<state, verdict>>
  /\ UNCHANGED <<generation, issued, ran>>

Close ==
  /\ Advance
  /\ state' = "closed"
  /\ UNCHANGED <<dispatching, frame, issued, ran, verdict>>

Next ==
  \/ Begin \/ Cancel \/ Close
  \/ \E t \in issued : Fail(t) \/ Dispatch(t)
  \/ \E threw \in BOOLEAN : Return(threw)

Spec == Init /\ [][Next]_vars

-----------------------------------------------------------------------------
(* Properties.                                                              *)

(* The shared state never shows one attempt's result as another's: a result *)
(* that stands is the one reported for the last ticket that was issued.     *)
ResultBelongsToLastAttempt ==
  state \in {"succeeded", "failed", "cancelled"} =>
    \E t \in issued : /\ verdict[t] = state
                      /\ \A u \in issued : u <= t

(* A completion callback runs at most once, however many copies of a ticket *)
(* the native side holds and whatever the callback itself dispatches.       *)
CallbackRunsOnce == \A t \in Ticket : ran[t] <= 1

(* The promise: a ticket with no verdict is pending while it is live and    *)
(* void once a later Begin or Close has made it stale.                      *)
StatusOf(t) ==
  IF t \notin issued THEN "unused"
  ELSE IF verdict[t] # "none" THEN verdict[t]
  ELSE IF Live(t) THEN "pending" ELSE "void"

Promise == INSTANCE OneShotAttempts WITH
  Attempt <- Ticket, NoAttempt <- NoTicket,
  status <- [t \in Ticket |-> StatusOf(t)],
  callback <- frame, closed <- state = "closed"

(* AsyncInitialization keeps the promise of OneShotAttempts.                *)
KeepsPromise == Promise!Spec
=============================================================================
