-------------------------- MODULE OneShotAttempts --------------------------
(***************************************************************************)
(* What mwfl::AsyncInitialization promises the owner of a restartable       *)
(* asynchronous initialization, without generations and without a shared    *)
(* state: each attempt gets at most one verdict, its completion callback    *)
(* runs only while the attempt is the live one, one callback runs at a      *)
(* time, and nothing follows Close.                                         *)
(***************************************************************************)
CONSTANTS
  Attempt,             \* the attempts Begin may start
  NoAttempt            \* no callback is running

VARIABLES
  status,    \* the status of each attempt
  callback,  \* the attempt whose callback is running
  closed

vars == <<status, callback, closed>>

Verdict == {"succeeded", "failed", "cancelled"}

TypeOK ==
  /\ status \in [Attempt -> {"unused", "pending", "void"} \cup Verdict]
  /\ callback \in Attempt \cup {NoAttempt}
  /\ closed \in BOOLEAN

Init ==
  /\ status = [a \in Attempt |-> "unused"]
  /\ callback = NoAttempt
  /\ closed = FALSE

(* Every attempt that is still live becomes s.                              *)
Retire(s) ==
  [a \in Attempt |-> IF status[a] = "pending" THEN s ELSE status[a]]

Start(a) ==
  /\ ~closed /\ callback = NoAttempt /\ status[a] = "unused"
  /\ status' = [Retire("void") EXCEPT ![a] = "pending"]
  /\ UNCHANGED <<callback, closed>>

Invoke(a) ==
  /\ callback = NoAttempt /\ status[a] = "pending"
  /\ callback' = a
  /\ UNCHANGED <<status, closed>>

(* The verdict counts only if the attempt outlived its own callback.        *)
Finish(verdict) ==
  /\ callback # NoAttempt
  /\ status' = IF status[callback] = "pending"
               THEN [status EXCEPT ![callback] = verdict] ELSE status
  /\ callback' = NoAttempt
  /\ UNCHANGED closed

Fail(a) ==
  /\ callback = NoAttempt /\ status[a] = "pending"
  /\ status' = [status EXCEPT ![a] = "failed"]
  /\ UNCHANGED <<callback, closed>>

Cancel ==
  /\ status' = Retire("cancelled")
  /\ UNCHANGED <<callback, closed>>

Close ==
  /\ status' = Retire("void")
  /\ closed' = TRUE
  /\ UNCHANGED callback

Next ==
  \/ \E a \in Attempt : Start(a) \/ Invoke(a) \/ Fail(a)
  \/ Finish("succeeded") \/ Finish("failed")
  \/ Cancel \/ Close

Spec == Init /\ [][Next]_vars
=============================================================================
