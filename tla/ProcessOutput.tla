--------------------------- MODULE ProcessOutput ---------------------------
(***************************************************************************)
(* mwfl::Process::CollectOutput: the parent launches a child whose standard *)
(* output and error go to two pipes, and reads each on a thread of its own  *)
(* while it waits for the child to exit.  A pipe ends when its last writing *)
(* handle is closed: the child's, that of a helper the child has launched,  *)
(* and the parent's own until the launch has closed it.                     *)
(***************************************************************************)
EXTENDS Integers, Sequences

CONSTANTS
  Stream,
  PipeSize,     \* portions a pipe holds
  Maximum,      \* portions of each stream that are kept
  HelperStays,  \* may a helper of the child run forever?
  HasDeadline   \* may the deadline pass, or a stop be requested?

VARIABLES
  output,   \* what the child still writes: the stream of each portion, in order
  process,  \* "launching", "running" or "exited"
  writers,  \* who holds the writing end of each pipe
  pipes,    \* portions in each pipe
  written,  \* portions the child has written to each
  kept,     \* portions the parent has kept of each
  drains,   \* the thread of each: "none", "reading", "ended" or "interrupted"
  waiting,  \* Wait for the child: "none", "waiting", "completed" or "interrupted"
  late,     \* has the deadline passed, or the stop been requested?
  stopped,  \* drains.request_stop()
  collected \* CollectOutput's result: "none", "completed" or "interrupted"

ProcessAssumption == PipeSize \in Nat \ {0} /\ Maximum \in Nat

processVars ==
  <<output, process, writers, pipes, written, kept, drains, waiting, late, stopped, collected>>

ProcessInit ==
  /\ output \in UNION {[1..n -> Stream] : n \in 0..PipeSize + 2}
  /\ process = "launching"
  /\ writers = [s \in Stream |-> {"parent"}]
  /\ pipes = [s \in Stream |-> 0]
  /\ written = pipes /\ kept = pipes
  /\ drains = [s \in Stream |-> "none"]
  /\ waiting = "none"
  /\ late = FALSE /\ stopped = FALSE
  /\ collected = "none"

-----------------------------------------------------------------------------
(* Launch: CreateProcessW gives the child its ends, the parent closes its   *)
(* own; CollectOutput then starts its threads and waits.                    *)
Launch ==
  /\ process = "launching"
  /\ process' = "running"
  /\ \E holders \in {{"child"}, {"child", "helper"}} :
       writers' = [s \in Stream |-> holders]
  /\ drains' = [s \in Stream |-> "reading"]
  /\ waiting' = "waiting"
  /\ UNCHANGED <<output, pipes, written, kept, late, stopped, collected>>

(* The child writes, and waits while the pipe is full.                      *)
ChildWrites ==
  /\ process = "running" /\ output # <<>> /\ pipes[Head(output)] < PipeSize
  /\ pipes' = [pipes EXCEPT ![Head(output)] = @ + 1]
  /\ written' = [written EXCEPT ![Head(output)] = @ + 1]
  /\ output' = Tail(output)
  /\ UNCHANGED <<process, writers, kept, drains, waiting, late, stopped, collected>>

ChildExits ==
  /\ process = "running" /\ output = <<>>
  /\ process' = "exited"
  /\ writers' = [s \in Stream |-> writers[s] \ {"child"}]
  /\ UNCHANGED <<output, pipes, written, kept, drains, waiting, late, stopped, collected>>

HelperExits ==
  /\ \E s \in Stream : "helper" \in writers[s]
  /\ writers' = [s \in Stream |-> writers[s] \ {"helper"}]
  /\ UNCHANGED <<output, process, pipes, written, kept, drains, waiting, late, stopped, collected>>

(* The deadline passes, or the caller's stop is requested and passed on.    *)
Interrupt ==
  /\ HasDeadline /\ ~late
  /\ late' = TRUE
  /\ UNCHANGED <<output, process, writers, pipes, written, kept, drains, waiting, stopped, collected>>

-----------------------------------------------------------------------------
(* Seeded fault: the thread stops reading at the maximum.                   *)
DrainUpToMaximum(s) ==
  /\ drains[s] = "reading" /\ pipes[s] > 0 /\ kept[s] < Maximum
  /\ pipes' = [pipes EXCEPT ![s] = @ - 1]
  /\ kept' = [kept EXCEPT ![s] = @ + 1]
  /\ UNCHANGED <<output, process, writers, written, drains, waiting, late, stopped, collected>>

(* DrainPipe on its thread.  What is more than the maximum is read and      *)
(* thrown away.                                                             *)
Drain(s) ==
  /\ drains[s] = "reading" /\ pipes[s] > 0
  /\ pipes' = [pipes EXCEPT ![s] = @ - 1]
  /\ kept' = [kept EXCEPT ![s] = IF @ < Maximum THEN @ + 1 ELSE @]
  /\ UNCHANGED <<output, process, writers, written, drains, waiting, late, stopped, collected>>

DrainEnds(s) ==
  /\ drains[s] = "reading"
  /\ \/ pipes[s] = 0 /\ writers[s] = {} /\ drains' = [drains EXCEPT ![s] = "ended"]
     \/ (late \/ stopped) /\ drains' = [drains EXCEPT ![s] = "interrupted"]
  /\ UNCHANGED <<output, process, writers, pipes, written, kept, waiting, late, stopped, collected>>

(* The wait for the child ends; unless the child has exited, the threads    *)
(* are stopped.                                                             *)
WaitEnds ==
  /\ waiting = "waiting"
  /\ \/ process = "exited" /\ waiting' = "completed" /\ UNCHANGED stopped
     \/ late /\ waiting' = "interrupted" /\ stopped' = TRUE
  /\ UNCHANGED <<output, process, writers, pipes, written, kept, drains, late, collected>>

(* Seeded fault: only the wait for the child counts, not the threads'.      *)
CollectAfterExit ==
  /\ waiting \in {"completed", "interrupted"} /\ collected = "none"
  /\ \A s \in Stream : drains[s] # "reading"
  /\ collected' = waiting
  /\ UNCHANGED <<output, process, writers, pipes, written, kept, drains, waiting, late, stopped>>

(* Both threads are joined and the results put together.                    *)
Collect ==
  /\ waiting \in {"completed", "interrupted"} /\ collected = "none"
  /\ \A s \in Stream : drains[s] # "reading"
  /\ collected' = IF waiting = "completed" /\ \A s \in Stream : drains[s] = "ended"
                  THEN "completed" ELSE "interrupted"
  /\ UNCHANGED <<output, process, writers, pipes, written, kept, drains, waiting, late, stopped>>

ProcessNext ==
  \/ Launch \/ ChildWrites \/ ChildExits \/ HelperExits \/ Interrupt
  \/ \E s \in Stream : Drain(s) \/ DrainEnds(s)
  \/ WaitEnds \/ Collect

ProcessSpec == ProcessInit /\ [][ProcessNext]_processVars

(* The child and the threads run; a helper ends, or the call has a deadline *)
(* that passes.                                                             *)
ProcessFairness ==
  /\ WF_processVars(Launch) /\ WF_processVars(ChildWrites) /\ WF_processVars(ChildExits)
  /\ ~HelperStays => WF_processVars(HelperExits)
  /\ HelperStays => WF_processVars(Interrupt)
  /\ \A s \in Stream : WF_processVars(Drain(s)) /\ WF_processVars(DrainEnds(s))
  /\ WF_processVars(WaitEnds) /\ WF_processVars(Collect)

-----------------------------------------------------------------------------
(* Properties.                                                              *)

(* A completed CollectOutput has an exit code and all the child wrote, up   *)
(* to the maximum, on both streams.                                         *)
OutputIsComplete ==
  collected = "completed" =>
    /\ process = "exited"
    /\ \A s \in Stream : kept[s] = IF written[s] < Maximum THEN written[s] ELSE Maximum

(* CollectOutput ends: however much the child writes, in whatever order, it *)
(* is never left waiting for a pipe that nobody reads.                      *)
CollectEnds == process = "running" ~> collected # "none"
=============================================================================
