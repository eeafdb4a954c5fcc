----------------------------- MODULE HostProofs -----------------------------
(***************************************************************************)
(* Proofs about the components that work for another: WebView2Host, for any *)
(* bound on attempts and on nested callbacks; ServiceHost, for any number   *)
(* of checkpoints; D3DHost; ProcessOutput, for any streams, size of the     *)
(* pipes and maximum; and PropertySheet, for any pages.                     *)
(***************************************************************************)
EXTENDS WebView2Host, ServiceHost, D3DHost, ProcessOutput, PropertySheet,
        SequenceTheorems, TLAPS

-----------------------------------------------------------------------------
(* WebView2Host: what the host, the loader and the coordinator remember of an *)
(* attempt agrees, nothing comes back after Close, an attempt is reported at *)
(* most once, and a rollback finds its controller unless Restart took it.   *)

(* The calls on the stack s: nothing runs above an Initialize that has not  *)
(* returned, and there is a Dispatch only while the coordinator says so.    *)
CallsNest(s, d) ==
  \A i \in 1..Len(s) : /\ s[i] = "initialize" => i = 1
                       /\ s[i] = "dispatch" => d

(* Only the call that began the attempt under way is unfinished, and the    *)
(* loader works for nobody else.                                            *)
InitializeIsInnermost ==
  Running("initialize") => hostState = "initializing"

(* A Dispatch is on the stack alone: its callback cannot begin an attempt,  *)
(* so the host that it made ready stays so only while its ticket is live.   *)
DispatchRunsAlone ==
  /\ dispatching <=> frames = <<"dispatch">>
  /\ dispatching <=> frame # NoTicket
  /\ dispatching => hostState \in {"ready", "failed", "closed"}
  /\ dispatching /\ hostState = "ready" => Live(frame)
  /\ dispatching /\ state = "pending" => frame = generation

ClosedTogether == hostState = "closed" <=> state = "closed"

(* Tickets are issued in order, the live one last.                          *)
IssuedInOrder ==
  /\ \A t \in issued : t <= generation
  /\ state = "pending" => generation \in issued

(* An attempt is reported when it ends, and only then.                      *)
ReportedAtMostOnce ==
  /\ \A t \in Ticket : reported[t] <= 1
  /\ \A t \in Ticket : reported[t] > 0 => t \in issued
  /\ state = "pending" /\ ~dispatching => reported[generation] = 0

HostAgrees == HostTypeOK /\ InitializingAwaitsItsOwnCompletion /\ ReadyIsUsable

HostInv ==
  /\ HostAgrees
  /\ CallsNest(frames, dispatching)
  /\ InitializeIsInnermost /\ DispatchRunsAlone /\ ClosedTogether
  /\ IssuedInOrder /\ ReportedAtMostOnce

LEMMA InitEstablishes == HostAssumption /\ HostInit => HostInv
<1> SUFFICES ASSUME HostAssumption, HostInit PROVE HostInv
  OBVIOUS
<1> USE GenerationAssumption DEF HostAssumption, HostInit, Init, NoTicket, Ticket,
            Running
<1>1. HostTypeOK
  <2>1. generation \in 0..MaxGeneration /\ state \in State
    BY DEF State
  <2>2. ran \in [Ticket -> Nat] /\ reported \in [Ticket -> Nat]
    OBVIOUS
  <2>3. verdict \in [Ticket -> Verdict]
    BY DEF Verdict
  <2>4. TypeOK
    BY <2>1, <2>2, <2>3 DEF TypeOK
  <2>5. frames \in Seq(Frame) /\ Len(frames) <= MaxDepth + 1
    OBVIOUS
  <2> QED
    BY <2>2, <2>4, <2>5 DEF HostTypeOK, HostState
<1>2. InitializingAwaitsItsOwnCompletion /\ ReadyIsUsable
  BY DEF InitializingAwaitsItsOwnCompletion, ReadyIsUsable
<1>3. InitializeIsInnermost /\ DispatchRunsAlone /\ ClosedTogether
  BY DEF InitializeIsInnermost, DispatchRunsAlone, ClosedTogether
<1>4. IssuedInOrder /\ ReportedAtMostOnce
  BY DEF IssuedInOrder, ReportedAtMostOnce
<1> QED
  BY <1>1, <1>2, <1>3, <1>4 DEF HostInv, HostAgrees, CallsNest

-----------------------------------------------------------------------------
(* The calls on the stack.                                                  *)

(* A call is entered: it is the innermost one now.                          *)
LEMMA EnterProperties ==
  ASSUME NEW s \in Seq(Frame), NEW f \in Frame
  PROVE  /\ <<f>> \o s \in Seq(Frame)
         /\ Len(<<f>> \o s) = Len(s) + 1
         /\ <<f>> \o s # <<>> /\ Head(<<f>> \o s) = f
         /\ s = <<>> => <<f>> \o s = <<f>>
         /\ \A g : g # f => <<f>> \o s # <<g>>
<1>1. <<f>> \in Seq(Frame) /\ Len(<<f>>) = 1 /\ <<f>>[1] = f
  OBVIOUS
<1>2. <<f>> \o s \in Seq(Frame) /\ Len(<<f>> \o s) = Len(s) + 1
  BY <1>1
<1>3. (<<f>> \o s)[1] = f
  BY <1>1
<1>4. Head(<<f>> \o s) = f /\ <<f>> \o s # <<>>
  BY <1>2, <1>3
<1>5. s = <<>> => <<f>> \o s = <<f>>
  OBVIOUS
<1>6. ASSUME NEW g, g # f PROVE <<f>> \o s # <<g>>
  <2>1. <<g>>[1] = g
    OBVIOUS
  <2> QED
    BY <2>1, <1>3, <1>6
<1> QED
  BY <1>2, <1>4, <1>5, <1>6

LEMMA EnterNests ==
  ASSUME NEW s \in Seq(Frame), NEW f \in Frame, NEW d \in BOOLEAN, CallsNest(s, d),
         s # <<>> => Head(s) # "initialize", f = "dispatch" => d
  PROVE  CallsNest(<<f>> \o s, d)
<1>1. /\ Len(<<f>> \o s) = Len(s) + 1 /\ (<<f>> \o s)[1] = f
      /\ \A i \in 1..Len(<<f>> \o s) :
           i # 1 => i - 1 \in 1..Len(s) /\ (<<f>> \o s)[i] = s[i - 1]
  OBVIOUS
<1>2. ASSUME NEW i \in 1..Len(s) PROVE s[i] # "initialize" /\ (s[i] = "dispatch" => d)
  <2>1. i = 1 => s # <<>> /\ Head(s) = s[i]
    OBVIOUS
  <2> QED
    BY <2>1 DEF CallsNest
<1> QED
  BY <1>1, <1>2 DEF CallsNest

(* The innermost call returns.                                              *)
LEMMA LeaveProperties ==
  ASSUME NEW s \in Seq(Frame), s # <<>>
  PROVE  Tail(s) \in Seq(Frame) /\ Len(Tail(s)) = Len(s) - 1
OBVIOUS

LEMMA LeaveNests ==
  ASSUME NEW s \in Seq(Frame), s # <<>>, NEW d \in BOOLEAN, CallsNest(s, d)
  PROVE  CallsNest(Tail(s), d) /\ (Tail(s) # <<>> => Head(Tail(s)) # "initialize")
<1>1. /\ Tail(s) \in Seq(Frame) /\ Len(Tail(s)) = Len(s) - 1
      /\ \A i \in 1..Len(Tail(s)) : i + 1 \in 1..Len(s) /\ Tail(s)[i] = s[i + 1]
  OBVIOUS
<1>2. ASSUME NEW i \in 1..Len(Tail(s))
      PROVE  Tail(s)[i] # "initialize" /\ (Tail(s)[i] = "dispatch" => d)
  BY <1>1, <1>2 DEF CallsNest
<1>3. Tail(s) # <<>> => 1 \in 1..Len(Tail(s)) /\ Head(Tail(s)) = Tail(s)[1]
  BY <1>1
<1> QED
  BY <1>1, <1>2, <1>3 DEF CallsNest

(* Whatever is innermost is on the stack, and there is nothing on it twice. *)
LEMMA RunningProperties ==
  ASSUME HostInv
  PROVE  /\ Running("dispatch") => dispatching /\ frames = <<"dispatch">>
         /\ ApplicationRuns /\ frames # <<>> => Head(frames) # "initialize"
<1>1. frames \in Seq(Frame) /\ CallsNest(frames, dispatching)
  BY DEF HostInv, HostAgrees, HostTypeOK
<1>2. frames # <<>> => 1 \in 1..Len(frames) /\ Head(frames) = frames[1]
  BY <1>1
<1> QED
  BY <1>1, <1>2 DEF CallsNest, Running, ApplicationRuns, HostInv, DispatchRunsAlone

-----------------------------------------------------------------------------
(* The operations.                                                          *)

LEMMA CreatePreserves == HostAssumption /\ HostInv /\ Create => HostInv'
<1> SUFFICES ASSUME HostAssumption, HostInv, Create PROVE HostInv'
  OBVIOUS
<1> USE GenerationAssumption DEF mishap, HostAssumption, HostInv, HostAgrees, Create
<1>1. HostTypeOK' /\ InitializingAwaitsItsOwnCompletion' /\ ReadyIsUsable'
  BY DEF HostTypeOK, InitializingAwaitsItsOwnCompletion, ReadyIsUsable, vars, resources,
         creation, TypeOK, HostState, Running
<1>2. InitializeIsInnermost' /\ DispatchRunsAlone' /\ ClosedTogether'
  BY DEF InitializeIsInnermost, DispatchRunsAlone, ClosedTogether, vars, Running,
         Live
<1>3. IssuedInOrder' /\ ReportedAtMostOnce' /\ CallsNest(frames', dispatching')
  BY DEF IssuedInOrder, ReportedAtMostOnce, vars
<1> QED
  BY <1>1, <1>2, <1>3

LEMMA BeginPreserves ==
  ASSUME HostAssumption, HostInv, hostState \in {"created", "ready", "failed"}, BeginInitialize,
         {controller', subscribed', restarted'} \subseteq BOOLEAN
  PROVE  HostInv'
<1> USE GenerationAssumption DEF mishap, HostAssumption, HostInv, HostAgrees, BeginInitialize, Ticket
<1>1. /\ generation' = generation + 1 /\ generation' \in Ticket
      /\ generation \in Nat /\ state' = "pending" /\ ~dispatching
      /\ issued' = issued \cup {generation'}
      /\ UNCHANGED <<dispatching, frame, ran, verdict>>
  BY DEF Begin, Advance, HostTypeOK, TypeOK
<1>2. generation' \notin issued
  BY <1>1 DEF IssuedInOrder, HostTypeOK, TypeOK
<1>3. /\ frames' \in Seq(Frame) /\ Len(frames') = Len(frames) + 1
      /\ frames' # <<>> /\ Head(frames') = "initialize" /\ frames' # <<"dispatch">>
  BY EnterProperties DEF Frame, HostTypeOK
<1>4. HostTypeOK'
  BY <1>1, <1>3 DEF HostTypeOK, TypeOK, creation, HostState, State
<1>5. InitializingAwaitsItsOwnCompletion' /\ ReadyIsUsable' /\ InitializeIsInnermost'
  BY <1>1, <1>3 DEF InitializingAwaitsItsOwnCompletion, ReadyIsUsable, InitializeIsInnermost,
                    Running, Live
<1>6. DispatchRunsAlone'
  BY <1>1, <1>3 DEF DispatchRunsAlone, Running, Live, NoTicket
<1>7. ClosedTogether'
  BY <1>1 DEF ClosedTogether
<1>8. IssuedInOrder' /\ ReportedAtMostOnce'
  BY <1>1, <1>2 DEF IssuedInOrder, ReportedAtMostOnce, HostTypeOK, TypeOK
<1>9. CallsNest(frames', dispatching')
  <2>1. "initialize" \in Frame /\ frames \in Seq(Frame) /\ dispatching \in BOOLEAN
    BY DEF Frame, HostTypeOK, TypeOK
  <2>2. frames # <<>> => Head(frames) # "initialize"
    BY RunningProperties
  <2>3. CallsNest(<<"initialize">> \o frames, dispatching)
    BY <2>1, <2>2, EnterNests
  <2> QED
    BY <2>3, <1>1
<1> QED
  BY <1>4, <1>5, <1>6, <1>9, <1>7, <1>8

LEMMA BeginRefusedPreserves ==
  ASSUME HostAssumption, HostInv, hostState \in {"created", "ready", "failed"}, BeginRefused,
         {controller', subscribed', restarted'} \subseteq BOOLEAN
  PROVE  HostInv'
<1> USE GenerationAssumption DEF mishap, HostAssumption, HostInv, HostAgrees, BeginRefused
<1>1. HostTypeOK' /\ InitializingAwaitsItsOwnCompletion' /\ ReadyIsUsable'
  BY DEF HostTypeOK, InitializingAwaitsItsOwnCompletion, ReadyIsUsable, vars,
         creation, TypeOK, HostState
<1>2. Running("initialize")' = FALSE
  BY RunningProperties DEF Running
<1>3. InitializeIsInnermost' /\ DispatchRunsAlone' /\ ClosedTogether'
  BY <1>2 DEF InitializeIsInnermost, DispatchRunsAlone, ClosedTogether, vars, Running,
         Live
<1>4. IssuedInOrder' /\ ReportedAtMostOnce' /\ CallsNest(frames', dispatching')
  BY DEF IssuedInOrder, ReportedAtMostOnce, vars
<1> QED
  BY <1>1, <1>3, <1>4

LEMMA ClosePreserves == HostAssumption /\ HostInv /\ HostClose => HostInv'
<1> SUFFICES ASSUME HostAssumption, HostInv, HostClose PROVE HostInv'
  OBVIOUS
<1> USE GenerationAssumption DEF mishap, HostAssumption, HostInv, HostAgrees, HostClose
<1>1. /\ generation' = generation + 1 /\ generation' \in 0..MaxGeneration
      /\ generation \in Nat /\ state' = "closed"
      /\ UNCHANGED <<dispatching, frame, issued, ran, verdict>>
  BY DEF Close, Advance, HostTypeOK, TypeOK
<1>2. HostTypeOK'
  BY <1>1 DEF HostTypeOK, TypeOK, creation, HostState, State
<1>3. InitializingAwaitsItsOwnCompletion' /\ ReadyIsUsable' /\ ClosedTogether'
  BY <1>1 DEF InitializingAwaitsItsOwnCompletion, ReadyIsUsable, ClosedTogether
<1>4. InitializeIsInnermost' /\ DispatchRunsAlone'
  BY <1>1 DEF InitializeIsInnermost, DispatchRunsAlone, ApplicationRuns, Running
<1>5. IssuedInOrder' /\ ReportedAtMostOnce'
  BY <1>1 DEF IssuedInOrder, ReportedAtMostOnce, HostTypeOK, TypeOK,
              Ticket
<1> QED
  BY <1>1, <1>2, <1>3, <1>4, <1>5

(* However an attempt fails, the application is told of it, in a call that  *)
(* is innermost.                                                            *)
LEMMA FailPreserves ==
  ASSUME HostAssumption, HostInv, hostState = "initializing",
         NEW t \in Ticket, NEW from \in Seq(Frame), Len(from) <= MaxDepth,
         CallsNest(from, dispatching), from # <<>> => Head(from) # "initialize",
         HostFails(t, from), controller' \in BOOLEAN, UNCHANGED <<subscribed, ticket, mishap>>,
         native' \in {native, "none"}
  PROVE  HostInv'
<1> USE GenerationAssumption DEF mishap, HostAssumption, HostInv, HostAgrees, HostFails, Ticket
<1>1. /\ ~dispatching /\ t = generation /\ state = "pending" /\ state' = "failed"
      /\ verdict' = [verdict EXCEPT ![t] = "failed"]
      /\ UNCHANGED <<generation, dispatching, frame, issued, ran>>
  BY DEF Fail, Live
<1>2. /\ frames' \in Seq(Frame) /\ Len(frames') = Len(from) + 1
      /\ frames' # <<>> /\ Head(frames') = "fail" /\ frames' # <<"dispatch">>
      /\ frames' # <<"dispatch">>
  BY EnterProperties DEF Frame
<1>3. reported[t] = 0 /\ reported' = [reported EXCEPT ![t] = 1]
  BY <1>1 DEF ReportedAtMostOnce, InvokeInitialized, HostTypeOK
<1>4. HostTypeOK'
  <2>1. verdict' \in [Ticket -> Verdict]
    BY <1>1 DEF HostTypeOK, TypeOK, Verdict
  <2>2. TypeOK'
    BY <1>1, <2>1 DEF HostTypeOK, TypeOK, State
  <2>3. reported' \in [Ticket -> Nat]
    BY <1>3 DEF HostTypeOK
  <2>4. frames' \in Seq(Frame) /\ Len(frames') <= MaxDepth + 1
    BY <1>2
  <2>5. native' \in {"none", "environment", "controller"}
    BY DEF HostTypeOK
  <2> QED
    BY <2>2, <2>3, <2>4, <2>5 DEF HostTypeOK, HostState
<1>5. InitializingAwaitsItsOwnCompletion' /\ ReadyIsUsable' /\ ClosedTogether'
  BY <1>1 DEF InitializingAwaitsItsOwnCompletion, ReadyIsUsable, ClosedTogether
<1>6. InitializeIsInnermost' /\ DispatchRunsAlone'
  BY <1>1, <1>2 DEF InitializeIsInnermost, DispatchRunsAlone, Running, Live
<1>7. IssuedInOrder' /\ ReportedAtMostOnce'
  <2>1. IssuedInOrder' /\ t \in issued
    BY <1>1 DEF IssuedInOrder
  <2>2. \A u \in Ticket : reported'[u] = IF u = t THEN 1 ELSE reported[u]
    BY <1>3 DEF HostTypeOK
  <2> QED
    BY <1>1, <2>1, <2>2 DEF ReportedAtMostOnce
<1>9. CallsNest(frames', dispatching')
  <2>1. "fail" \in Frame /\ dispatching \in BOOLEAN
    BY DEF Frame, HostTypeOK, TypeOK
  <2>2. CallsNest(<<"fail">> \o from, dispatching)
    BY <2>1, EnterNests
  <2> QED
    BY <2>2, <1>1
<1> QED
  BY <1>4, <1>5, <1>9, <1>6, <1>7
LEMMA CreationFailsPreserves == HostAssumption /\ HostInv /\ CreationFails => HostInv'
<1> SUFFICES ASSUME HostAssumption, HostInv, CreationFails PROVE HostInv'
  OBVIOUS
<1>1. hostState = "initializing" /\ frames \in Seq(Frame) /\ frames # <<>>
  BY DEF HostInv, HostAgrees, HostTypeOK, CreationFails, InitializeIsInnermost, Running
<1>2. Tail(frames) \in Seq(Frame) /\ Len(Tail(frames)) <= MaxDepth
      /\ CallsNest(Tail(frames), dispatching)
      /\ (Tail(frames) # <<>> => Head(Tail(frames)) # "initialize")
  BY <1>1, LeaveProperties, LeaveNests
     DEF HostInv, HostAgrees, HostTypeOK, TypeOK, HostAssumption
<1>3. generation \in Ticket
  BY <1>1 DEF HostInv, HostAgrees, HostTypeOK, TypeOK, IssuedInOrder,
              InitializingAwaitsItsOwnCompletion, Live
<1>4. HostFails(generation, Tail(frames)) /\ controller' \in BOOLEAN
      /\ UNCHANGED <<subscribed, ticket, mishap, native>>
  BY DEF CreationFails, HostInv, HostAgrees, HostTypeOK, resources, creation
<1> QED
  BY <1>1, <1>2, <1>3, <1>4, FailPreserves

(* An initializing host and its loader work for the live ticket.            *)
LEMMA CompletionIsLive ==
  ASSUME HostInv, frames = <<>>, hostState = "initializing"
  PROVE  /\ ticket = generation /\ state = "pending" /\ ~dispatching
         /\ ticket \in issued /\ ticket \in Ticket
<1>1. ticket = generation /\ state = "pending"
  BY DEF HostInv, HostAgrees, InitializingAwaitsItsOwnCompletion, Running,
         Live
<1>2. ~dispatching
  BY DEF HostInv, DispatchRunsAlone
<1> QED
  BY <1>1, <1>2 DEF HostInv, HostAgrees, IssuedInOrder, HostTypeOK, TypeOK

LEMMA CompletionFailsPreserves ==
  HostAssumption /\ HostInv /\ (EnvironmentFails \/ ControllerFails) => HostInv'
<1> SUFFICES ASSUME HostAssumption, HostInv, EnvironmentFails \/ ControllerFails PROVE HostInv'
  OBVIOUS
<1>1. /\ hostState = "initializing" /\ frames = <<>> /\ HostFails(ticket, frames)
      /\ native' = "none" /\ UNCHANGED <<subscribed, ticket, mishap>>
      /\ controller' \in BOOLEAN
  BY DEF EnvironmentFails, ControllerFails, Completes, HostInv, HostAgrees, HostTypeOK,
         resources
<1>2. ticket \in Ticket
  BY <1>1, CompletionIsLive
<1>3. frames \in Seq(Frame) /\ Len(frames) <= MaxDepth /\ CallsNest(frames, dispatching)
  BY <1>1 DEF HostAssumption, HostInv
<1> QED
  BY <1>1, <1>2, <1>3, FailPreserves

LEMMA ControllerCompletedPreserves == HostAssumption /\ HostInv /\ ControllerCompleted => HostInv'
<1> SUFFICES ASSUME HostAssumption, HostInv, ControllerCompleted PROVE HostInv'
  OBVIOUS
<1>0. frames = <<>> /\ hostState = "initializing"
  BY DEF ControllerCompleted, Completes
<1> USE GenerationAssumption DEF mishap, HostAssumption, HostInv, HostAgrees, ControllerCompleted, Ticket
<1>1. /\ ticket = generation /\ state = "pending" /\ ~dispatching
      /\ ticket \in issued /\ ticket \in Ticket
  BY <1>0, CompletionIsLive
<1>2. /\ dispatching' = TRUE /\ frame' = ticket
      /\ ran' = [ran EXCEPT ![ticket] = @ + 1]
      /\ UNCHANGED <<generation, state, issued, verdict>>
  BY DEF Dispatch
<1>3. /\ frames' = <<"dispatch">> /\ frames' \in Seq(Frame) /\ Len(frames') = 1
      /\ Head(frames') = "dispatch"
  BY <1>0 DEF Frame
<1>4. reported[ticket] = 0 /\ reported' = [reported EXCEPT ![ticket] = 1]
  BY <1>1 DEF ReportedAtMostOnce, InvokeInitialized, HostTypeOK
<1>5. HostTypeOK'
  <2>1. ran' \in [Ticket -> Nat]
    BY <1>1, <1>2 DEF HostTypeOK, TypeOK
  <2>2. TypeOK'
    BY <1>1, <1>2, <2>1 DEF HostTypeOK, TypeOK
  <2>3. reported' \in [Ticket -> Nat]
    BY <1>4 DEF HostTypeOK
  <2>4. frames' \in Seq(Frame) /\ Len(frames') <= MaxDepth + 1
    BY <1>3
  <2> QED
    BY <2>2, <2>3, <2>4 DEF HostTypeOK, HostState
<1>6. InitializingAwaitsItsOwnCompletion' /\ ReadyIsUsable' /\ ClosedTogether'
  BY <1>1, <1>2, <1>3
     DEF InitializingAwaitsItsOwnCompletion, ReadyIsUsable, ClosedTogether, Running
<1>7. InitializeIsInnermost' /\ DispatchRunsAlone'
  <2>1. frame' # NoTicket
    BY <1>1, <1>2 DEF NoTicket
  <2>2. DispatchRunsAlone'
    BY <1>1, <1>2, <1>3, <2>1 DEF DispatchRunsAlone, Live
  <2>3. InitializeIsInnermost'
    BY <1>3 DEF InitializeIsInnermost, Running
  <2> QED
    BY <2>2, <2>3
<1>8. IssuedInOrder' /\ ReportedAtMostOnce'
  BY <1>1, <1>2, <1>4 DEF IssuedInOrder, ReportedAtMostOnce, HostTypeOK, TypeOK
<1>9. CallsNest(frames', dispatching')
  BY <1>2, <1>3 DEF CallsNest
<1> QED
  BY <1>5, <1>6, <1>9, <1>7, <1>8

(* Steps of the loader and of Initialize that no application code hears of. *)
LEMMA QuietStepPreserves ==
  HostAssumption /\ HostInv /\ (CompletedLate \/ EnvironmentCompleted) => HostInv'
<1> SUFFICES ASSUME HostAssumption, HostInv, CompletedLate \/ EnvironmentCompleted
    PROVE  HostInv'
  OBVIOUS
<1> USE GenerationAssumption DEF mishap, HostAssumption, HostInv, HostAgrees, CompletedLate, EnvironmentCompleted,
            Completes, vars, resources
<1>1. HostTypeOK' /\ InitializingAwaitsItsOwnCompletion' /\ ReadyIsUsable'
  BY DEF HostTypeOK, InitializingAwaitsItsOwnCompletion, ReadyIsUsable, Running,
         TypeOK, Live
<1>2. InitializeIsInnermost' /\ DispatchRunsAlone' /\ ClosedTogether'
  BY DEF InitializeIsInnermost, DispatchRunsAlone, ClosedTogether, Running, Live
<1>3. IssuedInOrder' /\ ReportedAtMostOnce' /\ CallsNest(frames', dispatching')
  BY DEF IssuedInOrder, ReportedAtMostOnce
<1> QED
  BY <1>1, <1>2, <1>3

LEMMA CreateEnvironmentPreserves == HostAssumption /\ HostInv /\ CreateEnvironment => HostInv'
<1> SUFFICES ASSUME HostAssumption, HostInv, CreateEnvironment PROVE HostInv'
  OBVIOUS
<1> USE GenerationAssumption DEF mishap, HostAssumption, HostInv, HostAgrees, CreateEnvironment, vars, resources
<1>1. hostState = "initializing" /\ state = "pending" /\ ~dispatching
  BY DEF InitializeIsInnermost, InitializingAwaitsItsOwnCompletion, Live,
         DispatchRunsAlone
<1>2. frames' \in Seq(Frame) /\ Len(frames') = Len(frames) - 1
  BY LeaveProperties DEF HostTypeOK, Running
<1>9. CallsNest(frames', dispatching')
  BY LeaveNests DEF HostTypeOK, TypeOK, Running
<1>3. generation \in Ticket
  BY <1>1 DEF HostTypeOK, TypeOK, IssuedInOrder
<1>4. HostTypeOK'
  BY <1>2, <1>3 DEF HostTypeOK, TypeOK
<1>5. InitializingAwaitsItsOwnCompletion' /\ ReadyIsUsable' /\ ClosedTogether'
  BY <1>1 DEF InitializingAwaitsItsOwnCompletion, ReadyIsUsable, ClosedTogether,
              Live
<1>6. InitializeIsInnermost'
  BY <1>1 DEF InitializeIsInnermost
<1>7. DispatchRunsAlone'
  <2>1. frames' # <<"dispatch">>
    <3>1. 1 \in 1..Len(<<"dispatch">>) /\ <<"dispatch">>[1] = "dispatch"
      OBVIOUS
    <3> QED
      BY <3>1, <1>1, <1>9 DEF CallsNest
  <2> QED
    BY <2>1, <1>1 DEF DispatchRunsAlone
<1>8. IssuedInOrder' /\ ReportedAtMostOnce'
  BY DEF IssuedInOrder, ReportedAtMostOnce
<1> QED
  BY <1>9, <1>4, <1>5, <1>6, <1>7, <1>8
LEMMA ReturnFromFailPreserves == HostAssumption /\ HostInv /\ ReturnFromFail => HostInv'
<1> SUFFICES ASSUME HostAssumption, HostInv, ReturnFromFail PROVE HostInv'
  OBVIOUS
<1> USE GenerationAssumption DEF mishap, HostAssumption, HostInv, HostAgrees, ReturnFromFail, vars, resources,
            creation
<1>1. /\ frames' \in Seq(Frame) /\ Len(frames') = Len(frames) - 1
  BY LeaveProperties DEF HostTypeOK, Running
<1>9. /\ CallsNest(frames', dispatching')
      /\ frames' # <<>> => Head(frames') # "initialize"
  BY LeaveNests DEF HostTypeOK, TypeOK, Running
<1>2. ~dispatching
  BY Head(<<"dispatch">>) = "dispatch" DEF DispatchRunsAlone, Running
<1>3. frames' # <<"dispatch">>
  <2>1. 1 \in 1..Len(<<"dispatch">>) /\ <<"dispatch">>[1] = "dispatch"
    OBVIOUS
  <2> QED
    BY <2>1, <1>2, <1>9 DEF CallsNest
<1>4. HostTypeOK'
  BY <1>1 DEF HostTypeOK, TypeOK
<1>5. InitializingAwaitsItsOwnCompletion' /\ ReadyIsUsable' /\ ClosedTogether'
  BY DEF InitializingAwaitsItsOwnCompletion, ReadyIsUsable, ClosedTogether,
         Live, Running
<1>6. InitializeIsInnermost' /\ DispatchRunsAlone'
  BY <1>2, <1>3, <1>9 DEF InitializeIsInnermost, DispatchRunsAlone, Running
<1>7. IssuedInOrder' /\ ReportedAtMostOnce'
  BY DEF IssuedInOrder, ReportedAtMostOnce
<1> QED
  BY <1>9, <1>4, <1>5, <1>6, <1>7

(* The coordinator's part of the return: a live attempt is decided by it.   *)
LEMMA ReturnFromDispatchPreserves ==
  ASSUME HostAssumption, HostInv, NEW threw \in BOOLEAN, ReturnFromDispatch(threw)
  PROVE  HostInv'
<1> USE GenerationAssumption DEF mishap, HostAssumption, HostInv, HostAgrees, ReturnFromDispatch, resources, creation
<1>1. /\ dispatching /\ frames = <<"dispatch">>
      /\ hostState \in {"ready", "failed", "closed"}
      /\ (hostState = "ready" => Live(frame))
      /\ frames' = <<>>
  BY RunningProperties, Tail(<<"dispatch">>) = <<>> DEF DispatchRunsAlone
<1>2. /\ dispatching' = FALSE /\ frame' = NoTicket
      /\ UNCHANGED <<generation, issued, ran>>
      /\ Live(frame) => state' = IF threw THEN "failed" ELSE "succeeded"
      /\ ~Live(frame) => state' = state /\ verdict' = verdict
  BY DEF Return, NoTicket
<1>3. state' # "pending"
  BY <1>1, <1>2 DEF Live, DispatchRunsAlone
<1>4. HostTypeOK'
  <2>1. TypeOK'
    <3>1. verdict' \in [Ticket -> Verdict]
      BY DEF HostTypeOK, TypeOK, Return, Verdict
    <3>2. state' \in State
      BY <1>2 DEF HostTypeOK, TypeOK, State
    <3> QED
      BY <1>2, <3>1, <3>2 DEF HostTypeOK, TypeOK, NoTicket
  <2>2. {controller', subscribed', crashed', restarted'} \subseteq BOOLEAN
        /\ hostState' \in HostState
    BY DEF HostTypeOK, HostState
  <2>3. frames' \in Seq(Frame) /\ Len(frames') <= MaxDepth + 1
    BY <1>1
  <2> QED
    BY <2>1, <2>2, <2>3 DEF HostTypeOK
<1>5. hostState' \in {"ready", "failed", "closed"} /\ (hostState' = "closed" <=> hostState = "closed")
  BY <1>1, <1>2 DEF ClosedTogether, Live
<1>6. InitializingAwaitsItsOwnCompletion' /\ ReadyIsUsable' /\ ClosedTogether'
  BY <1>1, <1>2, <1>5
     DEF InitializingAwaitsItsOwnCompletion, ReadyIsUsable, ClosedTogether, Live
<1>7. InitializeIsInnermost' /\ DispatchRunsAlone' /\ CallsNest(frames', dispatching')
  BY <1>1, <1>2 DEF InitializeIsInnermost, DispatchRunsAlone, Running, CallsNest
<1>8. IssuedInOrder' /\ ReportedAtMostOnce'
  BY <1>2, <1>3 DEF IssuedInOrder, ReportedAtMostOnce
<1> QED
  BY <1>4, <1>6, <1>7, <1>8

LEMMA StepPreserves == HostAssumption /\ HostInv /\ [HostNext]_hostVars => HostInv'
<1> SUFFICES ASSUME HostAssumption, HostInv, [HostNext]_hostVars PROVE HostInv'
  OBVIOUS
<1>1. CASE Create
  BY <1>1, CreatePreserves
<1>2. CASE Initialize \/ HostRestart
  <2>1. hostState \in {"created", "ready", "failed"}
        /\ {controller', subscribed', restarted'} \subseteq BOOLEAN
        /\ (BeginInitialize \/ BeginRefused)
    BY <1>2 DEF Initialize, HostRestart, HostInv, HostAgrees, HostTypeOK, resources
  <2> QED
    BY <2>1, BeginPreserves, BeginRefusedPreserves
<1>3. CASE HostClose
  BY <1>3, ClosePreserves
<1>4. CASE Complete
  BY <1>4, QuietStepPreserves, CompletionFailsPreserves, ControllerCompletedPreserves
     DEF Complete
<1>5. CASE Continue
  BY <1>5, CreationFailsPreserves, CreateEnvironmentPreserves, ReturnFromFailPreserves,
     ReturnFromDispatchPreserves DEF Continue
<1>6. CASE UNCHANGED hostVars
  BY <1>6 DEF hostVars, vars, resources, creation, mishap, HostInv, HostAgrees, HostTypeOK,
     TypeOK, InitializingAwaitsItsOwnCompletion, ReadyIsUsable, Running,
     Live, CallsNest, InitializeIsInnermost, DispatchRunsAlone, ClosedTogether,
     IssuedInOrder, ReportedAtMostOnce
<1> QED
  BY <1>1, <1>2, <1>3, <1>4, <1>5, <1>6 DEF HostNext

-----------------------------------------------------------------------------
(* HostInv holds: host, loader and coordinator agree on the attempt under   *)
(* way whatever callbacks call (WebView2Host, AsyncInitialization).         *)
THEOREM HostInvariance ==
  ASSUME HostAssumption
  PROVE  HostSpec => []HostInv
<1>1. HostInit => HostInv
  BY InitEstablishes
<1>2. HostInv /\ [HostNext]_hostVars => HostInv'
  BY StepPreserves
<1> QED
  BY <1>1, <1>2, PTL DEF HostSpec

(* Only Restart, and Close, which cancels the attempt, take the controller  *)
(* from a callback that runs.                                               *)
CallbackHasController ==
  dispatching => controller \/ restarted \/ hostState = "closed"

LEMMA RollbackStaysSafe ==
  ASSUME HostInv, RollbackFindsController, CallbackHasController, [HostNext]_hostVars
  PROVE  RollbackFindsController' /\ CallbackHasController'
<1> USE DEF RollbackFindsController, CallbackHasController, mishap
<1>1. CASE Create \/ HostClose \/ CompletedLate \/ EnvironmentFails \/ EnvironmentCompleted
  BY <1>1 DEF Create, HostClose, Close, CompletedLate, EnvironmentFails, EnvironmentCompleted,
              HostFails, Fail, vars, resources
<1>2. CASE Initialize \/ HostRestart
  <2>1. dispatching' = dispatching /\ hostState # "closed" /\ UNCHANGED crashed
    BY <1>2 DEF Initialize, HostRestart, BeginInitialize, BeginRefused, Begin, vars
  <2> QED
    BY <1>2, <2>1 DEF Initialize, HostRestart, resources
<1>3. CASE ControllerFails \/ CreationFails
  <2>1. ~dispatching /\ UNCHANGED <<dispatching, crashed, restarted>>
    BY <1>3 DEF ControllerFails, CreationFails, HostFails, Fail
  <2> QED
    BY <2>1
<1>4. CASE ControllerCompleted
  <2>1. controller' /\ dispatching' /\ ~dispatching /\ UNCHANGED crashed
    BY <1>4 DEF ControllerCompleted, Dispatch
  <2>2. ~crashed
    BY <2>1 DEF HostNext, hostVars, vars
  <2> QED
    BY <2>1, <2>2
<1>5. CASE CreateEnvironment \/ ReturnFromFail
  BY <1>5 DEF CreateEnvironment, ReturnFromFail, vars, resources
<1>6. ASSUME NEW threw \in BOOLEAN, ReturnFromDispatch(threw)
      PROVE  RollbackFindsController' /\ CallbackHasController'
  <2>1. dispatching /\ ~dispatching'
    BY <1>6, RunningProperties DEF ReturnFromDispatch, Return
  <2>2. Live(frame) => hostState # "closed"
    BY DEF HostInv, ClosedTogether, Live
  <2> QED
    BY <1>6, <2>1, <2>2 DEF ReturnFromDispatch
<1>7. CASE UNCHANGED hostVars
  BY <1>7 DEF hostVars, vars, resources
<1> QED
  BY <1>1, <1>2, <1>3, <1>4, <1>5, <1>6, <1>7 DEF HostNext, Complete, Continue

(* What the host, the loader and the coordinator remember of an attempt     *)
(* agrees: a host that is initializing waits for the completion of the      *)
(* attempt Initialize began last, a ready one has its controller, and a     *)
(* rollback finds it unless the callback called Restart.                    *)
THEOREM HostConsistent ==
  ASSUME HostAssumption
  PROVE  HostSpec => []HostIsConsistent
<1>1. HostInit => RollbackFindsController /\ CallbackHasController
  BY DEF HostInit, Init, RollbackFindsController, CallbackHasController
<1>2. HostInv /\ RollbackFindsController /\ CallbackHasController /\ [HostNext]_hostVars =>
        RollbackFindsController' /\ CallbackHasController'
  BY RollbackStaysSafe
<1>3. HostInv /\ RollbackFindsController => HostIsConsistent
  BY DEF HostInv, HostAgrees, HostIsConsistent
<1> QED
  BY <1>1, <1>2, <1>3, HostInvariance, PTL DEF HostSpec

(* However completions and callbacks interleave, no attempt is reported to  *)
(* the initialized callback twice.                                          *)
THEOREM ReportedOnce ==
  ASSUME HostAssumption
  PROVE  HostSpec => [](\A t \in Ticket : reported[t] <= 1)
<1>1. HostInv => \A t \in Ticket : reported[t] <= 1
  BY DEF HostInv, ReportedAtMostOnce
<1> QED
  BY <1>1, HostInvariance, PTL

(* After Close no completion brings back a controller or calls back.        *)
THEOREM StaysClosed ==
  ASSUME HostAssumption
  PROVE  HostSpec => ClosedForGood
<1>1. HostInv /\ [HostNext]_hostVars =>
        [hostState = "closed" => UNCHANGED <<hostState, resources, reported>>]_hostVars
  <2> SUFFICES ASSUME HostInv, HostNext, hostState = "closed"
      PROVE  UNCHANGED <<hostState, resources, reported>>
    OBVIOUS
  <2>1. ~Running("initialize")
    BY DEF HostInv, InitializeIsInnermost
  <2>2. \A t : ~Live(t)
    BY DEF HostInv, ClosedTogether, Live
  <2> QED
    BY <2>1, <2>2
       DEF HostNext, Create, Initialize, HostRestart, HostClose, Complete, CompletedLate, EnvironmentFails,
           EnvironmentCompleted, ControllerFails, ControllerCompleted, Continue, CreationFails,
           CreateEnvironment, ReturnFromFail, ReturnFromDispatch, resources
<1> QED
  BY <1>1, HostInvariance, PTL DEF HostSpec, ClosedForGood

-----------------------------------------------------------------------------
(* ServiceHost: the reports of its two threads are those of one state machine, *)
(* and the field by field writing of one is never seen by the other.        *)

(* ServiceEntry has not yet reported Running: the SCM sends no control.     *)
Early ==
  \/ entry \in {"start", "starting"}
  \/ entry = "running" /\ ~Returned("main")

ServiceTypes ==
  /\ handle \in BOOLEAN /\ timedOut \in BOOLEAN /\ paused \in BOOLEAN /\ stop \in BOOLEAN
  /\ entry \in {"start", "starting", "running", "waiting", "stopped", "gone"}
  /\ checkpoint \in 1..MaxCheckpoint
  /\ control \in Control \cup {"Interrogate", "none"}
  /\ phase \in {"callback", "effect", "return"}
  /\ runOutcome \in Exit \cup {"none"}

ReportTypes ==
  /\ wire \in Status /\ status \in Status
  /\ report \in [Thread -> Status \cup {NoReport}]
  /\ unwritten \in [Thread -> SUBSET Field]

(* What NotifyState has written is of the report it is making.              *)
WrittenIsReported ==
  \A t \in Thread : IF Returned(t) THEN unwritten[t] = {}
                    ELSE \A f \in Field \ unwritten[t] : status[f] = report[t][f]

(* What is reported accepts the controls its state accepts.                 *)
ReportsAccept ==
  /\ wire.accepted = Accepted(wire.state)
  /\ \A t \in Thread : ~Returned(t) => report[t].accepted = Accepted(report[t].state)

(* Between two reports the SCM has the status.                              *)
WireIsStatus == (\A t \in Thread : Returned(t)) => wire = status

Reporting == ReportTypes /\ WrittenIsReported /\ ReportsAccept /\ WireIsStatus

(* The handle is set from Register to Unregister.                           *)
HandleIsSet == handle = (entry \notin {"start", "gone"})

(* ServiceEntry reports once at each of its places, StopPending only after  *)
(* the stop.                                                                *)
EntryReports ==
  ~Returned("main") =>
    \/ entry = "starting" /\ report["main"].state = "StartPending"
    \/ entry = "running" /\ report["main"].state = "Running"
    \/ entry = "waiting" /\ stop /\ report["main"].state = "StopPending"
    \/ /\ entry = "stopped" /\ report["main"].state = "Stopped"
       /\ report["main"].exit = ExitCode

(* ServiceControl reports within a control: the state it passes through,    *)
(* and then where it ends.                                                  *)
ControlReports ==
  ~Returned("dispatcher") =>
    /\ control \in Control
    /\ \/ phase = "effect" /\ report["dispatcher"].state = PendingState[control]
       \/ phase = "return" /\ control = "Pause" /\ report["dispatcher"].state = "Paused"
       \/ phase = "return" /\ control = "Continue" /\ report["dispatcher"].state = "Running"

(* The service ends after Run.                                              *)
RunEnds ==
  /\ entry \in {"start", "starting", "running"} => runOutcome = "none"
  /\ entry \in {"stopped", "gone"} => runOutcome # "none"

(* Before the first Running no control is handled...                        *)
QuietBefore ==
  Early =>
    /\ control = "none" /\ ~stop
    /\ entry = "start" => wire.state = "Stopped"
    /\ entry = "starting" =>
         wire.state = IF Returned("main") THEN "StartPending" ELSE "Stopped"
    /\ entry = "running" => wire.state = "StartPending"

(* ServiceEntry has taken up the end of Run.                                *)
Ended == entry \in {"stopped", "gone"}

(* ... nor after the stop, nor after the end.                               *)
QuietAfter ==
  /\ stop \/ Ended => control = "none"
  /\ stop /\ ~Ended => wire.state = "StopPending"
  /\ Ended /\ ~Returned("main") =>
       wire.state \in IF stop THEN {"StopPending"} ELSE {"Running", "Paused"}
  /\ Ended /\ Returned("main") => wire.state = "Stopped" /\ wire.exit = ExitCode
  /\ entry = "gone" => Returned("main")

(* In between the SCM knows where the handling of its control is.           *)
BusyBetween ==
  ~Early /\ ~stop /\ ~Ended =>
    /\ control \in {"none", "Interrogate"} => wire.state \in {"Running", "Paused"}
    /\ control \in Control =>
         /\ phase = "callback" => wire.state = "Running"
         /\ phase = "effect" =>
              wire.state = IF Returned("dispatcher") THEN PendingState[control] ELSE "Running"
         /\ phase = "return" /\ ~Returned("dispatcher") => wire.state = PendingState[control]
         /\ phase = "return" /\ Returned("dispatcher") => wire.state \in {"Running", "Paused"}
         /\ phase = "return" => control # "Stop"

ServiceInv ==
  /\ ServiceTypes /\ Reporting /\ HandleIsSet
  /\ EntryReports /\ ControlReports /\ RunEnds
  /\ QuietBefore /\ QuietAfter /\ BusyBetween

-----------------------------------------------------------------------------
LEMMA FieldsAreStatus ==
  ASSUME NEW s \in Status, NEW r \in Status, \A f \in Field : s[f] = r[f]
  PROVE  s = r
<1>1. s.state = r.state /\ s.accepted = r.accepted /\ s.exit = r.exit
      /\ s.checkpoint = r.checkpoint
  BY DEF Field
<1> QED BY <1>1 DEF Status

LEMMA FieldWritten ==
  ASSUME NEW s \in Status, NEW r \in Status, NEW f \in Field
  PROVE  /\ [s EXCEPT ![f] = r[f]] \in Status
         /\ \A g \in Field : [s EXCEPT ![f] = r[f]][g] = IF g = f THEN r[f] ELSE s[g]
<1>1. CASE f = "state"
  BY <1>1 DEF Status, Field
<1>2. CASE f = "accepted"
  BY <1>2 DEF Status, Field
<1>3. CASE f = "exit"
  BY <1>3 DEF Status, Field
<1>4. CASE f = "checkpoint"
  BY <1>4 DEF Status, Field
<1> QED BY <1>1, <1>2, <1>3, <1>4 DEF Field

LEMMA StatusForIsStatus ==
  ASSUME ServiceAssumption, NEW value \in ServiceState, NEW exit \in Exit,
         NEW c \in 0..MaxCheckpoint
  PROVE  /\ StatusFor(value, exit, c) \in Status
         /\ StatusFor(value, exit, c) # NoReport
         /\ StatusFor(value, exit, c).state = value
         /\ StatusFor(value, exit, c).exit = exit
         /\ StatusFor(value, exit, c).accepted = Accepted(value)
<1>1. Accepted(value) \subseteq Control
  BY DEF Accepted, Control
<1>2. PICK s : s = StatusFor(value, exit, c)
  OBVIOUS
<1>3. s = [state |-> value, accepted |-> Accepted(value), exit |-> exit, checkpoint |-> c]
  BY <1>2 DEF StatusFor
<1>4. s \in Status /\ s.state = value /\ s.exit = exit /\ s.accepted = Accepted(value)
  BY <1>1, <1>3, Zenon DEF Status
<1> QED BY <1>2, <1>4 DEF ServiceAssumption

LEMMA NoRace ==
  ASSUME ServiceInv
  PROVE  /\ Returned("main") \/ Returned("dispatcher")
         /\ ~Early /\ ~stop /\ ~Ended => Returned("main")
         /\ control # "none" => ~Early /\ ~stop /\ ~Ended
         /\ control \notin Control => Returned("dispatcher")
  BY DEF ServiceInv, ServiceTypes, EntryReports, ControlReports, RunEnds, QuietBefore,
         QuietAfter, Early, Ended, Control

LEMMA WholeReport ==
  ASSUME ServiceInv, NEW t \in Thread, ~Returned(t), unwritten[t] = {}
  PROVE  status = report[t]
<1>1. report[t] \in Status /\ status \in Status
  BY DEF ServiceInv, Reporting, ReportTypes, Returned
<1>2. \A f \in Field : status[f] = report[t][f]
  BY DEF ServiceInv, Reporting, WrittenIsReported
<1> QED BY <1>1, <1>2, FieldsAreStatus

LEMMA ServiceInitially == ASSUME ServiceAssumption PROVE ServiceInit => ServiceInv
<1> SUFFICES ASSUME ServiceInit PROVE ServiceInv
  OBVIOUS
<1>1. StoppedStatus \in Status /\ StoppedStatus.state = "Stopped" /\ StoppedStatus.accepted = {}
  BY DEF ServiceAssumption, StoppedStatus, Status, ServiceState, Exit
<1>2. ServiceTypes
  <2>1. checkpoint \in 1..MaxCheckpoint
    BY DEF ServiceInit, ServiceAssumption
  <2> QED BY <2>1, Zenon DEF ServiceInit, ServiceTypes
<1>3. \A t \in Thread : Returned(t) /\ unwritten[t] = {}
  BY DEF ServiceInit, Returned
<1>4. Returned("main") /\ Returned("dispatcher")
  BY <1>3 DEF Thread
<1>5. ReportTypes
  BY <1>1 DEF ServiceInit, ReportTypes
<1> QED
  BY <1>1, <1>2, <1>3, <1>4, <1>5
     DEF ServiceInit, ServiceInv, Reporting, WrittenIsReported, ReportsAccept, HandleIsSet,
         WireIsStatus, EntryReports, ControlReports, RunEnds, QuietBefore, QuietAfter,
         BusyBetween, Early, Ended, Accepted

-----------------------------------------------------------------------------
(* A step that neither reports nor writes.                                  *)
LEMMA SilentStep ==
  ASSUME ServiceInv, UNCHANGED <<wire, status, report, unwritten>>
  PROVE  /\ Reporting'
         /\ Returned("main")' = Returned("main")
         /\ Returned("dispatcher")' = Returned("dispatcher")
  BY DEF ServiceInv, Reporting, ReportTypes, WrittenIsReported, ReportsAccept, WireIsStatus,
         Returned

(* Thread t begins to report s.                                             *)
LEMMA NotifyStep ==
  ASSUME ServiceInv, NEW t \in Thread, NEW s \in Status, s # NoReport,
         s.accepted = Accepted(s.state), handle', Notify(t, s)
  PROVE  /\ Reporting' /\ wire' = wire
         /\ report'[t] = s /\ ~Returned(t)'
         /\ \A u \in Thread \ {t} : report'[u] = report[u] /\ Returned(u)' = Returned(u)
<1>1. /\ report' = [report EXCEPT ![t] = s] /\ unwritten' = [unwritten EXCEPT ![t] = Field]
      /\ wire' = wire /\ status' = status
  BY DEF Notify
<1>2. ReportTypes
  BY DEF ServiceInv, Reporting
<1>3. /\ report'[t] = s /\ unwritten'[t] = Field
      /\ \A u \in Thread \ {t} : report'[u] = report[u] /\ unwritten'[u] = unwritten[u]
  BY <1>1, <1>2 DEF ReportTypes
<1>4. ~Returned(t)' /\ \A u \in Thread \ {t} : Returned(u)' = Returned(u)
  BY <1>3 DEF Returned
<1>5. WrittenIsReported'
  BY <1>1, <1>3, <1>4 DEF ServiceInv, Reporting, WrittenIsReported
<1>6. ReportsAccept'
  BY <1>1, <1>3, <1>4 DEF ServiceInv, Reporting, ReportsAccept
<1>7. WireIsStatus'
  BY <1>4 DEF WireIsStatus
<1>8. ReportTypes'
  BY <1>1, <1>2 DEF ReportTypes
<1> QED BY <1>1, <1>3, <1>4, <1>5, <1>6, <1>7, <1>8 DEF Reporting

LEMMA MainNotifies ==
  ASSUME ServiceAssumption, ServiceInv, handle',
         NEW value \in ServiceState, NEW exit \in Exit, NEW c \in 0..MaxCheckpoint,
         Notify("main", StatusFor(value, exit, c))
  PROVE  /\ Reporting' /\ wire' = wire
         /\ report'["main"].state = value /\ report'["main"].exit = exit
         /\ ~Returned("main")'
         /\ report'["dispatcher"] = report["dispatcher"]
         /\ Returned("dispatcher")' = Returned("dispatcher")
<1>1. PICK s : s = StatusFor(value, exit, c)
  OBVIOUS
<1>2. /\ s \in Status /\ s # NoReport /\ s.accepted = Accepted(s.state)
      /\ s.state = value /\ s.exit = exit
  BY <1>1, StatusForIsStatus
<1>3. "main" \in Thread /\ "dispatcher" \in Thread \ {"main"}
  BY DEF Thread
<1> QED BY <1>1, <1>2, <1>3, NotifyStep

LEMMA DispatcherNotifies ==
  ASSUME ServiceAssumption, ServiceInv, handle',
         NEW value \in ServiceState, NEW exit \in Exit, NEW c \in 0..MaxCheckpoint,
         Notify("dispatcher", StatusFor(value, exit, c))
  PROVE  /\ Reporting' /\ wire' = wire
         /\ report'["dispatcher"].state = value
         /\ ~Returned("dispatcher")'
         /\ report'["main"] = report["main"]
         /\ Returned("main")' = Returned("main")
<1>1. PICK s : s = StatusFor(value, exit, c)
  OBVIOUS
<1>2. /\ s \in Status /\ s # NoReport /\ s.accepted = Accepted(s.state)
      /\ s.state = value /\ s.exit = exit
  BY <1>1, StatusForIsStatus
<1>3. "dispatcher" \in Thread /\ "main" \in Thread \ {"dispatcher"}
  BY DEF Thread
<1> QED BY <1>1, <1>2, <1>3, NotifyStep

-----------------------------------------------------------------------------
LEMMA EntryKeepsInvariant ==
  ASSUME ServiceAssumption, ServiceInv, ServiceEntry \/ RunReturns, ~overlap'
  PROVE  ServiceInv'
<1>1. CASE Register
  <2>1. /\ entry = "start" /\ entry' = "starting" /\ handle' = TRUE /\ Returned("main")
        /\ Notify("main", StatusFor("StartPending", "success", 1))
        /\ UNCHANGED <<serviceControl, runtimeState, runOutcome, checkpoint, timedOut>>
    BY <1>1 DEF Register, EntryStep
  <2>2. /\ Reporting' /\ wire' = wire
        /\ report'["main"].state = "StartPending" /\ ~Returned("main")'
        /\ report'["dispatcher"] = report["dispatcher"]
        /\ Returned("dispatcher")' = Returned("dispatcher")
    BY <2>1, MainNotifies DEF ServiceAssumption, ServiceState, Exit
  <2>6. ServiceTypes'
    BY <2>1 DEF ServiceInv, ServiceTypes, serviceEntry, serviceControl, runtimeState
  <2>7. (HandleIsSet /\ EntryReports /\ ControlReports /\ RunEnds)'
    BY <2>1, <2>2
       DEF ServiceInv, ServiceTypes, HandleIsSet, EntryReports, ControlReports,
           RunEnds, ExitCode, serviceEntry, serviceControl, runtimeState
  <2>8. (QuietBefore /\ QuietAfter /\ BusyBetween)'
    BY <2>1, <2>2
       DEF ServiceInv, ServiceTypes, QuietBefore, QuietAfter, BusyBetween, Early, Ended,
           RunEnds, EntryReports, ControlReports, ExitCode, serviceEntry,
           serviceControl, runtimeState
  <2> QED BY <2>2, <2>6, <2>7, <2>8 DEF ServiceInv
<1>2. CASE StartRunning
  <2>1. /\ entry = "starting" /\ entry' = "running" /\ Returned("main")
        /\ Notify("main", StatusFor("Running", "success", 0))
        /\ UNCHANGED <<handle, serviceControl, runtimeState, runOutcome, checkpoint, timedOut>>
    BY <1>2 DEF StartRunning, EntryStep
  <2>3. handle'
    BY <2>1 DEF ServiceInv, HandleIsSet
  <2>2. /\ Reporting' /\ wire' = wire
        /\ report'["main"].state = "Running" /\ ~Returned("main")'
        /\ report'["dispatcher"] = report["dispatcher"]
        /\ Returned("dispatcher")' = Returned("dispatcher")
    BY <2>1, <2>3, MainNotifies DEF ServiceAssumption, ServiceState, Exit
  <2>6. ServiceTypes'
    BY <2>1, <2>3 DEF ServiceInv, ServiceTypes, serviceEntry, serviceControl, runtimeState
  <2>7. (HandleIsSet /\ EntryReports /\ ControlReports /\ RunEnds)'
    BY <2>1, <2>2, <2>3
       DEF ServiceInv, ServiceTypes, HandleIsSet, EntryReports, ControlReports,
           RunEnds, ExitCode, serviceEntry, serviceControl, runtimeState
  <2>8. (QuietBefore /\ QuietAfter /\ BusyBetween)'
    BY <2>1, <2>2, <2>3
       DEF ServiceInv, ServiceTypes, QuietBefore, QuietAfter, BusyBetween, Early, Ended,
           RunEnds, EntryReports, ControlReports, ExitCode, serviceEntry,
           serviceControl, runtimeState
  <2> QED BY <2>2, <2>6, <2>7, <2>8 DEF ServiceInv
<1>3. CASE SpawnWorker
  <2>1. /\ entry = "running" /\ Returned("main") /\ entry' = "waiting"
        /\ UNCHANGED <<wire, status, handle, report, unwritten, checkpoint, timedOut,
                       serviceControl, runtimeState, runOutcome>>
    BY <1>3 DEF SpawnWorker, EntryStep
  <2>2. Reporting' /\ Returned("main")' = Returned("main")
        /\ Returned("dispatcher")' = Returned("dispatcher")
    BY <2>1, SilentStep
  <2>6. ServiceTypes'
    BY <2>1 DEF ServiceInv, ServiceTypes, serviceEntry, serviceControl, runtimeState
  <2>7. (HandleIsSet /\ EntryReports /\ ControlReports /\ RunEnds)'
    BY <2>1, <2>2
       DEF ServiceInv, ServiceTypes, HandleIsSet, EntryReports, ControlReports,
           RunEnds, ExitCode, serviceEntry, serviceControl, runtimeState
  <2>8. (QuietBefore /\ QuietAfter /\ BusyBetween)'
    BY <2>1, <2>2
       DEF ServiceInv, ServiceTypes, QuietBefore, QuietAfter, BusyBetween, Early, Ended,
           RunEnds, EntryReports, ControlReports, ExitCode, serviceEntry,
           serviceControl, runtimeState
  <2> QED BY <2>2, <2>6, <2>7, <2>8 DEF ServiceInv
<1>4. CASE StillWaiting
  <2>0. PICK exit \in Exit : /\ entry = "waiting" /\ entry' = "waiting" /\ Returned("main")
        /\ stop
        /\ checkpoint < MaxCheckpoint /\ checkpoint' = checkpoint + 1
        /\ timedOut' \in {timedOut, TRUE}
        /\ Notify("main", StatusFor("StopPending", exit, checkpoint'))
        /\ UNCHANGED <<handle, serviceControl, runtimeState, runOutcome>>
    BY <1>4 DEF StillWaiting, EntryStep, Exit
  <2>5. checkpoint' \in 1..MaxCheckpoint
    BY <2>0 DEF ServiceInv, ServiceTypes, ServiceAssumption
  <2>1. /\ entry = "waiting" /\ entry' = "waiting" /\ Returned("main")
        /\ stop
        /\ checkpoint' \in 1..MaxCheckpoint /\ timedOut' \in BOOLEAN
        /\ UNCHANGED <<handle, serviceControl, runtimeState, runOutcome>>
    BY <2>0, <2>5, Zenon DEF ServiceInv, ServiceTypes
  <2>3. handle'
    BY <2>1 DEF ServiceInv, HandleIsSet
  <2>4. "StopPending" \in ServiceState /\ checkpoint' \in 0..MaxCheckpoint
    BY <2>1 DEF ServiceState
  <2>2. /\ Reporting' /\ wire' = wire
        /\ report'["main"].state = "StopPending" /\ ~Returned("main")'
        /\ report'["dispatcher"] = report["dispatcher"]
        /\ Returned("dispatcher")' = Returned("dispatcher")
    BY <2>0, <2>3, <2>4, MainNotifies
  <2>6. ServiceTypes'
    BY <2>1 DEF ServiceInv, ServiceTypes, serviceEntry, serviceControl, runtimeState
  <2>7. (HandleIsSet /\ EntryReports /\ ControlReports /\ RunEnds)'
    BY <2>1, <2>2
       DEF ServiceInv, ServiceTypes, HandleIsSet, EntryReports, ControlReports,
           RunEnds, ExitCode, serviceEntry, serviceControl, runtimeState
  <2>8. (QuietBefore /\ QuietAfter /\ BusyBetween)'
    BY <2>1, <2>2
       DEF ServiceInv, ServiceTypes, QuietBefore, QuietAfter, BusyBetween, Early, Ended,
           RunEnds, EntryReports, ControlReports, ExitCode, serviceEntry,
           serviceControl, runtimeState
  <2> QED BY <2>2, <2>6, <2>7, <2>8 DEF ServiceInv
<1>5. CASE Join
  <2>1. /\ entry = "waiting" /\ entry' = "stopped" /\ Returned("main")
        /\ runOutcome # "none" /\ control = "none"
        /\ Notify("main", StatusFor("Stopped", ExitCode, 0))
        /\ UNCHANGED <<handle, serviceControl, runtimeState, runOutcome, checkpoint, timedOut>>
    BY <1>5 DEF Join, EntryStep
  <2>3. handle' /\ ExitCode \in Exit /\ ExitCode' = ExitCode
    BY <2>1 DEF ServiceInv, HandleIsSet, ServiceTypes, ExitCode, Exit
  <2>4. "Stopped" \in ServiceState /\ 0 \in 0..MaxCheckpoint
    BY DEF ServiceState, ServiceAssumption
  <2>2. /\ Reporting' /\ wire' = wire
        /\ report'["main"].state = "Stopped" /\ report'["main"].exit = ExitCode
        /\ ~Returned("main")'
        /\ report'["dispatcher"] = report["dispatcher"]
        /\ Returned("dispatcher")' = Returned("dispatcher")
    BY <2>1, <2>3, <2>4, MainNotifies
  <2>6. ServiceTypes'
    BY <2>1, <2>3 DEF ServiceInv, ServiceTypes, serviceEntry, serviceControl, runtimeState
  <2>7. (HandleIsSet /\ EntryReports /\ ControlReports /\ RunEnds)'
    BY <2>1, <2>2, <2>3
       DEF ServiceInv, ServiceTypes, HandleIsSet, EntryReports, ControlReports,
           RunEnds, ExitCode, serviceEntry, serviceControl, runtimeState
  <2>8. (QuietBefore /\ QuietAfter /\ BusyBetween)'
    BY <2>1, <2>2, <2>3
       DEF ServiceInv, ServiceTypes, QuietBefore, QuietAfter, BusyBetween, Early, Ended,
           RunEnds, EntryReports, ControlReports, ExitCode, serviceEntry,
           serviceControl, runtimeState
  <2> QED BY <2>2, <2>6, <2>7, <2>8 DEF ServiceInv
<1>6. CASE Unregister
  <2>1. /\ entry = "stopped" /\ Returned("main") /\ entry' = "gone" /\ handle' = FALSE
        /\ UNCHANGED <<wire, status, report, unwritten, checkpoint, timedOut,
                       serviceControl, runtimeState, runOutcome>>
    BY <1>6 DEF Unregister, EntryStep
  <2>2. Reporting' /\ Returned("main")' = Returned("main")
        /\ Returned("dispatcher")' = Returned("dispatcher")
    BY <2>1, SilentStep
  <2>6. ServiceTypes'
    BY <2>1 DEF ServiceInv, ServiceTypes, serviceEntry, serviceControl, runtimeState
  <2>7. (HandleIsSet /\ EntryReports /\ ControlReports /\ RunEnds)'
    BY <2>1, <2>2
       DEF ServiceInv, ServiceTypes, HandleIsSet, EntryReports, ControlReports,
           RunEnds, ExitCode, serviceEntry, serviceControl, runtimeState
  <2>8. (QuietBefore /\ QuietAfter /\ BusyBetween)'
    BY <2>1, <2>2
       DEF ServiceInv, ServiceTypes, QuietBefore, QuietAfter, BusyBetween, Early, Ended,
           RunEnds, EntryReports, ControlReports, ExitCode, serviceEntry,
           serviceControl, runtimeState
  <2> QED BY <2>2, <2>6, <2>7, <2>8 DEF ServiceInv
<1>7. CASE RunReturns
  <2>1. /\ entry = "waiting" /\ runOutcome = "none"
        /\ runOutcome' \in {"success", "error"}
        /\ UNCHANGED <<wire, status, handle, report, unwritten, serviceEntry,
                       serviceControl, runtimeState>>
    BY <1>7 DEF RunReturns
  <2>2. Reporting' /\ Returned("main")' = Returned("main")
        /\ Returned("dispatcher")' = Returned("dispatcher")
    BY <2>1, SilentStep
  <2>6. ServiceTypes'
    BY <2>1 DEF ServiceInv, ServiceTypes, Exit, serviceEntry, serviceControl, runtimeState
  <2>7. (HandleIsSet /\ EntryReports /\ ControlReports /\ RunEnds)'
    BY <2>1, <2>2
       DEF ServiceInv, ServiceTypes, HandleIsSet, EntryReports, ControlReports,
           RunEnds, ExitCode, serviceEntry, serviceControl, runtimeState
  <2>8. (QuietBefore /\ QuietAfter /\ BusyBetween)'
    BY <2>1, <2>2
       DEF ServiceInv, ServiceTypes, QuietBefore, QuietAfter, BusyBetween, Early, Ended,
           RunEnds, EntryReports, ControlReports, ExitCode, serviceEntry,
           serviceControl, runtimeState
  <2> QED BY <2>2, <2>6, <2>7, <2>8 DEF ServiceInv
<1> QED BY <1>1, <1>2, <1>3, <1>4, <1>5, <1>6, <1>7 DEF ServiceEntry

LEMMA DeliverKeepsInvariant ==
  ASSUME ServiceInv, NEW c \in Control \cup {"Interrogate"}, Deliver(c)
  PROVE  ServiceInv'
<1>1. /\ control = "none" /\ wire.state \notin {"Stopped", "StartPending", "StopPending"}
        /\ c \in wire.accepted \cup {"Interrogate"}
        /\ control' = c /\ phase' = "callback" /\ ~Ended
        /\ UNCHANGED <<wire, status, handle, report, unwritten, serviceEntry,
                       runtimeState, runOutcome>>
    BY DEF Deliver, Ended
<1>3. ~Early /\ ~stop
    BY <1>1 DEF ServiceInv, QuietBefore, QuietAfter, Early, Ended
<1>4. c \in Control => wire.state = "Running"
    BY <1>1 DEF ServiceInv, Reporting, ReportsAccept, Accepted, Control
<1>5. Returned("dispatcher") /\ "none" \notin Control
    BY <1>1, NoRace DEF Control
<1>2. Reporting' /\ Returned("main")' = Returned("main")
        /\ Returned("dispatcher")' = Returned("dispatcher")
    BY <1>1, SilentStep
<1>6. ServiceTypes'
  BY <1>1, <1>3, <1>4, <1>5 DEF ServiceInv, ServiceTypes, serviceEntry, serviceControl, runtimeState
<1>7. (HandleIsSet /\ EntryReports /\ ControlReports /\ RunEnds)'
  BY <1>1, <1>2, <1>3, <1>4, <1>5
       DEF ServiceInv, ServiceTypes, HandleIsSet, EntryReports, ControlReports,
           RunEnds, ExitCode, serviceEntry, serviceControl, runtimeState
<1>8. (QuietBefore /\ QuietAfter /\ BusyBetween)'
  BY <1>1, <1>2, <1>3, <1>4, <1>5
       DEF ServiceInv, ServiceTypes, QuietBefore, QuietAfter, BusyBetween, Early, Ended,
           RunEnds, EntryReports, ControlReports, ExitCode, serviceEntry,
           serviceControl, runtimeState
<1> QED BY <1>2, <1>6, <1>7, <1>8 DEF ServiceInv

LEMMA ControlKeepsInvariant ==
  ASSUME ServiceAssumption, ServiceInv, ServiceControl
  PROVE  ServiceInv'
<1>0. ASSUME NEW p \in {"callback", "effect", "return"}, ControlStep(p)
      PROVE  /\ control # "none" /\ phase = p /\ ~Early /\ ~stop /\ ~Ended
             /\ Returned("main") /\ Returned("dispatcher") /\ handle
             /\ UNCHANGED <<handle, serviceEntry, runOutcome>>
  <2>1. /\ control # "none" /\ phase = p /\ Returned("dispatcher")
        /\ UNCHANGED <<handle, serviceEntry, runOutcome>>
    BY <1>0 DEF ControlStep
  <2>2. ~Early /\ ~stop /\ ~Ended /\ Returned("main")
    BY <2>1, NoRace
  <2>3. handle
    BY <2>2 DEF ServiceInv, HandleIsSet, Early, Ended, RunEnds
  <2> QED BY <2>1, <2>2, <2>3
<1>1. CASE Interrogate
  <2>3. /\ control = "Interrogate" /\ Returned("main") /\ Returned("dispatcher") /\ handle
        /\ ~Early /\ ~stop /\ ~Ended
        /\ wire' = IF handle THEN status ELSE wire
        /\ control' = "none"
        /\ UNCHANGED <<status, handle, report, unwritten, phase, runtimeState, serviceEntry,
                       runOutcome>>
    BY <1>1, <1>0 DEF Interrogate
  <2>1. /\ control = "Interrogate" /\ control' = "none" /\ ~Early /\ ~stop /\ ~Ended
        /\ Returned("main") /\ Returned("dispatcher")
        /\ UNCHANGED <<wire, status, handle, report, unwritten, phase, runtimeState,
                       serviceEntry, runOutcome>>
    BY <2>3 DEF ServiceInv, Reporting, WireIsStatus, Thread
  <2>4. "Interrogate" \notin Control /\ "none" \notin Control
    BY DEF Control
  <2>2. Reporting' /\ Returned("main")' = Returned("main")
        /\ Returned("dispatcher")' = Returned("dispatcher")
    BY <2>1, SilentStep
  <2>6. ServiceTypes'
    BY <2>1, <2>4 DEF ServiceInv, ServiceTypes, serviceEntry, serviceControl, runtimeState
  <2>7. (HandleIsSet /\ EntryReports /\ ControlReports /\ RunEnds)'
    BY <2>1, <2>2, <2>4
       DEF ServiceInv, ServiceTypes, HandleIsSet, EntryReports, ControlReports,
           RunEnds, ExitCode, serviceEntry, serviceControl, runtimeState
  <2>8. (QuietBefore /\ QuietAfter /\ BusyBetween)'
    BY <2>1, <2>2, <2>4
       DEF ServiceInv, ServiceTypes, QuietBefore, QuietAfter, BusyBetween, Early, Ended,
           RunEnds, EntryReports, ControlReports, ExitCode, serviceEntry,
           serviceControl, runtimeState
  <2> QED BY <2>2, <2>6, <2>7, <2>8 DEF ServiceInv
<1>2. CASE Refuse
  <2>1. /\ control \notin {"none", "Interrogate"} /\ phase = "callback" /\ control' = "none"
        /\ ~Early /\ ~stop /\ ~Ended /\ Returned("main") /\ Returned("dispatcher")
        /\ UNCHANGED <<wire, status, handle, report, unwritten, phase, runtimeState,
                       serviceEntry, runOutcome>>
    BY <1>2, <1>0 DEF Refuse
  <2>4. control \in Control /\ "none" \notin Control
    BY <2>1 DEF Control, ServiceInv, ServiceTypes
  <2>2. Reporting' /\ Returned("main")' = Returned("main")
        /\ Returned("dispatcher")' = Returned("dispatcher")
    BY <2>1, SilentStep
  <2>6. ServiceTypes'
    BY <2>1, <2>4 DEF ServiceInv, ServiceTypes, serviceEntry, serviceControl, runtimeState
  <2>7. (HandleIsSet /\ EntryReports /\ ControlReports /\ RunEnds)'
    BY <2>1, <2>2, <2>4
       DEF ServiceInv, ServiceTypes, HandleIsSet, EntryReports, ControlReports,
           RunEnds, ExitCode, serviceEntry, serviceControl, runtimeState
  <2>8. (QuietBefore /\ QuietAfter /\ BusyBetween)'
    BY <2>1, <2>2, <2>4
       DEF ServiceInv, ServiceTypes, QuietBefore, QuietAfter, BusyBetween, Early, Ended,
           RunEnds, EntryReports, ControlReports, ExitCode, serviceEntry,
           serviceControl, runtimeState
  <2> QED BY <2>2, <2>6, <2>7, <2>8 DEF ServiceInv
<1>3. CASE Accept
  <2>1. /\ control \notin {"none", "Interrogate"} /\ phase = "callback"
        /\ phase' = "effect"
        /\ Notify("dispatcher", StatusFor(PendingState[control], "success", 1))
        /\ ~Early /\ ~stop /\ ~Ended /\ Returned("main") /\ Returned("dispatcher") /\ handle
        /\ UNCHANGED <<control, handle, runtimeState, serviceEntry, runOutcome>>
    BY <1>3, <1>0 DEF Accept
  <2>4. control \in Control /\ handle' /\ PendingState[control] \in ServiceState
        /\ "success" \in Exit /\ 1 \in 0..MaxCheckpoint
    BY <2>1 DEF Control, ServiceInv, ServiceTypes, PendingState, ServiceState, Exit,
                ServiceAssumption
  <2>2. /\ Reporting' /\ wire' = wire
        /\ report'["dispatcher"].state = PendingState[control] /\ ~Returned("dispatcher")'
        /\ report'["main"] = report["main"]
        /\ Returned("main")' = Returned("main")
    BY <2>1, <2>4, DispatcherNotifies
  <2>6. ServiceTypes'
    BY <2>1, <2>4 DEF ServiceInv, ServiceTypes, serviceEntry, serviceControl, runtimeState
  <2>7. (HandleIsSet /\ EntryReports /\ ControlReports /\ RunEnds)'
    BY <2>1, <2>2, <2>4
       DEF ServiceInv, ServiceTypes, HandleIsSet, EntryReports, ControlReports,
           RunEnds, ExitCode, serviceEntry, serviceControl, runtimeState
  <2>8. (QuietBefore /\ QuietAfter /\ BusyBetween)'
    BY <2>1, <2>2, <2>4
       DEF ServiceInv, ServiceTypes, QuietBefore, QuietAfter, BusyBetween, Early, Ended,
           RunEnds, EntryReports, ControlReports, ExitCode, serviceEntry,
           serviceControl, runtimeState
  <2> QED BY <2>2, <2>6, <2>7, <2>8 DEF ServiceInv
<1>4. CASE RequestStop
  <2>1. /\ control = "Stop" /\ phase = "effect" /\ control' = "none" /\ stop' = TRUE
        /\ ~Early /\ ~stop /\ ~Ended /\ Returned("main") /\ Returned("dispatcher")
        /\ UNCHANGED <<wire, status, handle, report, unwritten, phase, paused,
                       serviceEntry, runOutcome>>
    BY <1>4, <1>0 DEF RequestStop
  <2>4. control \in Control /\ "none" \notin Control /\ PendingState["Stop"] = "StopPending"
    BY <2>1 DEF Control, PendingState
  <2>5. wire.state = "StopPending" /\ entry \notin {"stopped", "gone"}
    BY <2>1, <2>4 DEF ServiceInv, BusyBetween, Ended
  <2>2. Reporting' /\ Returned("main")' = Returned("main")
        /\ Returned("dispatcher")' = Returned("dispatcher")
    BY <2>1, SilentStep
  <2>6. ServiceTypes'
    BY <2>1, <2>4, <2>5 DEF ServiceInv, ServiceTypes, serviceEntry, serviceControl, runtimeState
  <2>7. (HandleIsSet /\ EntryReports /\ ControlReports /\ RunEnds)'
    BY <2>1, <2>2, <2>4, <2>5
       DEF ServiceInv, ServiceTypes, HandleIsSet, EntryReports, ControlReports,
           RunEnds, ExitCode, serviceEntry, serviceControl, runtimeState
  <2>8. (QuietBefore /\ QuietAfter /\ BusyBetween)'
    BY <2>1, <2>2, <2>4, <2>5
       DEF ServiceInv, ServiceTypes, QuietBefore, QuietAfter, BusyBetween, Early, Ended,
           RunEnds, EntryReports, ControlReports, ExitCode, serviceEntry,
           serviceControl, runtimeState
  <2> QED BY <2>2, <2>6, <2>7, <2>8 DEF ServiceInv
<1>5. CASE PauseOrContinue
  <2>0. /\ control \in {"Pause", "Continue"} /\ phase = "effect" /\ phase' = "return"
        /\ paused' = (control = "Pause")
        /\ Notify("dispatcher", StatusFor(IF paused' THEN "Paused" ELSE "Running", "success", 0))
        /\ ~Early /\ ~stop /\ ~Ended /\ Returned("main") /\ Returned("dispatcher") /\ handle
        /\ UNCHANGED <<control, handle, stop, serviceEntry, runOutcome>>
    BY <1>5, <1>0 DEF PauseOrContinue
  <2>3. PICK value \in {"Paused", "Running"} :
          /\ value = IF control = "Pause" THEN "Paused" ELSE "Running"
          /\ Notify("dispatcher", StatusFor(value, "success", 0))
    BY <2>0
  <2>1. /\ control \in {"Pause", "Continue"} /\ phase = "effect" /\ phase' = "return"
        /\ paused' \in BOOLEAN
        /\ ~Early /\ ~stop /\ ~Ended /\ Returned("main") /\ Returned("dispatcher") /\ handle
        /\ UNCHANGED <<control, handle, stop, serviceEntry, runOutcome>>
    BY <2>0
  <2>4. control \in Control /\ handle' /\ value \in ServiceState
        /\ "success" \in Exit /\ 0 \in 0..MaxCheckpoint
    BY <2>1, <2>3 DEF Control, ServiceState, Exit, ServiceAssumption
  <2>2. /\ Reporting' /\ wire' = wire
        /\ report'["dispatcher"].state = value /\ ~Returned("dispatcher")'
        /\ report'["main"] = report["main"]
        /\ Returned("main")' = Returned("main")
    BY <2>3, <2>4, DispatcherNotifies
  <2>6. ServiceTypes'
    BY <2>1, <2>3, <2>4 DEF ServiceInv, ServiceTypes, serviceEntry, serviceControl, runtimeState
  <2>7. (HandleIsSet /\ EntryReports /\ ControlReports /\ RunEnds)'
    BY <2>1, <2>2, <2>3, <2>4
       DEF ServiceInv, ServiceTypes, HandleIsSet, EntryReports, ControlReports,
           RunEnds, ExitCode, serviceEntry, serviceControl, runtimeState
  <2>8. (QuietBefore /\ QuietAfter /\ BusyBetween)'
    BY <2>1, <2>2, <2>3, <2>4
       DEF ServiceInv, ServiceTypes, QuietBefore, QuietAfter, BusyBetween, Early, Ended,
           RunEnds, EntryReports, ControlReports, ExitCode, serviceEntry,
           serviceControl, runtimeState
  <2> QED BY <2>2, <2>6, <2>7, <2>8 DEF ServiceInv
<1>6. CASE ControlReturns
  <2>1. /\ control # "none" /\ phase = "return" /\ control' = "none"
        /\ ~Early /\ ~stop /\ ~Ended /\ Returned("main") /\ Returned("dispatcher")
        /\ UNCHANGED <<wire, status, handle, report, unwritten, phase, runtimeState,
                       serviceEntry, runOutcome>>
    BY <1>6, <1>0 DEF ControlReturns
  <2>4. (control = "Interrogate" \/ control \in Control) /\ "none" \notin Control
    BY <2>1 DEF Control, ServiceInv, ServiceTypes
  <2>2. Reporting' /\ Returned("main")' = Returned("main")
        /\ Returned("dispatcher")' = Returned("dispatcher")
    BY <2>1, SilentStep
  <2>6. ServiceTypes'
    BY <2>1, <2>4 DEF ServiceInv, ServiceTypes, serviceEntry, serviceControl, runtimeState
  <2>7. (HandleIsSet /\ EntryReports /\ ControlReports /\ RunEnds)'
    BY <2>1, <2>2, <2>4
       DEF ServiceInv, ServiceTypes, HandleIsSet, EntryReports, ControlReports,
           RunEnds, ExitCode, serviceEntry, serviceControl, runtimeState
  <2>8. (QuietBefore /\ QuietAfter /\ BusyBetween)'
    BY <2>1, <2>2, <2>4
       DEF ServiceInv, ServiceTypes, QuietBefore, QuietAfter, BusyBetween, Early, Ended,
           RunEnds, EntryReports, ControlReports, ExitCode, serviceEntry,
           serviceControl, runtimeState
  <2> QED BY <2>2, <2>6, <2>7, <2>8 DEF ServiceInv
<1> QED BY <1>1, <1>2, <1>3, <1>4, <1>5, <1>6 DEF ServiceControl

LEMMA WriteKeepsInvariant ==
  ASSUME ServiceInv, NEW t \in Thread, WriteField(t)
  PROVE  ServiceInv'
<1>1. PICK f \in unwritten[t] :
        /\ status' = [status EXCEPT ![f] = report[t][f]]
        /\ unwritten' = [unwritten EXCEPT ![t] = @ \ {f}]
  BY DEF WriteField
<1>2. UNCHANGED <<wire, handle, report, serviceEntry, serviceControl, runtimeState, runOutcome>>
  BY DEF WriteField
<1>3. ~Returned(t)
  BY <1>1 DEF ServiceInv, Reporting, WrittenIsReported
<1>4. \A u \in Thread \ {t} : Returned(u)
  BY <1>3, NoRace DEF Thread
<1>5. status \in Status /\ report[t] \in Status /\ f \in Field
  BY <1>1, <1>3 DEF ServiceInv, Reporting, ReportTypes, Returned
<1>6. /\ status' \in Status
      /\ \A g \in Field : status'[g] = IF g = f THEN report[t][f] ELSE status[g]
  <2>1. PICK s, r : s = status /\ r = report[t]
    OBVIOUS
  <2>2. /\ [s EXCEPT ![f] = r[f]] \in Status
        /\ \A g \in Field : [s EXCEPT ![f] = r[f]][g] = IF g = f THEN r[f] ELSE s[g]
    BY <1>5, <2>1, FieldWritten
  <2> QED BY <1>1, <2>1, <2>2
<1>7. \A u \in Thread : Returned(u)' = Returned(u)
  BY <1>2 DEF Returned
<1>8. /\ unwritten' \in [Thread -> SUBSET Field] /\ unwritten'[t] = unwritten[t] \ {f}
      /\ \A u \in Thread \ {t} : unwritten'[u] = unwritten[u]
  BY <1>1 DEF ServiceInv, Reporting, ReportTypes
<1>9. ReportTypes'
  BY <1>2, <1>6, <1>8 DEF ServiceInv, Reporting, ReportTypes
<1>10. WrittenIsReported'
  <2>1. \A u \in Thread \ {t} : unwritten'[u] = {}
    BY <1>4, <1>8 DEF ServiceInv, Reporting, WrittenIsReported
  <2>2. \A g \in Field \ unwritten'[t] : status'[g] = report'[t][g]
    BY <1>2, <1>3, <1>6, <1>8 DEF ServiceInv, Reporting, WrittenIsReported
  <2> QED BY <1>3, <1>4, <1>7, <2>1, <2>2 DEF WrittenIsReported
<1>11. (ReportsAccept /\ WireIsStatus)'
  BY <1>2, <1>3, <1>7 DEF ServiceInv, Reporting, ReportsAccept, WireIsStatus
<1>12. Returned("main")' = Returned("main") /\ Returned("dispatcher")' = Returned("dispatcher")
  BY <1>2 DEF Returned
<1>13. ServiceTypes'
  BY <1>2 DEF ServiceInv, ServiceTypes, serviceEntry, serviceControl, runtimeState
<1>14. (HandleIsSet /\ EntryReports /\ ControlReports /\ RunEnds)'
  BY <1>2, <1>12
     DEF ServiceInv, HandleIsSet, EntryReports, ControlReports, RunEnds, ExitCode,
         serviceEntry, serviceControl, runtimeState
<1>15. (QuietBefore /\ QuietAfter /\ BusyBetween)'
  BY <1>2, <1>12
     DEF ServiceInv, QuietBefore, QuietAfter, BusyBetween, Early, Ended, ExitCode, serviceEntry,
         serviceControl, runtimeState
<1> QED BY <1>9, <1>10, <1>11, <1>13, <1>14, <1>15 DEF ServiceInv, Reporting

(* SetServiceStatus gives the SCM the whole of the report.                  *)
LEMMA SetServiceStatusGives ==
  ASSUME ServiceInv, NEW t \in Thread, SetServiceStatus(t)
  PROVE  /\ ~Returned(t) /\ Returned(t)' /\ handle
         /\ wire' = report[t] /\ wire'.accepted = Accepted(wire'.state)
         /\ \A u \in Thread \ {t} : Returned(u) /\ Returned(u)'
         /\ UNCHANGED <<status, handle, unwritten, serviceEntry, serviceControl,
                        runtimeState, runOutcome>>
         /\ Reporting'
<1>1. /\ ~Returned(t) /\ unwritten[t] = {}
      /\ wire' = IF handle THEN status ELSE wire
      /\ report' = [report EXCEPT ![t] = NoReport]
      /\ UNCHANGED <<status, handle, unwritten, serviceEntry, serviceControl,
                     runtimeState, runOutcome>>
  BY DEF SetServiceStatus
<1>2. \A u \in Thread \ {t} : Returned(u)
  BY <1>1, NoRace DEF Thread
<1>3. /\ Returned(t)' /\ \A u \in Thread \ {t} : Returned(u)'
      /\ report' \in [Thread -> Status \cup {NoReport}]
  BY <1>1, <1>2 DEF ServiceInv, Reporting, ReportTypes, Returned
<1>4. handle
  <2>1. CASE t = "main"
    BY <1>1, <2>1 DEF ServiceInv, HandleIsSet, EntryReports
  <2>2. CASE t = "dispatcher"
    <3>1. control # "none"
      BY <1>1, <2>2 DEF ServiceInv, ControlReports, Control
    <3> QED BY <3>1, NoRace DEF ServiceInv, HandleIsSet, Early, Ended, RunEnds
  <2> QED BY <2>1, <2>2 DEF Thread
<1>5. wire' = status /\ status = report[t]
  BY <1>1, <1>4, WholeReport
<1>6. wire'.accepted = Accepted(wire'.state)
  BY <1>1, <1>5 DEF ServiceInv, Reporting, ReportsAccept
<1>7. ReportTypes'
  BY <1>1, <1>3, <1>5 DEF ServiceInv, Reporting, ReportTypes
<1>8. WrittenIsReported'
  BY <1>1, <1>2, <1>3 DEF ServiceInv, Reporting, WrittenIsReported
<1>9. (ReportsAccept /\ WireIsStatus)'
  BY <1>1, <1>3, <1>5, <1>6 DEF ReportsAccept, WireIsStatus
<1> QED BY <1>1, <1>2, <1>3, <1>4, <1>5, <1>6, <1>7, <1>8, <1>9 DEF Reporting

LEMMA SetServiceStatusKeepsInvariant ==
  ASSUME ServiceInv, NEW t \in Thread, SetServiceStatus(t)
  PROVE  ServiceInv'
<1>1. CASE t = "main"
  <2>1. /\ ~Returned("main") /\ Returned("main")' /\ Returned("dispatcher")
        /\ Returned("dispatcher")' /\ wire' = report["main"]
        /\ UNCHANGED <<handle, serviceEntry, serviceControl, runtimeState, runOutcome>>
    BY <1>1, SetServiceStatusGives DEF Thread
  <2>2. ServiceTypes'
    BY <2>1 DEF ServiceInv, ServiceTypes, serviceEntry, serviceControl, runtimeState
  <2>3. (HandleIsSet /\ EntryReports /\ ControlReports /\ RunEnds)'
    BY <2>1 DEF ServiceInv, HandleIsSet, EntryReports, ControlReports, RunEnds,
                serviceEntry, serviceControl, runtimeState
  <2>4. (QuietBefore /\ QuietAfter /\ BusyBetween)'
    BY <2>1 DEF ServiceInv, EntryReports, QuietBefore, QuietAfter, BusyBetween, Early, Ended,
                RunEnds, ExitCode, Control, serviceEntry, serviceControl, runtimeState
  <2> QED BY <2>2, <2>3, <2>4, SetServiceStatusGives DEF ServiceInv
<1>2. CASE t = "dispatcher"
  <2>1. /\ ~Returned("dispatcher") /\ Returned("dispatcher")' /\ Returned("main")
        /\ Returned("main")' /\ wire' = report["dispatcher"]
        /\ UNCHANGED <<handle, serviceEntry, serviceControl, runtimeState, runOutcome>>
    BY <1>2, SetServiceStatusGives DEF Thread
  <2>2. control \in Control /\ control # "none" /\ control # "Interrogate"
    BY <2>1 DEF ServiceInv, ControlReports, Control
  <2>3. ~Early /\ ~stop /\ ~Ended
    BY <2>2, NoRace
  <2>4. ServiceTypes'
    BY <2>1 DEF ServiceInv, ServiceTypes, serviceEntry, serviceControl, runtimeState
  <2>5. (HandleIsSet /\ EntryReports /\ ControlReports /\ RunEnds)'
    BY <2>1 DEF ServiceInv, HandleIsSet, EntryReports, ControlReports, RunEnds,
                serviceEntry, serviceControl, runtimeState
  <2>6. (QuietBefore /\ QuietAfter /\ BusyBetween)'
    BY <2>1, <2>2, <2>3 DEF ServiceInv, ControlReports, QuietBefore, QuietAfter, BusyBetween,
                Early, Ended, serviceEntry, serviceControl, runtimeState
  <2> QED BY <2>4, <2>5, <2>6, SetServiceStatusGives DEF ServiceInv
<1> QED BY <1>1, <1>2 DEF Thread

(* Whatever the two threads do: the variables keep their types, and outside *)
(* NotifyState a thread has nothing to write.                               *)
ServiceTyped ==
  /\ ServiceTypes /\ ReportTypes /\ overlap \in BOOLEAN
  /\ \A t \in Thread : Returned(t) => unwritten[t] = {}

LEMMA NotifyKeepsTypes ==
  ASSUME ServiceTyped, NEW t \in Thread, NEW s \in Status, s # NoReport, Notify(t, s),
         handle' \in BOOLEAN
  PROVE  ReportTypes' /\ \A u \in Thread : Returned(u)' => unwritten'[u] = {}
<1>1. PICK r, w : /\ r = IF handle' THEN s ELSE NoReport
                  /\ w = IF handle' THEN Field ELSE {}
  OBVIOUS
<1>2. /\ report' = [report EXCEPT ![t] = r] /\ unwritten' = [unwritten EXCEPT ![t] = w]
      /\ wire' = wire /\ status' = status
  BY <1>1 DEF Notify
<1>3. r \in Status \cup {NoReport} /\ w \in SUBSET Field /\ (r = NoReport => w = {})
  BY <1>1
<1>4. ReportTypes
  BY DEF ServiceTyped
<1>5. ReportTypes'
  BY <1>2, <1>3, <1>4 DEF ReportTypes
<1>6. \A u \in Thread : Returned(u)' => unwritten'[u] = {}
  <2> SUFFICES ASSUME NEW u \in Thread, Returned(u)' PROVE unwritten'[u] = {}
    OBVIOUS
  <2>1. CASE u = t
    BY <1>2, <1>3, <1>4, <2>1 DEF ReportTypes, Returned
  <2>2. CASE u # t
    BY <1>2, <1>4, <2>2 DEF ReportTypes, Returned, ServiceTyped
  <2> QED BY <2>1, <2>2
<1> QED BY <1>5, <1>6

LEMMA StatusForKeepsTypes ==
  ASSUME ServiceAssumption, ServiceTyped, NEW t \in Thread, NEW value \in ServiceState,
         NEW exit \in Exit, NEW c \in 0..MaxCheckpoint, Notify(t, StatusFor(value, exit, c)),
         handle' \in BOOLEAN
  PROVE  ReportTypes' /\ \A u \in Thread : Returned(u)' => unwritten'[u] = {}
<1>1. PICK s : s = StatusFor(value, exit, c)
  OBVIOUS
<1>2. s \in Status /\ s # NoReport
  BY <1>1, StatusForIsStatus
<1> QED BY <1>1, <1>2, NotifyKeepsTypes

LEMMA TypesKept ==
  ASSUME ServiceAssumption, ServiceTyped, ServiceNext
  PROVE  ServiceTyped'
<1> DEFINE Reports == ReportTypes' /\ \A u \in Thread : Returned(u)' => unwritten'[u] = {}
<1>q. "main" \in Thread /\ "dispatcher" \in Thread /\ 0 \in 0..MaxCheckpoint
      /\ 1 \in 0..MaxCheckpoint /\ "success" \in Exit
  BY DEF Thread, Exit, ServiceAssumption
<1>s. ASSUME UNCHANGED <<wire, status, report, unwritten>> PROVE Reports
  BY <1>s DEF ServiceTyped, ReportTypes, Returned
<1>e. ServiceState = {"Stopped", "StartPending", "Running", "PausePending",
                      "Paused", "ContinuePending", "StopPending"}
  BY DEF ServiceState
<1> HIDE DEF Reports
<1>1. CASE Register
  <2>1. ServiceTypes' /\ handle' \in BOOLEAN /\ overlap' = overlap
    BY <1>1 DEF Register, EntryStep, ServiceTyped, ServiceTypes, serviceControl, runtimeState
  <2>2. Reports
    BY <1>1, <1>q, <1>e, <2>1, StatusForKeepsTypes DEF Register, Reports
  <2> QED BY <2>1, <2>2 DEF ServiceTyped, Reports
<1>2. CASE StartRunning
  <2>1. ServiceTypes' /\ handle' \in BOOLEAN /\ overlap' = overlap
    BY <1>2 DEF StartRunning, EntryStep, ServiceTyped, ServiceTypes, serviceControl, runtimeState
  <2>2. Reports
    BY <1>2, <1>q, <1>e, <2>1, StatusForKeepsTypes DEF StartRunning, Reports
  <2> QED BY <2>1, <2>2 DEF ServiceTyped, Reports
<1>3. CASE SpawnWorker \/ Unregister
  <2>1. ServiceTypes' /\ overlap' = overlap
    BY <1>3 DEF SpawnWorker, Unregister, EntryStep, ServiceTyped, ServiceTypes,
                serviceControl, runtimeState
  <2>2. Reports
    BY <1>3, <1>s DEF SpawnWorker, Unregister
  <2> QED BY <2>1, <2>2 DEF ServiceTyped, Reports
<1>4. CASE StillWaiting
  <2>1. checkpoint' \in 1..MaxCheckpoint
    BY <1>4 DEF StillWaiting, ServiceTyped, ServiceTypes, ServiceAssumption
  <2>2. /\ entry' = "waiting" /\ timedOut' \in BOOLEAN
        /\ UNCHANGED <<handle, overlap, control, phase, paused, stop, runOutcome>>
    BY <1>4 DEF StillWaiting, EntryStep, ServiceTyped, ServiceTypes, serviceControl, runtimeState
  <2>3. ServiceTypes'
    BY <2>1, <2>2, Zenon DEF ServiceTyped, ServiceTypes
  <2>4. PICK exit \in Exit : Notify("main", StatusFor("StopPending", exit, checkpoint'))
    BY <1>4 DEF StillWaiting, Exit
  <2>5. checkpoint' \in 0..MaxCheckpoint /\ handle' \in BOOLEAN
    BY <2>1, <2>2 DEF ServiceTyped, ServiceTypes
  <2>6. Reports
    BY <1>q, <1>e, <2>4, <2>5, StatusForKeepsTypes DEF Reports
  <2> QED BY <2>2, <2>3, <2>6 DEF ServiceTyped, Reports
<1>5. CASE Join
  <2>1. ServiceTypes' /\ handle' \in BOOLEAN /\ overlap' \in BOOLEAN
    BY <1>5 DEF Join, EntryStep, ServiceTyped, ServiceTypes, serviceControl, runtimeState
  <2>2. ExitCode \in Exit
    BY <1>5 DEF Join, ExitCode, ServiceTyped, ServiceTypes, Exit
  <2>3. Reports
    BY <1>5, <1>q, <1>e, <2>1, <2>2, StatusForKeepsTypes DEF Join, Reports
  <2> QED BY <2>1, <2>3 DEF ServiceTyped, Reports
<1>6. CASE RunReturns
  <2>1. ServiceTypes' /\ overlap' = overlap
    BY <1>6 DEF RunReturns, ServiceTyped, ServiceTypes, Exit, serviceEntry, serviceControl,
                runtimeState
  <2>2. Reports
    BY <1>6, <1>s DEF RunReturns
  <2> QED BY <2>1, <2>2 DEF ServiceTyped, Reports
<1>7. CASE \E c \in Control \cup {"Interrogate"} : Deliver(c)
  <2>1. ServiceTypes' /\ overlap' = overlap
    BY <1>7 DEF Deliver, ServiceTyped, ServiceTypes, serviceEntry, runtimeState
  <2>2. Reports
    BY <1>7, <1>s DEF Deliver
  <2> QED BY <2>1, <2>2 DEF ServiceTyped, Reports
<1>8. CASE Interrogate
  <2>1. ServiceTypes' /\ overlap' = overlap
    BY <1>8 DEF Interrogate, ControlStep, ServiceTyped, ServiceTypes, serviceEntry, runtimeState
  <2>2. Reports
    BY <1>8 DEF Interrogate, ControlStep, ServiceTyped, ReportTypes, Returned, Reports
  <2> QED BY <2>1, <2>2 DEF ServiceTyped, Reports
<1>9. CASE Refuse \/ RequestStop \/ ControlReturns
  <2>1. ServiceTypes' /\ overlap' = overlap
    BY <1>9 DEF Refuse, RequestStop, ControlReturns, ControlStep, ServiceTyped, ServiceTypes,
                serviceEntry, runtimeState
  <2>2. Reports
    BY <1>9, <1>s DEF Refuse, RequestStop, ControlReturns
  <2> QED BY <2>1, <2>2 DEF ServiceTyped, Reports
<1>10. CASE Accept
  <2>1. ServiceTypes' /\ handle' \in BOOLEAN /\ overlap' = overlap
    BY <1>10 DEF Accept, ControlStep, ServiceTyped, ServiceTypes, serviceEntry, runtimeState
  <2>2. PendingState[control] \in ServiceState
    BY <1>10 DEF Accept, ControlStep, PendingState, Control, ServiceState, ServiceTyped,
                 ServiceTypes
  <2>3. Reports
    BY <1>10, <1>q, <2>1, <2>2, StatusForKeepsTypes DEF Accept, Reports
  <2> QED BY <2>1, <2>3 DEF ServiceTyped, Reports
<1>11. CASE PauseOrContinue
  <2>1. ServiceTypes' /\ handle' \in BOOLEAN /\ overlap' = overlap
    BY <1>11 DEF PauseOrContinue, ControlStep, ServiceTyped, ServiceTypes, serviceEntry
  <2>2. PICK value \in ServiceState : Notify("dispatcher", StatusFor(value, "success", 0))
    BY <1>11 DEF PauseOrContinue, ServiceState
  <2>3. Reports
    BY <1>q, <2>1, <2>2, StatusForKeepsTypes DEF Reports
  <2> QED BY <2>1, <2>3 DEF ServiceTyped, Reports
<1>12. CASE \E t \in Thread : WriteField(t)
  <2>0. PICK t \in Thread : WriteField(t)
    BY <1>12
  <2>1. PICK f \in unwritten[t] :
          /\ status' = [status EXCEPT ![f] = report[t][f]]
          /\ unwritten' = [unwritten EXCEPT ![t] = @ \ {f}]
          /\ UNCHANGED <<wire, handle, report, serviceEntry, serviceControl,
                         runtimeState, runOutcome, overlap>>
    BY <2>0 DEF WriteField
  <2>2. ServiceTypes' /\ overlap' = overlap
    BY <2>1 DEF ServiceTyped, ServiceTypes, serviceEntry, serviceControl, runtimeState
  <2>3. status \in Status /\ report[t] \in Status /\ f \in Field
    BY <2>1 DEF ServiceTyped, ReportTypes, Returned
  <2>4. status' \in Status
    <3>1. PICK s, r : s = status /\ r = report[t]
      OBVIOUS
    <3>2. [s EXCEPT ![f] = r[f]] \in Status
      BY <2>3, <3>1, FieldWritten
    <3> QED BY <2>1, <3>1, <3>2
  <2>5. Reports
    BY <2>1, <2>4 DEF ServiceTyped, ReportTypes, Returned, Reports
  <2> QED BY <2>2, <2>5 DEF ServiceTyped, Reports
<1>13. CASE \E t \in Thread : SetServiceStatus(t)
  <2>1. PICK t \in Thread : SetServiceStatus(t)
    BY <1>13
  <2>2. ServiceTypes' /\ overlap' = overlap
    BY <2>1 DEF SetServiceStatus, ServiceTyped, ServiceTypes, serviceEntry, serviceControl,
                runtimeState
  <2>3. Reports
    BY <2>1 DEF SetServiceStatus, ServiceTyped, ReportTypes, Returned, Reports
  <2> QED BY <2>2, <2>3 DEF ServiceTyped, Reports
<1> QED
  BY <1>1, <1>2, <1>3, <1>4, <1>5, <1>6, <1>7, <1>8, <1>9, <1>10, <1>11, <1>12, <1>13
     DEF ServiceNext, ServiceEntry, ServiceControl, NotifySteps

(* Unless the end of Run was taken up within a control, what the two        *)
(* threads have reported, are writing and remember belongs to one state of  *)
(* the service.                                                             *)
ServiceSound == ServiceTyped /\ IF overlap THEN Ended ELSE ServiceInv

(* ServiceSound holds of the code (ServiceEntry, ServiceControl,            *)
(* NotifyState), whether Run ends after a stop or by itself.                *)
THEOREM ServiceInvariance == ASSUME ServiceAssumption PROVE ServiceSpec => []ServiceSound
<1>1. ServiceInit => ServiceSound
  <2> SUFFICES ASSUME ServiceInit PROVE ServiceSound
    OBVIOUS
  <2>1. ServiceInv
    BY ServiceInitially
  <2>2. ServiceTyped
    BY <2>1 DEF ServiceInit, ServiceInv, Reporting, ServiceTyped
  <2> QED BY <2>1, <2>2 DEF ServiceInit, ServiceSound
<1>2. ServiceSound /\ [ServiceNext]_serviceVars => ServiceSound'
  <2> SUFFICES ASSUME ServiceSound, [ServiceNext]_serviceVars PROVE ServiceSound'
    OBVIOUS
  <2>1. CASE ServiceNext
    <3>1. ServiceTyped'
      BY <2>1, TypesKept DEF ServiceSound
    <3>2. ASSUME ServiceInv, ~overlap' PROVE ServiceInv'
      BY <2>1, <3>2, EntryKeepsInvariant, ControlKeepsInvariant, WriteKeepsInvariant,
         SetServiceStatusKeepsInvariant, DeliverKeepsInvariant DEF ServiceNext, NotifySteps
    <3>3. ASSUME overlap, Ended PROVE overlap' /\ Ended'
      BY <2>1, <3>3
         DEF Ended, ServiceNext, EntryStep, serviceEntry, ServiceEntry, ServiceControl, NotifySteps, Register, StartRunning,
             SpawnWorker, StillWaiting, Join, Unregister, RunReturns, Interrogate, Refuse, Accept,
             RequestStop, PauseOrContinue, ControlReturns, ControlStep, WriteField,
             SetServiceStatus, Deliver
    <3>4. ASSUME ~overlap, overlap' PROVE Ended'
      BY <2>1, <3>4
         DEF Ended, ServiceNext, ServiceEntry, ServiceControl, NotifySteps, Register, StartRunning,
             SpawnWorker, StillWaiting, Join, Unregister, RunReturns, Interrogate, Refuse, Accept,
             RequestStop, PauseOrContinue, ControlReturns, ControlStep, WriteField,
             SetServiceStatus, Deliver, EntryStep, serviceEntry
    <3> QED BY <3>1, <3>2, <3>3, <3>4 DEF ServiceSound
  <2>2. CASE UNCHANGED serviceVars
    <3>1. ASSUME ServiceInv PROVE ServiceInv'
      <4>1. Reporting' /\ Returned("main")' = Returned("main")
            /\ Returned("dispatcher")' = Returned("dispatcher")
        BY <2>2, <3>1, SilentStep DEF serviceVars
      <4> QED
        BY <2>2, <3>1, <4>1
           DEF serviceVars, ServiceInv, ServiceTypes, HandleIsSet, EntryReports, ControlReports,
               RunEnds, QuietBefore, QuietAfter, BusyBetween, Early, Ended, ExitCode,
               serviceEntry, serviceControl, runtimeState
    <3>2. ServiceTyped'
      BY <2>2 DEF ServiceSound, ServiceTyped, ServiceTypes, ReportTypes, Returned, serviceVars,
                  serviceEntry, serviceControl, runtimeState
    <3> QED BY <2>2, <3>1, <3>2 DEF ServiceSound, Ended, serviceVars, serviceEntry
  <2> QED BY <2>1, <2>2
<1> QED BY <1>1, <1>2, PTL DEF ServiceSpec

(* Two threads never write the status the SCM is given at the same time,    *)
(* no control is handled after a stop, and the exit the SCM is told of is   *)
(* the one of Run, or that the stop took too long: all unless Run ended by  *)
(* itself while ServiceControl was handling a control.                      *)
THEOREM ServiceReportsAreTrue ==
  ASSUME ServiceAssumption PROVE ServiceSpec => []ReportsAreTrue
<1>1. ServiceAssumption /\ ServiceSound => ReportsAreTrue
  <2> SUFFICES ASSUME ServiceAssumption, ServiceSound PROVE ReportsAreTrue
    OBVIOUS
  <2>1. ServiceTypeOK
    BY DEF ServiceAssumption, ServiceSound, ServiceTyped, ServiceTypes, ReportTypes, ServiceTypeOK
  <2>2. ReportsDoNotRace
    BY NoRace DEF ServiceSound, ReportsDoNotRace, Thread
  <2>3. ExitIsReported
    BY DEF ServiceSound, ServiceInv, RunEnds, QuietAfter, Ended, ExitIsReported, ExitCode
  <2>4. StopIsTheLastControl
    BY DEF ServiceSound, ServiceInv, QuietAfter, StopIsTheLastControl
  <2> QED BY <2>1, <2>2, <2>3, <2>4 DEF ReportsAreTrue
<1> QED BY ServiceInvariance, <1>1, PTL

(* The SCM sees no transition but those of ServiceStateMachine and the one  *)
(* to Stopped of a Run that ends by itself, unless that Run ended while     *)
(* ServiceControl was handling a control.                                   *)
THEOREM ServiceFollowsStateMachine ==
  ASSUME ServiceAssumption PROVE ServiceSpec => ReportsFollowStateMachine
<1> DEFINE Step == \/ overlap
                   \/ wire'.state \in Allowed[wire.state] \cup {wire.state}
                   \/ wire.state = "Running" /\ wire'.state = "ContinuePending"
                   \/ StopsByItself
<1>1. ServiceSound /\ [ServiceNext]_serviceVars => [Step]_wire
  <2> SUFFICES ASSUME ServiceInv, [ServiceNext]_serviceVars, wire' # wire PROVE Step
    BY DEF ServiceSound
  <2>1. ASSUME NEW t \in Thread, SetServiceStatus(t) PROVE Step
    <3>1. CASE t = "main"
      <4>1. ~Returned("main") /\ Returned("dispatcher") /\ wire' = report["main"]
        BY <2>1, <3>1, SetServiceStatusGives DEF Thread
      <4> QED
        BY <4>1 DEF ServiceInv, EntryReports, QuietBefore, QuietAfter, Early, Ended, Allowed,
                    StopsByItself
    <3>2. CASE t = "dispatcher"
      <4>1. ~Returned("dispatcher") /\ wire' = report["dispatcher"]
        BY <2>1, <3>2, SetServiceStatusGives
      <4>2. ~Early /\ ~stop /\ ~Ended
        BY <4>1, NoRace DEF ServiceInv, ControlReports, Control
      <4> QED
        BY <4>1, <4>2 DEF ServiceInv, ControlReports, BusyBetween, Allowed, PendingState, Control
    <3> QED BY <3>1, <3>2 DEF Thread
  <2>2. CASE Interrogate
    <3>1. control # "none" /\ Returned("dispatcher") /\ wire' = IF handle THEN status ELSE wire
      BY <2>2 DEF Interrogate, ControlStep
    <3>2. Returned("main")
      BY <3>1, NoRace
    <3> QED BY <3>1, <3>2 DEF ServiceInv, Reporting, WireIsStatus, Thread
  <2> QED
    BY <2>1, <2>2
       DEF ServiceNext, ServiceEntry, ServiceControl, NotifySteps, Register, StartRunning, SpawnWorker,
           StillWaiting, Join, Unregister, RunReturns, Refuse, Accept, RequestStop,
           PauseOrContinue, ControlReturns, WriteField, Deliver, Notify, serviceVars
<1> QED BY ServiceInvariance, <1>1, PTL DEF ServiceSpec, ReportsFollowStateMachine

-----------------------------------------------------------------------------
(* D3DHost: what a frame, and the callbacks in it, leave of state and device. *)

Gpu == [device : BOOLEAN, chain : {"none", "pixel", "small", "large"}, target : BOOLEAN]

D3DTypes ==
  /\ renderState \in {"empty", "ready", "minimized", "occluded", "device_lost", "rendering",
                "destroyed"}
  /\ gpu \in Gpu /\ size \in Size
  /\ window \in BOOLEAN /\ pending \in BOOLEAN /\ thrown \in BOOLEAN
  /\ rendering \in BOOLEAN /\ discarded \in BOOLEAN

(* A swap chain has its device, and a frame belongs to a window that is     *)
(* rendering or gone.                                                       *)
FramesBelong ==
  /\ gpu.chain # "none" => gpu.device
  /\ window => renderState \notin {"empty", "destroyed"}
  /\ rendering => renderState = IF window THEN "rendering" ELSE "destroyed"

(* The device is as the state says also while a frame runs, and the buffers *)
(* have the window's size unless a resize waits for the frame.              *)
DeviceIsAsStated ==
  window /\ ~discarded =>
    /\ ~rendering => renderState # "rendering" /\ ~pending
    /\ renderState \in {"ready", "occluded", "rendering"} =>
         /\ gpu.device /\ gpu.chain # "none"
         /\ gpu.target /\ size # "zero" /\ ~pending => gpu.chain = size

D3DInv == D3DTypes /\ FramesBelong /\ DeviceIsAsStated

-----------------------------------------------------------------------------
LEMMA NoGpuIsGpu == NoGpu \in Gpu /\ NoGpu.chain = "none"
  BY DEF NoGpu, Gpu

LEMMA D3DInitially == D3DInit => D3DInv
  BY NoGpuIsGpu DEF D3DInit, D3DInv, D3DTypes, FramesBelong, DeviceIsAsStated, Size

LEMMA CreatedIsGpu ==
  ASSUME NEW halt \in Stop, NEW s \in Size
  PROVE  /\ DeviceCreated(halt, s) \in Gpu
         /\ DeviceCreated(halt, s).chain # "none" => DeviceCreated(halt, s).device
         /\ halt = "none" => /\ DeviceCreated(halt, s).device
                             /\ DeviceCreated(halt, s).chain # "none"
                             /\ s # "zero" => DeviceCreated(halt, s).chain = s
<1>1. PICK g : g = DeviceCreated(halt, s)
  OBVIOUS
<1>2. g = [device |-> halt # "device",
           chain |-> IF halt \in {"device", "chain"} THEN "none" ELSE BufferSize(s),
           target |-> halt \in {"callback", "none"}]
  BY <1>1 DEF DeviceCreated
<1>3. /\ g.device = (halt # "device") /\ g.target = (halt \in {"callback", "none"})
      /\ g.chain = IF halt \in {"device", "chain"} THEN "none" ELSE BufferSize(s)
  BY <1>2
<1>4. g.chain \in {"none", "pixel", "small", "large"}
  BY <1>3 DEF BufferSize, Size
<1>5. g \in Gpu
  <2>1. g.device \in BOOLEAN
    <3>1. CASE halt = "device"
      BY <1>3, <3>1
    <3>2. CASE halt # "device"
      BY <1>3, <3>2
    <3> QED BY <3>1, <3>2
  <2>2. g.target \in BOOLEAN
    <3>1. CASE halt \in {"callback", "none"}
      BY <1>3, <3>1
    <3>2. CASE halt \notin {"callback", "none"}
      BY <1>3, <3>2
    <3> QED BY <3>1, <3>2
  <2>3. g = [device |-> g.device, chain |-> g.chain, target |-> g.target]
    BY <1>2, <1>3, Zenon
  <2> QED BY <1>4, <2>1, <2>2, <2>3, Zenon DEF Gpu
<1>6. g.chain # "none" => halt # "device"
  BY <1>3
<1>7. halt = "none" => g.chain = BufferSize(s) /\ BufferSize(s) # "none"
  BY <1>3 DEF BufferSize, Size
<1> QED BY <1>1, <1>3, <1>5, <1>6, <1>7 DEF BufferSize

(* RecoverDevice leaves a host that is ready, or has lost its device.       *)
LEMMA RecoverDeviceRecovers ==
  ASSUME D3DTypes, NEW s, s \in {"occluded", "device_lost", "ready"}, RecoverDevice(s)
  PROVE  /\ gpu' \in Gpu /\ thrown' \in BOOLEAN /\ pending' = FALSE
         /\ renderState' \in {"ready", "device_lost"}
         /\ gpu'.chain # "none" => gpu'.device
         /\ renderState' = "ready" => /\ gpu'.device /\ gpu'.chain # "none"
                                      /\ size # "zero" => gpu'.chain = size
<1>1. PICK halt \in Stop, throws \in BOOLEAN :
        /\ gpu' = DeviceCreated(halt, size)
        /\ renderState' = IF halt = "none" THEN MarkReady(s) ELSE MarkDeviceLost(s)
        /\ thrown' = (thrown \/ halt = "callback" \/ (gpu.device /\ throws))
        /\ pending' = FALSE
  BY DEF RecoverDevice
<1>2. renderState' = IF halt = "none" THEN "ready" ELSE "device_lost"
  BY <1>1 DEF MarkReady, MarkDeviceLost
<1>3. thrown' \in BOOLEAN
  BY <1>1, Zenon DEF D3DTypes
<1>4. size \in Size
  BY DEF D3DTypes
<1> QED BY <1>1, <1>2, <1>3, <1>4, CreatedIsGpu

(* ResizeSwapChain keeps what DeviceIsAsStated says of a host in state s.   *)
LEMMA ResizeSwapChainResizes ==
  ASSUME D3DTypes, FramesBelong, NEW newSize \in Size,
         NEW s \in {"ready", "minimized", "occluded", "device_lost"},
         ResizeSwapChain(s, newSize)
  PROVE  /\ gpu' \in Gpu /\ thrown' \in BOOLEAN
         /\ renderState' \in {"ready", "minimized", "occluded", "device_lost"}
         /\ gpu'.chain # "none" => gpu'.device
         /\ (s \in {"ready", "occluded"} => gpu.chain # "none")
              => (renderState' \in {"ready", "occluded"} =>
                    /\ gpu'.device /\ gpu'.chain # "none"
                    /\ gpu'.target /\ newSize # "zero" => gpu'.chain = newSize)
<1>1. CASE newSize = "zero"
  BY <1>1 DEF ResizeSwapChain, MarkMinimized, D3DTypes, FramesBelong
<1>2. CASE newSize # "zero" /\ gpu.chain = "none"
  BY <1>2 DEF ResizeSwapChain, D3DTypes, FramesBelong
<1>3. CASE newSize # "zero" /\ gpu.chain # "none"
  <2>1. CASE /\ gpu' = [gpu EXCEPT !.chain = newSize, !.target = TRUE]
             /\ renderState' = MarkReady(s) /\ UNCHANGED thrown
    BY <1>3, <2>1 DEF MarkReady, D3DTypes, FramesBelong, Gpu, Size
  <2>2. ASSUME NEW resized \in {gpu.chain, newSize},
               gpu' = [gpu EXCEPT !.chain = resized, !.target = FALSE],
               renderState' = s, UNCHANGED thrown
        PROVE  /\ gpu' \in Gpu /\ thrown' \in BOOLEAN /\ renderState' = s
               /\ gpu'.device /\ gpu'.chain # "none" /\ ~gpu'.target
    BY <1>3, <2>2 DEF D3DTypes, FramesBelong, Gpu, Size
  <2>3. ASSUME NEW halt \in Stop, NEW throws \in BOOLEAN, gpu' = DeviceCreated(halt, newSize),
               renderState' = IF halt = "none" THEN MarkReady("device_lost") ELSE "device_lost",
               thrown' = (thrown \/ halt = "callback" \/ throws)
        PROVE  /\ gpu' \in Gpu /\ thrown' \in BOOLEAN
               /\ renderState' \in {"ready", "device_lost"}
               /\ gpu'.chain # "none" => gpu'.device
               /\ renderState' = "ready" => gpu'.device /\ gpu'.chain # "none" /\ gpu'.chain = newSize
    <3>1. thrown' \in BOOLEAN
      BY <2>3, Zenon DEF D3DTypes
    <3> QED BY <1>3, <2>3, <3>1, CreatedIsGpu DEF MarkReady
  <2> QED BY <1>3, <2>1, <2>2, <2>3 DEF ResizeSwapChain
<1> QED BY <1>1, <1>2, <1>3

LEMMA WindowKeepsInvariant ==
  ASSUME D3DInv, (\E s \in Size : CreateHost(s) \/ Resize(s)) \/ DiscardDevice \/ DestroyWindow
  PROVE  D3DInv'
<1>1. ASSUME NEW s \in Size, CreateHost(s) PROVE D3DInv'
  <2>1. CASE gpu' = DeviceCreated("none", s) /\ renderState' = "ready" /\ window' = TRUE /\ thrown' = FALSE
    <3>1. /\ gpu' \in Gpu /\ gpu'.device /\ gpu'.chain # "none"
          /\ s # "zero" => gpu'.chain = s
      BY <2>1, CreatedIsGpu DEF Stop
    <3> QED BY <1>1, <2>1, <3>1 DEF CreateHost, D3DInv, D3DTypes, FramesBelong, DeviceIsAsStated
  <2>2. CASE gpu' = NoGpu /\ renderState' = "destroyed" /\ window' = FALSE /\ thrown' \in BOOLEAN
    BY <1>1, <2>2 DEF CreateHost, D3DInv, D3DTypes, FramesBelong, DeviceIsAsStated, NoGpu, Gpu
  <2> QED BY <1>1, <2>1, <2>2 DEF CreateHost
<1>2. ASSUME NEW s \in Size, Resize(s) PROVE D3DInv'
  <2>1. CASE renderState = "rendering"
    BY <1>2, <2>1 DEF Resize, D3DInv, D3DTypes, FramesBelong, DeviceIsAsStated
  <2>2. CASE renderState # "rendering"
    <3>1. /\ window /\ ~rendering /\ renderState \in {"ready", "minimized", "occluded", "device_lost"}
          /\ size' = s /\ ResizeSwapChain(renderState, s)
          /\ UNCHANGED <<pending, window, rendering, discarded>>
      BY <1>2, <2>2 DEF Resize, D3DInv, D3DTypes, FramesBelong
    <3>2. PICK old \in {"ready", "minimized", "occluded", "device_lost"} : old = renderState
      BY <3>1
    <3>3. /\ gpu' \in Gpu /\ thrown' \in BOOLEAN
          /\ renderState' \in {"ready", "minimized", "occluded", "device_lost"}
          /\ gpu'.chain # "none" => gpu'.device
          /\ (old \in {"ready", "occluded"} => gpu.chain # "none")
               => (renderState' \in {"ready", "occluded"} =>
                     /\ gpu'.device /\ gpu'.chain # "none"
                     /\ gpu'.target /\ s # "zero" => gpu'.chain = s)
      BY <3>1, <3>2, ResizeSwapChainResizes DEF D3DInv
    <3> QED
      BY <3>1, <3>2, <3>3 DEF D3DInv, D3DTypes, FramesBelong, DeviceIsAsStated
  <2> QED BY <2>1, <2>2
<1>3. CASE DiscardDevice
  BY <1>3 DEF DiscardDevice, D3DInv, D3DTypes, FramesBelong, DeviceIsAsStated, NoGpu, Gpu
<1>4. CASE DestroyWindow
  BY <1>4 DEF DestroyWindow, D3DInv, D3DTypes, FramesBelong, DeviceIsAsStated, NoGpu, Gpu
<1> QED BY <1>1, <1>2, <1>3, <1>4

LEMMA FrameKeepsInvariant ==
  ASSUME D3DInv,
         \/ RenderMinimized \/ RenderRecovers \/ BeginFrame
         \/ FrameThrows \/ FrameCancelled \/ TakeCallbackException
         \/ \E result \in {"presented", "occluded", "lost", "failed"} : FramePresented(result)
  PROVE  D3DInv'
<1> USE DEF D3DInv, D3DTypes, FramesBelong, DeviceIsAsStated
<1>1. CASE RenderMinimized
  BY <1>1 DEF RenderMinimized, MarkMinimized
<1>2. CASE RenderRecovers
  <2>1. PICK s \in {"occluded", "device_lost", "ready"} : s = renderState
    BY <1>2 DEF RenderRecovers
  <2>2. RecoverDevice(s) /\ window /\ ~rendering /\ UNCHANGED <<size, window, rendering, discarded>>
    BY <1>2, <2>1 DEF RenderRecovers
  <2>3. /\ gpu' \in Gpu /\ thrown' \in BOOLEAN /\ pending' = FALSE
        /\ renderState' \in {"ready", "device_lost"}
        /\ gpu'.chain # "none" => gpu'.device
        /\ renderState' = "ready" => /\ gpu'.device /\ gpu'.chain # "none"
                                     /\ size # "zero" => gpu'.chain = size
    BY <2>2, RecoverDeviceRecovers
  <2> QED BY <2>2, <2>3
<1>3. CASE BeginFrame
  BY <1>3 DEF BeginFrame
<1>4. CASE FrameThrows
  BY <1>4 DEF FrameThrows
<1>5. CASE FrameCancelled
  BY <1>5 DEF FrameCancelled
<1>6. CASE TakeCallbackException
  BY <1>6 DEF TakeCallbackException
<1>7. ASSUME NEW result \in {"presented", "occluded", "lost", "failed"}, FramePresented(result)
      PROVE  D3DInv'
  <2>1. /\ rendering /\ window /\ renderState = "rendering" /\ gpu.chain # "none"
        /\ rendering' = FALSE /\ pending' = FALSE
        /\ UNCHANGED <<size, window, discarded>>
    BY <1>7 DEF FramePresented
  <2>2. PICK s \in {"ready", "occluded", "device_lost"} : s = EndFrame(result)
    BY DEF EndFrame
  <2>3. CASE result = "lost"
    <3>1. RecoverDevice(s)
      BY <1>7, <2>2, <2>3 DEF FramePresented
    <3>2. /\ gpu' \in Gpu /\ thrown' \in BOOLEAN
          /\ renderState' \in {"ready", "device_lost"}
          /\ gpu'.chain # "none" => gpu'.device
          /\ renderState' = "ready" => /\ gpu'.device /\ gpu'.chain # "none"
                                       /\ size # "zero" => gpu'.chain = size
      BY <3>1, RecoverDeviceRecovers
    <3> QED BY <2>1, <3>2
  <2>4. CASE result # "lost" /\ pending
    <3>1. PICK new \in Size : new = size
      OBVIOUS
    <3>2. ResizeSwapChain(s, new)
      BY <1>7, <2>2, <2>4, <3>1 DEF FramePresented
    <3>3. /\ gpu' \in Gpu /\ thrown' \in BOOLEAN
          /\ renderState' \in {"ready", "minimized", "occluded", "device_lost"}
          /\ gpu'.chain # "none" => gpu'.device
          /\ (s \in {"ready", "occluded"} => gpu.chain # "none")
               => (renderState' \in {"ready", "occluded"} =>
                     /\ gpu'.device /\ gpu'.chain # "none"
                     /\ gpu'.target /\ new # "zero" => gpu'.chain = new)
      BY <3>2, ResizeSwapChainResizes
    <3> QED BY <2>1, <3>1, <3>3
  <2>5. CASE result # "lost" /\ ~pending
    <3>1. renderState' = s /\ UNCHANGED <<gpu, thrown>>
      BY <1>7, <2>2, <2>5 DEF FramePresented
    <3> QED BY <2>1, <2>5, <3>1
  <2> QED BY <2>3, <2>4, <2>5
<1> QED BY <1>1, <1>2, <1>3, <1>4, <1>5, <1>6, <1>7

(* D3DInv holds: state, device and buffers agree also while a frame runs    *)
(* (D3DHost::RenderFrame and the messages within it).                       *)
THEOREM D3DInvariance == D3DSpec => []D3DInv
<1>1. D3DInv /\ [D3DNext]_d3dVars => D3DInv'
  <2> SUFFICES ASSUME D3DInv, [D3DNext]_d3dVars PROVE D3DInv'
    OBVIOUS
  <2>1. CASE D3DNext
    BY <2>1, WindowKeepsInvariant, FrameKeepsInvariant DEF D3DNext
  <2>2. CASE UNCHANGED d3dVars
    BY <2>2 DEF d3dVars, D3DInv, D3DTypes, FramesBelong, DeviceIsAsStated
  <2> QED BY <2>1, <2>2
<1> QED BY D3DInitially, <1>1, PTL DEF D3DSpec

(* Between frames the state of the host tells what its device, its buffers  *)
(* and its window are like, whatever the callbacks did and whatever failed. *)
THEOREM D3DStateIsTrue == D3DSpec => []BetweenFrames
<1>1. D3DInv => BetweenFrames
  BY DEF D3DInv, D3DTypes, FramesBelong, DeviceIsAsStated, BetweenFrames
<1> QED BY D3DInvariance, <1>1, PTL

-----------------------------------------------------------------------------
(* ProcessOutput: nothing is lost between the child and a completed result. *)

ProcessTypes ==
  /\ output \in Seq(Stream)
  /\ process \in {"launching", "running", "exited"}
  /\ writers \in [Stream -> SUBSET {"parent", "child", "helper"}]
  /\ pipes \in [Stream -> 0..PipeSize]
  /\ written \in [Stream -> Nat] /\ kept \in [Stream -> Nat]
  /\ drains \in [Stream -> {"none", "reading", "ended", "interrupted"}]

(* What is in neither the pipe nor the result was more than the maximum.    *)
NothingIsLost ==
  \A s \in Stream :
    /\ pipes[s] <= written[s]
    /\ kept[s] = IF written[s] - pipes[s] < Maximum THEN written[s] - pipes[s] ELSE Maximum

(* A thread that has ended has seen its pipe empty and without a writer, so *)
(* that nothing follows: the child writes only while it holds its end.      *)
EndIsTheEnd ==
  /\ process = "running" => \A s \in Stream : "child" \in writers[s]
  /\ \A s \in Stream : drains[s] # "none" => process # "launching"
  /\ \A s \in Stream : drains[s] = "ended" => pipes[s] = 0 /\ writers[s] = {}

CompletedMeansExited ==
  /\ waiting = "completed" => process = "exited"
  /\ collected = "completed" =>
       process = "exited" /\ \A s \in Stream : drains[s] = "ended"

ProcessInv == ProcessTypes /\ NothingIsLost /\ EndIsTheEnd /\ CompletedMeansExited

LEMMA ProcessInitially == ASSUME ProcessAssumption PROVE ProcessInit => ProcessInv
<1> SUFFICES ASSUME ProcessInit PROVE ProcessInv
  OBVIOUS
<1>1. output \in Seq(Stream)
  <2>1. PICK n \in 0..PipeSize + 2 : output \in [1..n -> Stream]
    BY DEF ProcessInit
  <2>2. n \in Nat
    BY <2>1 DEF ProcessAssumption
  <2> QED BY <2>1, <2>2
<1> QED
  BY <1>1 DEF ProcessAssumption, ProcessInit, ProcessInv, ProcessTypes, NothingIsLost,
              EndIsTheEnd, CompletedMeansExited

LEMMA ProcessStep ==
  ASSUME ProcessAssumption, ProcessInv, [ProcessNext]_processVars PROVE ProcessInv'
<1> USE DEF ProcessAssumption, ProcessInv, ProcessTypes, NothingIsLost, EndIsTheEnd,
            CompletedMeansExited
<1>1. CASE Launch
  <2>1. PICK holders \in SUBSET {"parent", "child", "helper"} :
          "child" \in holders /\ writers' = [s \in Stream |-> holders]
    BY <1>1 DEF Launch
  <2> QED BY <1>1, <2>1 DEF Launch
<1>2. CASE ChildWrites
  <2>1. PICK s \in Stream : s = Head(output)
    BY <1>2 DEF ChildWrites
  <2>2. /\ pipes[s] < PipeSize /\ pipes' = [pipes EXCEPT ![s] = @ + 1]
        /\ written' = [written EXCEPT ![s] = @ + 1] /\ process = "running"
        /\ UNCHANGED <<process, writers, kept, drains, waiting, collected>>
    BY <1>2, <2>1 DEF ChildWrites
  <2>3. Tail(output) \in Seq(Stream)
    BY <1>2, HeadTailProperties DEF ChildWrites
  <2>4. output' \in Seq(Stream)
    BY <1>2, <2>3 DEF ChildWrites
  <2> QED BY <2>2, <2>4
<1>3. CASE ChildExits
  BY <1>3 DEF ChildExits
<1>4. CASE HelperExits
  BY <1>4 DEF HelperExits
<1>5. CASE Interrupt
  BY <1>5 DEF Interrupt
<1>6. ASSUME NEW s \in Stream, Drain(s) PROVE ProcessInv'
  <2>1. /\ drains[s] = "reading" /\ pipes[s] > 0
        /\ pipes' = [pipes EXCEPT ![s] = pipes[s] - 1]
        /\ kept' = [kept EXCEPT ![s] = IF kept[s] < Maximum THEN kept[s] + 1 ELSE kept[s]]
        /\ UNCHANGED <<output, process, writers, written, drains, waiting, collected>>
    BY <1>6 DEF Drain
  <2>2. pipes[s] \in 1..PipeSize /\ written[s] \in Nat /\ kept[s] \in Nat
    BY <2>1
  <2>3. /\ pipes'[s] = pipes[s] - 1 /\ \A r \in Stream \ {s} : pipes'[r] = pipes[r]
        /\ kept'[s] = (IF kept[s] < Maximum THEN kept[s] + 1 ELSE kept[s])
        /\ \A r \in Stream \ {s} : kept'[r] = kept[r]
    BY <2>1
  <2>4. pipes' \in [Stream -> 0..PipeSize] /\ kept' \in [Stream -> Nat]
    BY <2>1, <2>2
  <2>5. NothingIsLost'
    <3>1. /\ pipes'[s] <= written[s]
          /\ kept'[s] = IF written[s] - pipes'[s] < Maximum THEN written[s] - pipes'[s]
                        ELSE Maximum
      BY <2>2, <2>3
    <3> QED BY <2>1, <2>3, <3>1
  <2> QED BY <2>1, <2>3, <2>4, <2>5
<1>7. ASSUME NEW s \in Stream, DrainEnds(s) PROVE ProcessInv'
  <2>1. CASE /\ pipes[s] = 0 /\ writers[s] = {}
             /\ drains' = [drains EXCEPT ![s] = "ended"]
    BY <1>7, <2>1 DEF DrainEnds
  <2>2. CASE drains' = [drains EXCEPT ![s] = "interrupted"]
    BY <1>7, <2>2 DEF DrainEnds
  <2> QED BY <1>7, <2>1, <2>2 DEF DrainEnds
<1>8. CASE WaitEnds
  BY <1>8 DEF WaitEnds
<1>9. CASE Collect
  BY <1>9 DEF Collect
<1>10. CASE UNCHANGED processVars
  BY <1>10 DEF processVars
<1> QED
  BY <1>1, <1>2, <1>3, <1>4, <1>5, <1>6, <1>7, <1>8, <1>9, <1>10 DEF ProcessNext

(* A completed CollectOutput has all the child wrote, up to the maximum,    *)
(* for any streams, any size of the pipes and any maximum (CollectOutput,   *)
(* DrainPipe).                                                              *)
THEOREM OutputIsWhole == ASSUME ProcessAssumption PROVE ProcessSpec => []OutputIsComplete
<1>1. ProcessInv => OutputIsComplete
  BY DEF ProcessAssumption, ProcessInv, ProcessTypes, NothingIsLost, EndIsTheEnd,
         CompletedMeansExited, OutputIsComplete
<1> QED BY ProcessInitially, ProcessStep, <1>1, PTL DEF ProcessSpec

-----------------------------------------------------------------------------
(* PropertySheet: the result is that of the pages the sheet has asked.      *)

PageState == [bound : BOOLEAN, created : BOOLEAN, dirty : BOOLEAN, model : BOOLEAN,
              changed : BOOLEAN]

SheetTypes ==
  /\ pages \in [Page -> PageState]
  /\ active \in Page \cup {NoPage}
  /\ request \in [kind : {"none", "ok", "apply", "cancel"}, todo : SUBSET Page]
  /\ posted \in BOOLEAN

(* There is a sheet while a page is shown; a page has a window in a sheet.  *)
PagesBelong ==
  /\ \A p \in Page : /\ pages[p].bound <=> active # NoPage
                     /\ pages[p].created => pages[p].bound
                     /\ pages[p].changed => pages[p].created
  /\ active # NoPage => pages[active].created /\ ended = "none"
  /\ active = NoPage => request = Quiet
  /\ request.kind = "none" \/ posted => request = Quiet

(* A page whose callback failed when it was shown is not marked as changed: *)
(* the Cancel that follows takes its sheet away.                            *)
PagesAgree ==
  \A p \in Page :
    /\ pages[p].bound => (pages[p].model <=> pages[p].dirty)
    /\ active # NoPage /\ ~posted /\ request.kind # "cancel" =>
         (pages[p].changed <=> pages[p].created /\ pages[p].dirty)

(* The result is that of the pages that were asked, if one was.             *)
ResultFollows ==
  /\ request.kind = "ok" => request.todo # {} \/ sheetStatus = "accepted"
  /\ request.kind = "cancel" => request.todo # {} \/ sheetStatus # "accepted"
  /\ ended = "ok" => sheetStatus = "accepted"
  /\ ended = "cancel" => sheetStatus # "accepted"

SheetInv == SheetTypes /\ PagesBelong /\ PagesAgree /\ ResultFollows

LEMMA PageStateIsTyped ==
  /\ \A b, c, d, m, e \in BOOLEAN :
       [bound |-> b, created |-> c, dirty |-> d, model |-> m, changed |-> e] \in PageState
  /\ \A page \in PageState :
       /\ page.bound \in BOOLEAN /\ page.created \in BOOLEAN /\ page.dirty \in BOOLEAN
       /\ page.model \in BOOLEAN /\ page.changed \in BOOLEAN
       /\ page = [bound |-> page.bound, created |-> page.created, dirty |-> page.dirty,
                  model |-> page.model, changed |-> page.changed]
  BY DEF PageState

LEMMA SheetInitially == ASSUME SheetAssumption PROVE SheetInit => SheetInv
<1> SUFFICES ASSUME SheetInit PROVE SheetInv
  OBVIOUS
<1>1. [bound |-> FALSE, created |-> FALSE, dirty |-> FALSE, model |-> FALSE,
       changed |-> FALSE] \in PageState
  BY PageStateIsTyped
<1>2. pages \in [Page -> PageState]
  BY <1>1 DEF SheetInit
<1> QED
  BY <1>2 DEF SheetAssumption, SheetInit, SheetInv, SheetTypes, PagesBelong, PagesAgree,
              ResultFollows, Quiet

LEMMA AskedIsNext ==
  ASSUME SheetAssumption, SheetTypes, request.todo # {} PROVE Asked \in request.todo
<1>1. PICK some \in SUBSET Page : some = request.todo
  BY DEF SheetTypes
<1>2. \E p \in some : \A q \in some : p <= q
  BY <1>1 DEF SheetAssumption
<1>3. Min(some) \in some
  BY <1>2 DEF Min
<1> QED BY <1>1, <1>3 DEF Asked

(* A page that is changed in one of the ways the actions know is a page.    *)
LEMMA PagesStayTyped ==
  ASSUME NEW page \in PageState, NEW a \in BOOLEAN, NEW b \in BOOLEAN, NEW c \in BOOLEAN
  PROVE  /\ [page EXCEPT !.dirty = a, !.model = b, !.changed = c] \in PageState
         /\ [page EXCEPT !.dirty = a, !.model = b] \in PageState
         /\ [page EXCEPT !.bound = a, !.model = b] \in PageState
         /\ [page EXCEPT !.created = a, !.changed = b] \in PageState
         /\ [page EXCEPT !.bound = a, !.created = b, !.changed = c] \in PageState
<1>1. PICK Flag : Flag = BOOLEAN
  OBVIOUS
<1>2. PageState = [bound : Flag, created : Flag, dirty : Flag, model : Flag, changed : Flag]
  BY <1>1, Zenon DEF PageState
<1>3. a \in Flag /\ b \in Flag /\ c \in Flag
  BY <1>1, Zenon
<1>4. [page EXCEPT !.dirty = a, !.model = b, !.changed = c] \in PageState
  BY <1>2, <1>3
<1>5. [page EXCEPT !.dirty = a, !.model = b] \in PageState
  BY <1>2, <1>3
<1>6. [page EXCEPT !.bound = a, !.model = b] \in PageState
  BY <1>2, <1>3
<1>7. [page EXCEPT !.created = a, !.changed = b] \in PageState
  BY <1>2, <1>3
<1>8. [page EXCEPT !.bound = a, !.created = b, !.changed = c] \in PageState
  BY <1>2, <1>3
<1> QED BY <1>4, <1>5, <1>6, <1>7, <1>8

LEMMA SheetStep ==
  ASSUME SheetAssumption, SheetInv, [SheetNext]_sheetVars PROVE SheetInv'
<1> USE DEF SheetAssumption, SheetInv, SheetTypes, PagesBelong, PagesAgree, ResultFollows,
            Quiet, Waiting
<1>0. \A p \in Page : /\ pages[p] \in PageState
                      /\ pages[p].bound \in BOOLEAN /\ pages[p].created \in BOOLEAN
                      /\ pages[p].dirty \in BOOLEAN /\ pages[p].model \in BOOLEAN
                      /\ pages[p].changed \in BOOLEAN
  BY PageStateIsTyped
<1>1. ASSUME NEW p \in Page, NEW dirty \in BOOLEAN, SetDirty(p, dirty) PROVE SheetInv'
  <2>1. PICK m \in BOOLEAN, c \in BOOLEAN :
          /\ m = IF pages[p].bound THEN dirty ELSE pages[p].model
          /\ c = IF pages[p].created THEN dirty ELSE pages[p].changed
    BY <1>0
  <2>2. pages' = [pages EXCEPT ![p].dirty = dirty, ![p].model = m, ![p].changed = c]
    BY <1>1, <2>1 DEF SetDirty, PageState
  <2>3. pages' = [pages EXCEPT ![p] = [pages[p] EXCEPT !.dirty = dirty, !.model = m,
                                                       !.changed = c]]
    BY <2>2
  <2>4. pages' \in [Page -> PageState]
    BY <1>0, <2>3, PagesStayTyped
  <2>5. \A q \in Page :
          /\ pages'[q].bound = pages[q].bound /\ pages'[q].created = pages[q].created
          /\ pages'[q].dirty = IF q = p THEN dirty ELSE pages[q].dirty
          /\ pages'[q].model = IF q = p THEN m ELSE pages[q].model
          /\ pages'[q].changed = IF q = p THEN c ELSE pages[q].changed
    BY <1>0, <2>3 DEF PageState
  <2>6. UNCHANGED <<sheetStatus, active, request, posted, ended>>
    BY <1>1 DEF SetDirty
  <2>7. SheetTypes'
    BY <2>4, <2>6
  <2>8. PagesBelong'
    BY <2>5, <2>6, <1>0, <2>1
  <2>9. PagesAgree'
    BY <2>5, <2>6, <1>0, <2>1
  <2> QED BY <2>6, <2>7, <2>8, <2>9
<1>2. ASSUME NEW p \in Page, NEW failed \in BOOLEAN, Show(p, failed) PROVE SheetInv'
  <2>1. PICK c \in BOOLEAN : c = (~failed /\ pages[p].dirty)
    BY <1>0, Zenon
  <2>2. PICK bound \in [Page -> PageState] :
          bound = [q \in Page |-> [pages[q] EXCEPT !.bound = TRUE, !.model = pages[q].dirty]]
    <3>1. \A q \in Page : [pages[q] EXCEPT !.bound = TRUE, !.model = pages[q].dirty] \in PageState
      BY <1>0, PagesStayTyped
    <3> QED BY <3>1
  <2>3. \A q \in Page : /\ bound[q].bound /\ bound[q].created = pages[q].created
                        /\ bound[q].dirty = pages[q].dirty /\ bound[q].model = pages[q].dirty
                        /\ bound[q].changed = pages[q].changed
    <3> TAKE q \in Page
    <3>1. bound[q] = [pages[q] EXCEPT !.bound = TRUE, !.model = pages[q].dirty]
      BY <2>2
    <3>2. bound[q].bound = TRUE
      BY <1>0, <3>1 DEF PageState
    <3>3. bound[q].model = pages[q].dirty
      BY <1>0, <3>1 DEF PageState
    <3>4. /\ bound[q].created = pages[q].created /\ bound[q].dirty = pages[q].dirty
          /\ bound[q].changed = pages[q].changed
      BY <1>0, <3>1 DEF PageState
    <3> QED BY <3>2, <3>3, <3>4
  <2>4. pages' = [bound EXCEPT ![p] = [bound[p] EXCEPT !.created = TRUE, !.changed = c]]
    <3>1. pages' = Shown(bound, p, failed)
      BY <1>2, <2>2, Zenon DEF Show
    <3>2. c = (~failed /\ bound[p].dirty)
      BY <2>1, <2>3, Zenon
    <3>3. pages' = [bound EXCEPT ![p].created = TRUE, ![p].changed = c]
      BY <3>1, <3>2, Zenon DEF Shown
    <3> QED BY <2>2, <3>3 DEF PageState
  <2>5. pages' \in [Page -> PageState]
    BY <2>4, PagesStayTyped
  <2>6. /\ active' = p /\ ended' = "none" /\ request' = Quiet /\ posted' = failed
        /\ active = NoPage
    BY <1>2 DEF Show
  <2>7. \A q \in Page : /\ pages'[q].bound /\ (pages'[q].created <=> q = p)
                        /\ pages'[q].dirty = pages[q].dirty
                        /\ pages'[q].model = pages[q].dirty
                        /\ pages'[q].changed <=> (q = p /\ c)
    BY ZenonT(60), <1>0, <2>2, <2>3, <2>4, <2>6 DEF PageState
  <2> QED BY <1>0, <2>1, <2>5, <2>6, <2>7
<1>3. ASSUME NEW p \in Page, NEW failed \in BOOLEAN, SelectPage(p, failed) PROVE SheetInv'
  <2>1. PICK c \in BOOLEAN : c = (~failed /\ pages[p].dirty)
    BY <1>0, Zenon
  <2>2. CASE pages[p].created
    BY <1>3, <2>2 DEF SelectPage
  <2>3. CASE ~pages[p].created
    <3>1. pages' = [pages EXCEPT ![p] = [pages[p] EXCEPT !.created = TRUE, !.changed = c]]
      BY ZenonT(60), <1>0, <1>3, <2>1, <2>3 DEF SelectPage, Shown, PageState
    <3>2. pages' \in [Page -> PageState]
      BY <1>0, <3>1, PagesStayTyped
    <3> QED BY <1>0, <1>3, <2>1, <2>3, <3>1, <3>2 DEF SelectPage, PageState
  <2> QED BY <2>2, <2>3
<1>4. CASE ShowFails
  BY <1>4 DEF ShowFails
<1>5. ASSUME NEW presses \in BOOLEAN, CallbackThrows(presses) PROVE SheetInv'
  BY <1>5 DEF CallbackThrows
<1>6. ASSUME NEW kind \in {"ok", "apply"}, Press(kind) PROVE SheetInv'
  BY <1>6 DEF Press, Created
<1>7. ASSUME NEW why \in {"invalid", "failed", "throws"}, ApplyRefused(why) PROVE SheetInv'
  <2>1. posted' \in BOOLEAN
    BY <1>7, Zenon DEF ApplyRefused
  <2>2. /\ posted' \in BOOLEAN /\ request' = Quiet /\ UNCHANGED <<pages, active, ended>>
        /\ active # NoPage /\ ~posted /\ request.kind # "cancel"
    BY <1>7, <2>1 DEF ApplyRefused
  <2> QED BY <2>2
<1>8. CASE Applied
  <2>1. PICK p \in Page : p = Asked
    BY <1>8, AskedIsNext DEF Applied
  <2>2. pages' = [pages EXCEPT ![p] = [pages[p] EXCEPT !.dirty = FALSE, !.model = FALSE,
                                                       !.changed = FALSE]]
    BY <1>8, <2>1 DEF Applied
  <2>3. pages' \in [Page -> PageState]
    BY <1>0, <2>2, PagesStayTyped
  <2> QED BY <1>8, <2>1, <2>2, <2>3 DEF Applied, PageState
<1>9. CASE PressCancel
  BY <1>9 DEF PressCancel, Created
<1>10. ASSUME NEW throws \in BOOLEAN, Reset(throws) PROVE SheetInv'
  <2>1. PICK p \in Page : p = Asked
    BY <1>10, AskedIsNext DEF Reset, ResetPage
  <2>2. pages' = IF throws THEN pages
                 ELSE [pages EXCEPT ![p] = [pages[p] EXCEPT !.dirty = FALSE, !.model = FALSE]]
    BY <1>10, <2>1 DEF Reset, ResetPage
  <2>3. pages' \in [Page -> PageState]
    BY <1>0, <2>2, PagesStayTyped
  <2> QED BY <1>10, <2>1, <2>2, <2>3 DEF Reset, ResetPage, PageState
<1>11. ASSUME NEW how \in {"ok", "cancel", "destroyed"}, Gone(how),
              how = "ok" => sheetStatus = "accepted", how = "cancel" => sheetStatus # "accepted"
       PROVE  SheetInv'
  <2>1. pages' = [p \in Page |-> [pages[p] EXCEPT !.bound = FALSE, !.created = FALSE,
                                                  !.changed = FALSE]]
    BY <1>11 DEF Gone
  <2>2. pages' \in [Page -> PageState]
    BY <1>0, <2>1, PagesStayTyped
  <2>3. \A p \in Page : ~pages'[p].bound /\ ~pages'[p].created /\ ~pages'[p].changed
    BY ZenonT(60), <1>0, <2>1 DEF PageState
  <2>4. /\ active' = NoPage /\ request' = Quiet /\ posted' = FALSE /\ ended' = how
        /\ sheetStatus' = sheetStatus
    BY <1>11 DEF Gone
  <2> QED BY <1>11, <2>2, <2>3, <2>4
<1>12. CASE Answered
  BY <1>11, <1>12 DEF Answered
<1>13. CASE OwnerDestroyed
  BY <1>11, <1>13 DEF OwnerDestroyed
<1>14. CASE UNCHANGED sheetVars
  BY <1>14 DEF sheetVars
<1> QED
  BY <1>1, <1>2, <1>3, <1>4, <1>5, <1>6, <1>7, <1>8, <1>9, <1>10, <1>12, <1>13, <1>14
     DEF SheetNext

(* The result of a sheet, and what its pages are marked with, are true for  *)
(* any pages, whatever the callbacks answer and wherever they throw         *)
(* (PropertySheetDialog::PageProcedure).                                    *)
THEOREM SheetResultIsTrue == ASSUME SheetAssumption PROVE SheetSpec => []ResultIsTrue
<1>1. SheetInv => ResultIsTrue
  BY DEF SheetInv, SheetTypes, PageState, PagesBelong, PagesAgree, ResultFollows, ResultIsTrue,
         Waiting, Quiet
<1> QED BY SheetInitially, SheetStep, <1>1, PTL DEF SheetSpec
=============================================================================
