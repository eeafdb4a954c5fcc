---------------------------- MODULE PipeListener ----------------------------
(***************************************************************************)
(* mwfl::PipeListener and ConnectPipe: a server that accepts clients on a   *)
(* named pipe, one at a time.  The listener owns one instance of the pipe;  *)
(* Accept waits for a client on it, creates the next instance and hands the *)
(* connected one to the caller.                                             *)
(*                                                                          *)
(* The instance follows the system's rules: a client opens it only while it *)
(* has none, and once that client has closed it again without having been   *)
(* accepted, ConnectNamedPipe answers ERROR_NO_DATA from then on.           *)
(***************************************************************************)
EXTENDS Naturals

CONSTANTS
  Client,
  NoClient,
  Patient,    \* clients that retry without a deadline
  Deserting,  \* clients that may leave before they are accepted
  MaxFaults   \* bound on failures to create an instance, and on timeouts

VARIABLES
  instance,   \* the listener's instance: "free", "opened" or "deserted"
  holder,     \* the client that opened it
  accept,     \* "idle", "waiting", "connected", or "error" for a failed Accept
  client,     \* each client: "away", "retrying", "open", "served" or "gone"
  faults

pipeVars == <<instance, holder, accept, client, faults>>

PipeTypeOK ==
  /\ instance \in {"free", "opened", "deserted"}
  /\ holder \in Client \cup {NoClient}
  /\ accept \in {"idle", "waiting", "connected", "error"}
  /\ client \in [Client -> {"away", "retrying", "open", "served", "gone"}]
  /\ faults \in 0..MaxFaults

PipeInit ==
  /\ instance = "free"
  /\ holder = NoClient
  /\ accept = "idle"
  /\ client = [c \in Client |-> "away"]
  /\ faults = 0

-----------------------------------------------------------------------------
(* ConnectPipe: the client retries until an instance is free, its deadline  *)
(* passes or it is stopped.                                                 *)
StartConnecting(c) ==
  /\ client[c] = "away"
  /\ client' = [client EXCEPT ![c] = "retrying"]
  /\ UNCHANGED <<instance, holder, accept, faults>>

OpenPipe(c) ==
  /\ client[c] = "retrying" /\ instance = "free"
  /\ client' = [client EXCEPT ![c] = "open"]
  /\ instance' = "opened"
  /\ holder' = c
  /\ UNCHANGED <<accept, faults>>

GiveUp(c) ==
  /\ client[c] = "retrying" /\ c \notin Patient
  /\ client' = [client EXCEPT ![c] = "gone"]
  /\ UNCHANGED <<instance, holder, accept, faults>>

(* The client closes its end, or its process ends.                          *)
CloseClient(c) ==
  /\ \/ client[c] = "served"
     \/ client[c] = "open" /\ c \in Deserting
  /\ client' = [client EXCEPT ![c] = "gone"]
  /\ IF holder = c /\ client[c] = "open"
     THEN instance' = "deserted" /\ holder' = NoClient
     ELSE UNCHANGED <<instance, holder>>
  /\ UNCHANGED <<accept, faults>>

-----------------------------------------------------------------------------
(* Accept.  ConnectNamedPipe finds a client, or none yet, or fails because  *)
(* the client has left.                                                     *)
Accept ==
  /\ accept \in {"idle", "error"}
  /\ accept' = CASE instance = "opened" -> "connected"
                 [] instance = "free" -> "waiting"
                 [] instance = "deserted" -> "error"
  /\ UNCHANGED <<instance, holder, client, faults>>

ClientArrives ==
  /\ accept = "waiting" /\ instance # "free"
  /\ accept' = "connected"
  /\ UNCHANGED <<instance, holder, client, faults>>

(* The deadline passes or the stop is requested; a client that has just     *)
(* arrived stays for the next Accept.                                       *)
AcceptTimesOut ==
  /\ accept = "waiting" /\ faults < MaxFaults
  /\ accept' = "idle"
  /\ faults' = faults + 1
  /\ UNCHANGED <<instance, holder, client>>

Serve ==
  /\ instance' = "free"
  /\ holder' = NoClient
  /\ client' = IF holder = NoClient THEN client ELSE [client EXCEPT ![holder] = "served"]

(* The next instance is created before the connected one is handed over.    *)
HandOver ==
  /\ accept = "connected"
  /\ accept' = "idle"
  /\ Serve
  /\ UNCHANGED faults

(* Seeded fault: the connected instance is lost with the failure.           *)
CreationFailsAfterMove ==
  /\ accept = "connected" /\ faults < MaxFaults
  /\ accept' = "error"
  /\ faults' = faults + 1
  /\ instance' = "deserted"
  /\ UNCHANGED <<holder, client>>

(* It cannot be created: Accept fails, and keeps the connected instance.    *)
CreationFails ==
  /\ accept = "connected" /\ faults < MaxFaults
  /\ accept' = "error"
  /\ faults' = faults + 1
  /\ UNCHANGED <<instance, holder, client>>

PipeNext ==
  \/ \E c \in Client : StartConnecting(c) \/ OpenPipe(c) \/ GiveUp(c) \/ CloseClient(c)
  \/ Accept \/ ClientArrives \/ AcceptTimesOut \/ HandOver \/ CreationFails

PipeSpec == PipeInit /\ [][PipeNext]_pipeVars

(* The server calls Accept again and again, and a client that retries gets  *)
(* its turn among the others.                                               *)
PipeFairness ==
  /\ WF_pipeVars(Accept) /\ WF_pipeVars(ClientArrives) /\ WF_pipeVars(HandOver)
  /\ \A c \in Client : SF_pipeVars(OpenPipe(c))

-----------------------------------------------------------------------------
(* Properties.                                                              *)

(* A client that opened the instance left before it was accepted, and Accept *)
(* has failed: it keeps that instance, and fails again each time.           *)
Deserted ==
  /\ instance = "deserted" /\ accept = "error"
  /\ \E c \in Deserting : client[c] = "gone"

(* A client that keeps trying is served, however many others have been      *)
(* served before it and whatever Accept timed out or failed in between,     *)
(* unless the instance has been deserted.                                   *)
EveryClientIsServed ==
  \A c \in Patient : client[c] = "retrying" ~> client[c] = "served" \/ Deserted
=============================================================================
