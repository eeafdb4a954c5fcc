----------------------------- MODULE PipeFrames -----------------------------
(***************************************************************************)
(* mwfl::PipeWriter and mwfl::PipeReader: frames of a length and a payload  *)
(* over one direction of a byte pipe.  A Transfer moves its bytes in any    *)
(* portions and ends when all are moved, or early: at its deadline, when it *)
(* is stopped, or when the other end is closed.  What it has moved by then  *)
(* stays moved.                                                             *)
(*                                                                          *)
(* The bytes of frame f are <<f, 1>>, <<f, 2>>, ...: Header of them for the *)
(* length, Size[f] for the payload.                                         *)
(***************************************************************************)
EXTENDS Integers, Sequences, SequencesExt

CONSTANTS
  Frame,
  NoFrame,
  Size,         \* payload bytes of each frame
  Header,       \* bytes of the length
  MaximumSize,  \* maximum_frame_size of the reader
  Capacity,     \* bytes the pipe holds
  Reuse         \* may an end be used again after a call that ended early?

VARIABLES
  sent,     \* frames WriteFrame was called for, in order
  sending,  \* the WriteFrame under way: [frame, next]
  pipe,     \* bytes written and not read
  reading,  \* the ReadFrame under way: bytes read, or NoFrame
  received, \* frames ReadFrame has returned
  writer, reader  \* each end: "open", "interrupted" or "closed"

frameVars == <<sent, sending, pipe, reading, received, writer, reader>>

Bytes(f) == [k \in 1..Header + Size[f] |-> <<f, k>>]
NotSending == [frame |-> NoFrame, next |-> 0]

(* A length made of these bytes: the frame's own, or any, when they are not *)
(* the first bytes of one frame.                                            *)
Lengths(bytes) ==
  IF \E f \in Frame : SubSeq(Bytes(f), 1, Header) = bytes
  THEN {Size[bytes[1][1]]} ELSE 0..MaximumSize + 1

FrameInit ==
  /\ sent = <<>>
  /\ sending = NotSending
  /\ pipe = <<>>
  /\ reading = NoFrame
  /\ received = <<>>
  /\ writer = "open" /\ reader = "open"

Usable(end) == end = "open" \/ (Reuse /\ end = "interrupted")

-----------------------------------------------------------------------------
(* WriteFrame.  A second one at the same time is refused.                   *)
WriteFrame(f) ==
  /\ Usable(writer) /\ sending = NotSending /\ f \notin Range(sent)
  /\ sending' = [frame |-> f, next |-> 1]
  /\ sent' = Append(sent, f)
  /\ writer' = "open"
  /\ UNCHANGED <<pipe, reading, received, reader>>

WriteByte ==
  /\ sending # NotSending /\ reader # "closed" /\ Len(pipe) < Capacity
  /\ pipe' = Append(pipe, Bytes(sending.frame)[sending.next])
  /\ sending' = IF sending.next = Len(Bytes(sending.frame)) THEN NotSending
                ELSE [sending EXCEPT !.next = @ + 1]
  /\ UNCHANGED <<sent, reading, received, writer, reader>>

(* The deadline, the stop or the other end's closing ends it.               *)
WriteEndsEarly ==
  /\ sending # NotSending
  /\ sending' = NotSending
  /\ writer' = "interrupted"
  /\ UNCHANGED <<sent, pipe, reading, received, reader>>

-----------------------------------------------------------------------------
(* ReadFrame.                                                               *)
ReadFrame ==
  /\ Usable(reader) /\ reading = NoFrame
  /\ reading' = <<>>
  /\ reader' = "open"
  /\ UNCHANGED <<sent, sending, pipe, received, writer>>

Take ==
  /\ pipe # <<>>
  /\ reading' = Append(reading, Head(pipe))
  /\ pipe' = Tail(pipe)
  /\ UNCHANGED <<sent, sending, received, writer, reader>>

ReadLength == reading # NoFrame /\ Len(reading) < Header /\ Take

ReadPayload ==
  /\ reading # NoFrame /\ Len(reading) >= Header
  /\ \E n \in Lengths(SubSeq(reading, 1, Header)) :
       n <= MaximumSize /\ Len(reading) < Header + n
  /\ Take

(* All of the payload has come.                                             *)
FrameComplete ==
  /\ reading # NoFrame /\ Len(reading) >= Header
  /\ Len(reading) - Header \in Lengths(SubSeq(reading, 1, Header))
  /\ Len(reading) - Header <= MaximumSize
  /\ received' = Append(received, reading)
  /\ reading' = NoFrame
  /\ UNCHANGED <<sent, sending, pipe, writer, reader>>

(* The length is more than maximum_frame_size: an error, before the payload *)
(* is read.                                                                 *)
FrameTooLong ==
  /\ reading # NoFrame /\ Len(reading) = Header
  /\ \E n \in Lengths(reading) : n > MaximumSize
  /\ reading' = NoFrame
  /\ reader' = "interrupted"
  /\ UNCHANGED <<sent, sending, pipe, received, writer>>

(* Seeded fault: a payload that was cut short is returned.                  *)
ReadReturnsPart ==
  /\ reading # NoFrame
  /\ reading' = NoFrame
  /\ received' = IF Len(reading) > Header THEN Append(received, reading) ELSE received
  /\ reader' = "interrupted"
  /\ UNCHANGED <<sent, sending, pipe, writer>>

ReadEndsEarly ==
  /\ reading # NoFrame
  /\ reading' = NoFrame
  /\ reader' = "interrupted"
  /\ UNCHANGED <<sent, sending, pipe, received, writer>>

-----------------------------------------------------------------------------
CloseWriter ==
  /\ writer # "closed" /\ sending = NotSending
  /\ writer' = "closed"
  /\ UNCHANGED <<sent, sending, pipe, reading, received, reader>>

CloseReader ==
  /\ reader # "closed" /\ reading = NoFrame
  /\ reader' = "closed"
  /\ UNCHANGED <<sent, sending, pipe, reading, received, writer>>

FrameNext ==
  \/ \E f \in Frame : WriteFrame(f)
  \/ WriteByte \/ WriteEndsEarly \/ CloseWriter
  \/ ReadFrame \/ ReadLength \/ ReadPayload \/ FrameComplete \/ FrameTooLong \/ ReadEndsEarly
  \/ CloseReader

FrameSpec == FrameInit /\ [][FrameNext]_frameVars

-----------------------------------------------------------------------------
(* Properties.                                                              *)

(* The frames ReadFrame has returned are the first ones written, whole and  *)
(* in order, whatever the portions, as long as an end is not used again     *)
(* after a call on it ended early.                                          *)
FramesArriveWhole ==
  IsPrefix(received, [i \in DOMAIN sent |-> Bytes(sent[i])])
=============================================================================
