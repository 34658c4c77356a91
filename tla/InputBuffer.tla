---------------------------- MODULE InputBuffer ----------------------------
(***************************************************************************)
(* Keyboard input on its way to the process: write_input, the buffer for   *)
(* what a non-blocking write left over, and the writer callback that       *)
(* empties it (session.py).  The process has a terminal queue of its own,  *)
(* of which the model keeps the room.                                      *)
(***************************************************************************)
EXTENDS Integers, Sequences

CONSTANTS Limit,  \* WRITE_BUFFER_LIMIT
          Sizes,  \* the sizes of the messages that are sent
          Room,   \* what the terminal queue of the process holds
          MaxMsgs \* bound: messages sent

ASSUME LimitAssumption == Limit \in Nat \ {0}
ASSUME SizesAssumption == Sizes \subseteq Nat \ {0}
ASSUME RoomAssumption == Room \in Nat \ {0} /\ MaxMsgs \in Nat

VARIABLES
    fd,      \* alive and master_fd >= 0
    broken,  \* the process has closed its end: os.write raises OSError
    room,    \* what the terminal queue still takes
    buffer,  \* _write_buffer
    writing, \* _writer_registered
    dropped, \* _input_dropped
    sent,    \* messages sent so far
    taken,   \* history: the bytes the terminal took
    lost,    \* history: a message was dropped since the buffer was last empty
    told     \* history: how often that was reported

inputVars == <<fd, broken, room, buffer, writing, dropped, sent, taken, lost, told>>

\* Byte "at" of message "msg", which has "of" bytes.
Byte == [msg : Nat, at : Nat, of : Nat]

Bytes(k, size) == [i \in 1..size |-> [msg |-> k, at |-> i, of |-> size]]

InputTypeOK ==
    /\ fd \in BOOLEAN /\ broken \in BOOLEAN
    /\ room \in 0..Room
    /\ buffer \in Seq(Byte) /\ taken \in Seq(Byte)
    /\ writing \in BOOLEAN /\ dropped \in BOOLEAN
    /\ sent \in 0..MaxMsgs
    /\ lost \in BOOLEAN /\ told \in Nat

InputInit ==
    /\ fd = TRUE /\ broken = FALSE /\ room = Room
    /\ buffer = <<>> /\ writing = FALSE /\ dropped = FALSE
    /\ sent = 0 /\ taken = <<>> /\ lost = FALSE /\ told = 0

-----------------------------------------------------------------------------
\* The buffer has become empty: its callback goes, and the next overflow is
\* worth a report.
Emptied ==
    /\ buffer' = <<>>
    /\ writing' = FALSE /\ dropped' = FALSE
    /\ lost' = FALSE /\ told' = 0

\* Mutant: the callback is added only when an overflow was seen.
FlushedUnregistered(b) ==
    IF broken
    THEN Emptied /\ UNCHANGED <<room, taken>>
    ELSE LET n == IF Len(b) <= room THEN Len(b) ELSE room IN
         /\ taken' = taken \o SubSeq(b, 1, n)
         /\ room' = room - n
         /\ IF n = Len(b)
            THEN Emptied
            ELSE /\ buffer' = SubSeq(b, n + 1, Len(b))
                 /\ UNCHANGED <<writing, dropped, lost, told>>

\* _flush_write with b in the buffer: it writes until the terminal takes no
\* more, or the write fails, which gives up the whole buffer.
Flushed(b) ==
    IF broken
    THEN Emptied /\ UNCHANGED <<room, taken>>
    ELSE LET n == IF Len(b) <= room THEN Len(b) ELSE room IN
         /\ taken' = taken \o SubSeq(b, 1, n)
         /\ room' = room - n
         /\ IF n = Len(b)
            THEN Emptied
            ELSE /\ buffer' = SubSeq(b, n + 1, Len(b))
                 /\ writing' = TRUE
                 /\ UNCHANGED <<dropped, lost, told>>

\* The message does not fit: it is dropped, and reported if it is the first.
\* One that finds the buffer empty begins an overflow of its own.
Drop ==
    /\ dropped' = TRUE
    /\ lost' = TRUE
    /\ told' = (IF buffer = <<>> THEN 0 ELSE told) + (IF dropped THEN 0 ELSE 1)
    /\ UNCHANGED <<buffer, writing, room, taken>>

\* Mutant: what fits of a message is kept.
WriteInputCutting(size) ==
    /\ sent < MaxMsgs /\ sent' = sent + 1
    /\ IF ~fd
       THEN UNCHANGED <<buffer, writing, dropped, room, taken, lost, told>>
       ELSE IF Len(buffer) + size > Limit
            THEN /\ buffer' = SubSeq(buffer \o Bytes(sent', size), 1, Limit)
                 /\ dropped' = TRUE /\ lost' = TRUE
                 /\ told' = told + (IF dropped THEN 0 ELSE 1)
                 /\ UNCHANGED <<writing, room, taken>>
            ELSE Flushed(buffer \o Bytes(sent', size))
    /\ UNCHANGED <<fd, broken>>

\* write_input of the next message: taken whole or dropped whole.
WriteInput(size) ==
    /\ sent < MaxMsgs /\ sent' = sent + 1
    /\ IF ~fd
       THEN UNCHANGED <<buffer, writing, dropped, room, taken, lost, told>>
       ELSE IF Len(buffer) + size > Limit
            THEN Drop
            ELSE Flushed(buffer \o Bytes(sent', size))
    /\ UNCHANGED <<fd, broken>>

\* The callback: the loop found the descriptor writable (or broken).
FlushWrite ==
    /\ writing /\ (room > 0 \/ broken)
    /\ Flushed(buffer)
    /\ UNCHANGED <<fd, broken, sent>>

\* The process reads some of its input.
ChildReads ==
    /\ ~broken
    /\ \E r \in room+1..Room : room' = r
    /\ UNCHANGED <<fd, broken, buffer, writing, dropped, sent, taken, lost, told>>

ChildCloses ==
    /\ ~broken /\ broken' = TRUE
    /\ UNCHANGED <<fd, room, buffer, writing, dropped, sent, taken, lost, told>>

\* _cleanup_fd, when the session ends.
CleanupFd ==
    /\ fd /\ fd' = FALSE
    /\ Emptied
    /\ UNCHANGED <<broken, room, sent, taken>>

InputNext ==
    \/ \E size \in Sizes : WriteInput(size)
    \/ FlushWrite \/ ChildReads \/ ChildCloses \/ CleanupFd

InputSpec == InputInit /\ [][InputNext]_inputVars

\* The loop runs the callbacks of writable descriptors, and the process reads.
InputFairSpec == InputSpec /\ WF_inputVars(FlushWrite) /\ WF_inputVars(ChildReads)

-----------------------------------------------------------------------------
(* Properties *)

\* y may follow x in the stream.
Follows(x, y) ==
    \/ y.msg = x.msg /\ y.at = x.at + 1 /\ y.of = x.of
    \/ x.at = x.of /\ y.at = 1 /\ y.msg > x.msg

\* A stream of whole messages in the order they were sent, the last of them
\* perhaps cut.
InOrder(s) ==
    /\ s # <<>> => s[1].at = 1
    /\ \A i \in 1..Len(s)-1 : Follows(s[i], s[i+1])

Complete(s) == s # <<>> => s[Len(s)].at = s[Len(s)].of

\* "한 메시지는 통째로 받거나 통째로 버려서 경계에서도 문자가 갈라지지 않게 한다":
\* what the terminal took and what waits is whole messages in their order, and
\* the last of them is complete unless the terminal is gone.
Whole ==
    /\ InOrder(taken \o buffer)
    /\ fd /\ ~broken => Complete(taken \o buffer)

\* The buffer stays within its limit.
Bounded == Len(buffer) <= Limit

\* Input waits in the buffer exactly while a callback is registered for it:
\* none is forgotten, and no callback spins on an empty buffer.
Pumped == writing <=> buffer # <<>>

\* An overflow is reported, once, until the buffer has been emptied ("버퍼가 다
\* 빠지면 다시 알릴 수 있는 상태로 돌아간다").
ToldOnce == told = IF lost THEN 1 ELSE 0

\* The inductive invariant of the proofs.
InputIInv ==
    /\ InputTypeOK /\ Whole /\ Bounded /\ Pumped
    /\ \A i \in 1..Len(taken \o buffer) : (taken \o buffer)[i].msg <= sent

\* Input that was taken reaches a process that reads, or the terminal goes.
Delivered == buffer # <<>> ~> buffer = <<>>
=============================================================================
