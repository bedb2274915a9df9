------------------------------ MODULE Framing -------------------------------
(***************************************************************************)
(* How the messages of a session are cut out of its byte stream            *)
(* (message/mod.rs, and the read of peer.rs, run_session).                 *)
(*                                                                         *)
(* TCP hands the bytes over in pieces of any size.  The first byte of a    *)
(* header stands for all that the header says, the length and the type;    *)
(* the other bytes say nothing, so that a parse which starts at one of     *)
(* them finds no marker.                                                   *)
(***************************************************************************)
EXTENDS Integers, Sequences

CONSTANTS
    HeaderLen,      \* HEADER_LEN, 19 in the program
    MaxMessageLen,  \* MAX_MESSAGE_LEN, 4096
    ReadSize,       \* size of the array that a read fills, 4096
    Types,          \* known message types
    UnknownType,    \* a type byte that is none of them
    Fallible,       \* types whose handler may return an error: OPEN, UPDATE, NOTIFICATION
    MaxBytes        \* bound: bytes that the remote end sends

ASSUME FramingAssumption ==
    /\ HeaderLen \in Nat \ {0}
    /\ MaxMessageLen \in Nat /\ HeaderLen <= MaxMessageLen
    /\ ReadSize \in Nat \ {0}
    /\ UnknownType \notin Types
    /\ Fallible \subseteq Types
    /\ MaxBytes \in Nat

VARIABLES
    stream,     \* all bytes the remote end has sent
    closed,     \* the remote end has closed the stream
    read,       \* number of bytes read from the stream
    buf,        \* the BytesMut of run_session
    pc,         \* where run_session is, see PCs
    handled     \* the messages that handle_message was called with

framingVars == <<stream, closed, read, buf, pc, handled>>

\* The top of the loop up to the read, the loop over the messages, and the ways
\* run_session returns: end of file, hold timer, improper header, other errors.
PCs == {"select", "drain", "done", "expired", "refused", "failed"}

\* What header bytes may claim: lengths within the limits and beyond them.
Header ==
    [length : (HeaderLen - 1)..(MaxMessageLen + 1), type : Types \cup {UnknownType}]

\* Any other byte.
Filler == [length |-> -1, type |-> UnknownType]

FramingInit ==
    /\ stream = <<>>
    /\ closed = FALSE
    /\ read = 0
    /\ buf = <<>>
    /\ pc = "select"
    /\ handled = <<>>

-----------------------------------------------------------------------------
(* The remote end *)

\* It sends a header and any number of bytes after it, be it as many as the
\* header says or not.
Send(header, body) ==
    /\ ~closed
    /\ Len(stream) + HeaderLen + body <= MaxBytes
    /\ stream' = stream \o <<header>> \o [i \in 1..(HeaderLen - 1 + body) |-> Filler]
    /\ UNCHANGED <<closed, read, buf, pc, handled>>

Close ==
    /\ ~closed
    /\ closed' = TRUE
    /\ UNCHANGED <<stream, read, buf, pc, handled>>

-----------------------------------------------------------------------------
(* The session *)

\* A read of n bytes, at most as many as there are.
Read(n) ==
    /\ pc = "select"
    /\ n <= ReadSize
    /\ read + n <= Len(stream)
    /\ buf' = buf \o SubSeq(stream, read + 1, read + n)
    /\ read' = read + n
    /\ pc' = "drain"
    /\ UNCHANGED <<stream, closed, handled>>

\* The read returns 0: what is left in buf is dropped.
Eof ==
    /\ pc = "select"
    /\ closed /\ read = Len(stream)
    /\ pc' = "done"
    /\ UNCHANGED <<stream, closed, read, buf, handled>>

\* The hold timer, which runs since a message was handled, has expired.
HoldExpires ==
    /\ pc = "select"
    /\ handled # <<>>
    /\ pc' = "expired"
    /\ UNCHANGED <<stream, closed, read, buf, handled>>

\* The OPEN or a KEEPALIVE cannot be written, or the read returns an error:
\* what was sent and not yet read is lost.
LoopFails ==
    /\ pc = "select"
    /\ pc' = "failed"
    /\ UNCHANGED <<stream, closed, read, buf, handled>>

\* Header::parse on the bytes from b on: marker, length, type.
HeaderOK(b) ==
    /\ b # Filler
    /\ HeaderLen <= b.length /\ b.length <= MaxMessageLen
    /\ b.type \in Types

\* Mutant of Incomplete: it waits for one byte more than the message has.
IncompleteLate(b) ==
    \/ Len(b) < HeaderLen
    \/ Len(b) >= HeaderLen /\ HeaderOK(Head(b)) /\ Len(b) <= Head(b).length

\* BgpMessage::parse returns Ok(None).
Incomplete(b) ==
    \/ Len(b) < HeaderLen
    \/ Len(b) >= HeaderLen /\ HeaderOK(Head(b)) /\ Len(b) < Head(b).length

\* The loop over the messages in the buffer ends.
NeedMore ==
    /\ pc = "drain"
    /\ Incomplete(buf)
    /\ pc' = "select"
    /\ UNCHANGED <<stream, closed, read, buf, handled>>

\* Message of a type with a body, at the start of b.
FirstMessage(b) ==
    [type |-> Head(b).type, body |-> SubSeq(b, HeaderLen + 1, Head(b).length)]

\* BgpMessage::parse returns a message, which is consumed.
Consume ==
    /\ pc = "drain"
    /\ ~Incomplete(buf)
    /\ HeaderOK(Head(buf))
    /\ handled' = Append(handled, FirstMessage(buf))
    /\ buf' = SubSeq(buf, Head(buf).length + 1, Len(buf))
    /\ UNCHANGED <<stream, closed, read>>

\* Mutants of Handle: the rest of the buffer is dropped; the loop over the
\* messages is left after the first.
HandleDropping ==
    /\ pc = "drain"
    /\ ~Incomplete(buf)
    /\ HeaderOK(Head(buf))
    /\ handled' = Append(handled, FirstMessage(buf))
    /\ buf' = <<>>
    /\ UNCHANGED <<stream, closed, read, pc>>

HandleOnce == Consume /\ pc' = "select"

\* handle_message succeeds, and the loop goes on.
Handle == Consume /\ pc' = "drain"

\* handle_message returns an error, for a body that does not parse or an answer
\* that cannot be written: so does run_session, whatever else is in the buffer.
HandleFails ==
    /\ Consume
    /\ Head(buf).type \in Fallible
    /\ pc' = "failed"

\* BgpMessage::parse returns Err, and so does run_session.
BadHeader ==
    /\ pc = "drain"
    /\ ~Incomplete(buf)
    /\ ~HeaderOK(Head(buf))
    /\ pc' = "refused"
    /\ UNCHANGED <<stream, closed, read, buf, handled>>

FramingNext ==
    \/ \E header \in Header, body \in 0..(MaxMessageLen - HeaderLen) :
         Send(header, body)
    \/ Close
    \/ \E n \in 1..ReadSize : Read(n)
    \/ Eof \/ HoldExpires \/ LoopFails
    \/ NeedMore \/ Handle \/ HandleFails \/ BadHeader

\* The task is polled, and bytes that were sent arrive unless the connection
\* breaks first; nothing says that it does, or that a timer expires.
FramingFairness ==
    /\ WF_framingVars(\E n \in 1..ReadSize : Read(n))
    /\ WF_framingVars(Eof)
    /\ WF_framingVars(NeedMore \/ Handle \/ HandleFails \/ BadHeader)

FramingSpec == FramingInit /\ [][FramingNext]_framingVars /\ FramingFairness

-----------------------------------------------------------------------------
(* Reference: a whole stream cut into messages at once *)

\* A message with a proper header is at position p, and s has all of it.
WholeAt(s, p) ==
    /\ p + HeaderLen <= Len(s)
    /\ HeaderOK(s[p + 1])
    /\ p + s[p + 1].length <= Len(s)

NextAt(s, p) == p + s[p + 1].length

MessageAt(s, p) ==
    [type |-> s[p + 1].type, body |-> SubSeq(s, p + HeaderLen + 1, NextAt(s, p))]

\* The messages of s from each position on, up to the first one that is not
\* whole or has no proper header.
MessagesFrom(s) ==
    LET from[p \in 0..Len(s)] ==
          IF WholeAt(s, p) THEN <<MessageAt(s, p)>> \o from[NextAt(s, p)] ELSE <<>>
    IN  from

Messages(s) == MessagesFrom(s)[0]

-----------------------------------------------------------------------------
(* Properties *)

\* The sizes of the reads do not matter: whenever the session waits for data,
\* and when it ended at the end of file, at an expired hold timer or at an
\* improper header, it has handled every message whose last byte it has read,
\* and no other.
ReadsDoNotMatter ==
    pc \in {"select", "done", "expired", "refused"} =>
      handled = Messages(SubSeq(stream, 1, read))

\* The buffer does not grow: a session that waits for data holds less than
\* one message, and a read adds one array to that.
BufferBounded ==
    /\ pc = "select" => Len(buf) < MaxMessageLen
    /\ Len(buf) < MaxMessageLen + ReadSize

\* A session is a channel that may break: the messages in front of the first
\* improper header are handled once each, in order and without gaps, and all of
\* them in the end, also those that arrive together with the close, unless the
\* hold timer, the connection or a handler ends the session first.
Ch == INSTANCE Channel WITH sent <- Messages(stream), received <- handled,
                            broken <- pc \in {"expired", "failed"},
                            MaxMessages <- MaxBytes \div HeaderLen
ImplementsChannel == Ch!Spec
=============================================================================
