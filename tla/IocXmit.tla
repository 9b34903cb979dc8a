------------------------------ MODULE IocXmit ------------------------------
(***************************************************************************)
(* ioc_ch_xmit (src/hw/platform/ioc.c): write a buffer to a channel's fd,  *)
(* looping over short writes until the whole buffer is written or write()  *)
(* fails.  The fd is non-blocking (O_NONBLOCK at open), so write() may     *)
(* return a short count, fail with EAGAIN when the device or pty buffer is *)
(* full, or fail with a hard error.  The bytes of the buffer are the       *)
(* numbers 1..size, so the bytes reaching the fd show what was written.    *)
(***************************************************************************)
EXTENDS Integers, Sequences

CONSTANT MaxSize   \* bound: length of the buffer passed to ioc_ch_xmit

VARIABLES
    fdValid,   \* ioc_ch_tbl[id].fd >= 0
    buf,       \* the buffer (bytes 1..size)
    count,     \* bytes written so far
    out,       \* bytes the fd has received, in order
    lastErr,   \* errno of the failed write: "none", "EAGAIN" or "EIO"
    pc,        \* "start", "loop", "done"
    result     \* the return value

vars == <<fdValid, buf, count, out, lastErr, pc, result>>

Size == Len(buf)

Init ==
    /\ fdValid \in BOOLEAN
    /\ buf \in {[i \in 1..n |-> i] : n \in 0..MaxSize}
    /\ count = 0 /\ out = <<>> /\ lastErr = "none"
    /\ pc = "start" /\ result = 0

\* The argument check: an invalid fd or an empty buffer returns -1.
XmitStart ==
    /\ pc = "start"
    /\ IF ~fdValid \/ Size = 0
       THEN pc' = "done" /\ result' = -1
       ELSE pc' = "loop" /\ UNCHANGED result
    /\ UNCHANGED <<fdValid, buf, count, out, lastErr>>

\* Mutant: write(fd, buf, size - count), the offset forgotten.
XmitWriteFromStart ==
    /\ pc = "loop" /\ count < Size
    /\ \E rc \in 1..(Size - count) :
          /\ out' = out \o SubSeq(buf, 1, rc)
          /\ count' = count + rc
    /\ UNCHANGED <<fdValid, buf, lastErr, pc, result>>

\* rc = write(fd, buf + count, size - count) writes rc > 0 bytes.
XmitWrite ==
    /\ pc = "loop" /\ count < Size
    /\ \E rc \in 1..(Size - count) :
          /\ out' = out \o SubSeq(buf, count + 1, count + rc)
          /\ count' = count + rc
    /\ UNCHANGED <<fdValid, buf, lastErr, pc, result>>

\* write() fails (rc < 0): the loop breaks and the bytes written so far
\* are returned.
XmitWriteFails ==
    /\ pc = "loop" /\ count < Size
    /\ \E e \in {"EAGAIN", "EIO"} : lastErr' = e
    /\ pc' = "done" /\ result' = count
    /\ UNCHANGED <<fdValid, buf, count, out>>

\* Mutant: the loop runs while count <= size, and a write of zero bytes at
\* the end never leaves it.
XmitReturnOffByOne ==
    /\ pc = "loop" /\ count > Size
    /\ pc' = "done" /\ result' = count
    /\ UNCHANGED <<fdValid, buf, count, out, lastErr>>

XmitReturn ==
    /\ pc = "loop" /\ count >= Size
    /\ pc' = "done" /\ result' = count
    /\ UNCHANGED <<fdValid, buf, count, out, lastErr>>

Next == XmitStart \/ XmitWrite \/ XmitWriteFails \/ XmitReturn

Spec == Init /\ [][Next]_vars /\ WF_vars(Next)

-----------------------------------------------------------------------------
\* The fd receives exactly the first `count` bytes of the buffer, each once
\* and in order, whatever the sequence of short writes; and the value
\* returned is the number of bytes the fd received (or -1 for nothing).
XmitWritesPrefix ==
    /\ out = SubSeq(buf, 1, count)
    /\ pc = "done" => (result = Len(out) \/ (result = -1 /\ out = <<>>))

\* The spec (section 5): EAGAIN is treated like a short write and retried,
\* so ioc_ch_xmit returns with the whole buffer written unless a hard error
\* occurred.
XmitComplete ==
    (pc = "done" /\ result >= 0) => (result = Size \/ lastErr = "EIO")

\* The call returns.
XmitTerminates == <>(pc = "done")
=============================================================================
