------------------------------ MODULE XTermWrite ------------------------------
(***************************************************************************)
(* The write queue of the web terminal (Terminal.write and _innerWrite):   *)
(* what the socket delivers is queued and handled by a timer, a batch at a *)
(* time.  A chunk is numbered in the order of writing; what is in it       *)
(* matters only if it resets the terminal (ESC c) or makes a handler raise *)
(* an exception (XTermScreen: stuck).                                      *)
(***************************************************************************)
EXTENDS Integers, SequencesExt

CONSTANTS
  WRITE_BATCH_SIZE,
  MaxWrites  \* bound of the model

VARIABLES
  writeBuffer,      \* the chunks that wait: [n, kind]
  writeInProgress,  \* _writeInProgress
  timer,            \* a call of _innerWrite is due
  writes,           \* the number of chunks written
  handled,          \* ghost: the numbers of the chunks handled to their end, in this order
  lost              \* ghost: the numbers of those that never will be, and why

vars == <<writeBuffer, writeInProgress, timer, writes, handled, lost>>

Kinds == {"text", "reset", "throws"}
Numbers(chunks) == {chunks[i].n : i \in DOMAIN chunks}

Init ==
  /\ writeBuffer = <<>> /\ handled = <<>> /\ lost = {}
  /\ writeInProgress = FALSE /\ timer = FALSE
  /\ writes = 0

\* Terminal.write, without flow control (useFlowControl is off).
write ==
  /\ writes < MaxWrites
  /\ \E kind \in Kinds :
       writeBuffer' = Append(writeBuffer, [n |-> writes + 1, kind |-> kind])
  /\ writes' = writes + 1
  /\ writeInProgress' = TRUE
  /\ timer' = (timer \/ ~writeInProgress)
  /\ UNCHANGED <<handled, lost>>

\* What writeBuffer.splice(0, WRITE_BATCH_SIZE) takes, and what it leaves.
Size(queue) == IF Len(queue) < WRITE_BATCH_SIZE THEN Len(queue) ELSE WRITE_BATCH_SIZE
Batch(queue) == SubSeq(queue, 1, Size(queue))

\* Mutant: the last chunk of a batch is handled by the next one too.
RestAndLast(queue) == SubSeq(queue, WRITE_BATCH_SIZE, Len(queue))

Rest(queue) == SubSeq(queue, WRITE_BATCH_SIZE + 1, Len(queue))

\* Terminal._innerWrite.  A reset (_setup) empties the queue and forgets that a
\* write is in progress; the batch goes on.  An exception ends it there and
\* then: no timer is set, and _writeInProgress stays as it is.
_innerWrite ==
  /\ timer
  /\ LET batch == Batch(writeBuffer)
         bad == {i \in DOMAIN batch : batch[i].kind = "throws"}
         end == IF bad = {} THEN Len(batch) + 1 ELSE CHOOSE i \in bad : \A j \in bad : i <= j
         done == SubSeq(batch, 1, end - 1)
         cleared == \E i \in DOMAIN done : done[i].kind = "reset"
         queue == IF cleared THEN <<>> ELSE Rest(writeBuffer)
     IN  /\ writeBuffer' = queue
         /\ handled' = handled \o [i \in DOMAIN done |-> done[i].n]
         /\ lost' = lost \cup Numbers(SubSeq(batch, end, Len(batch)))
                         \cup (IF cleared THEN Numbers(Rest(writeBuffer)) ELSE {})
         /\ timer' = (bad = {} /\ queue # <<>>)
         /\ writeInProgress' = IF bad = {} THEN queue # <<>> ELSE ~cleared
  /\ UNCHANGED writes

Next == write \/ _innerWrite

Spec == Init /\ [][Next]_vars

-----------------------------------------------------------------------------
\* The terminal takes chunks and handles none.
Frozen == writeInProgress /\ ~timer

\* Every chunk written is handled once, in the order of writing, or waits, or
\* is lost by a reset or an exception; and what waits has its timer, but for a
\* terminal that an exception has frozen.
Accounted ==
  /\ 1 .. writes = ToSet(handled) \cup Numbers(writeBuffer) \cup lost
  /\ lost \cap (ToSet(handled) \cup Numbers(writeBuffer)) = {}
  /\ \A i, j \in DOMAIN handled : i < j => handled[i] < handled[j]
  /\ writeBuffer # <<>> => timer \/ (Frozen /\ lost # {})
=============================================================================
