---------------------------- MODULE CyclicBuffer ----------------------------
(***************************************************************************)
(* The cyclic buffer (core/CyclicBuffer) in shared memory, as tracing uses *)
(* it: one process writes traces (tracing/TraceUnit.cpp, which holds its   *)
(* own lock around Reserve and the writes), another one reads them         *)
(* (WPEFrameworkPlugins/TraceControl) when the doorbell rings.  A trace is *)
(* reserved, written in chunks and published by moving the head; room is   *)
(* made by moving the tail over whole traces, under the hands of the       *)
(* reader, which finds out by compare and exchange.                        *)
(*                                                                         *)
(* A cell stands for a run of bytes.  The first one of a trace holds its   *)
(* length; any other, taken for a length, gives something (Junk).          *)
(* Nobody uses Lock(), Unlock(), Alert() or Peek() of the buffer: there    *)
(* are no agents, and Reevaluate() does nothing.                           *)
(***************************************************************************)
EXTENDS Integers, Sequences

CONSTANTS Size,       \* _maxSize
          Lengths,    \* the lengths of traces
          Junk,       \* what data may read as when it is taken for a length
          MaxTraces   \* bound of the model: traces written

ASSUME SizeAssumption == Size \in Nat /\ Size > 1
ASSUME LengthsAssumption == Lengths \subseteq Nat \ {0}
ASSUME JunkAssumption == Junk \subseteq Nat
ASSUME BoundAssumption == MaxTraces \in Nat

VARIABLES cells,    \* _realBuffer: whose cell, and which one of that trace
          head,     \* _head
          tail,     \* _tail: the offset, and the rounds times Size
          lengths,  \* the length of each trace, as it was reserved
          written,  \* _reservedWritten
          writer,   \* where the writer is
          oldTail,  \* the writer's copy of _tail
          empty,    \* startingEmpty
          bell,     \* the doorbell rings
          reader,   \* where the reader is
          readTail, \* the reader's copy of _tail
          readSize, \* the length it has found there
          copied,   \* the cells it has copied
          last,     \* the last trace it has put out
          filled    \* history: a trace has filled the buffer to the last cell

bufferVars == <<cells, head, tail>>
writerVars == <<lengths, written, writer, oldTail, empty>>
readerVars == <<reader, readTail, readSize, copied, last>>
vars == <<bufferVars, writerVars, bell, readerVars, filled>>

Offsets == 0 .. Size - 1
Traces == 1 .. MaxTraces
Cells == Traces \X Nat
Blank == <<0, 0>>

TypeOK ==
    /\ cells \in [Offsets -> Cells \cup {Blank}]
    /\ head \in Offsets /\ tail \in Nat
    /\ lengths \in Seq(1 .. Size - 1) /\ Len(lengths) <= MaxTraces
    /\ written \in Nat
    /\ writer \in {"idle", "assure", "write", "publish", "move", "ring"}
    /\ oldTail \in Nat /\ empty \in BOOLEAN
    /\ bell \in BOOLEAN
    /\ reader \in {"wait", "load", "head", "size", "copy", "take", "check", "flush", "dispatch"}
    /\ readTail \in Nat /\ readSize \in Nat
    /\ copied \in Seq(Cells \cup {Blank})
    /\ last \in Nat
    /\ filled \in BOOLEAN

Init ==
    /\ cells = [i \in Offsets |-> Blank]
    /\ head = 0 /\ tail = 0
    /\ lengths = <<>> /\ written = 0 /\ writer = "idle" /\ oldTail = 0 /\ empty = FALSE
    /\ bell = FALSE
    /\ reader = "wait" /\ readTail = 0 /\ readSize = 0 /\ copied = <<>> /\ last = 0
    /\ filled = FALSE

-----------------------------------------------------------------------------
(* What both sides compute.  A full buffer cannot be told from an empty    *)
(* one: both have the head at the tail.                                    *)

Offset(t) == t % Size
Used(h, t) == IF h >= Offset(t) THEN h - Offset(t) ELSE Size - (Offset(t) - h)
Free(h, t) == IF h >= Offset(t) THEN Size - (h - Offset(t)) ELSE Offset(t) - h

\* Cursor::GetCompleteTail: a whole round comes out as none.
CompleteTail(t, offset) ==
    LET place == (Offset(t) + offset) % Size
        round == IF place < Offset(t) THEN t \div Size + 1 ELSE t \div Size
    IN round * Size + place

Current == Len(lengths)
Reserved == lengths[Current]

\* Cursor::Peek of the length that stands at t.
Peek(t, junk) ==
    LET cell == cells[Offset(t)]
    IN IF cell \in Traces \X {0} THEN lengths[cell[1]] ELSE junk

-----------------------------------------------------------------------------
(* The writer: TraceUnit::Trace.                                           *)

\* A mutant: only what is needed, as CyclicBuffer itself does.
OverwriteBytes(t, required, junk) == required

\* TraceBuffer::GetOverwriteSize: whole traces from t on, at least so many cells.
OverwriteSize(t, required, junk) ==
    LET from[n \in Nat] == IF n >= required THEN n ELSE from[n + Peek(t + n, junk)]
    IN from[0]

\* Reserve: the length is clipped, and AssureFreeSpace looks at the tail.
Reserve(length) ==
    /\ writer = "idle" /\ Current < MaxTraces
    /\ lengths' = Append(lengths, IF length >= Size THEN Size - 1 ELSE length)
    /\ written' = 0
    /\ oldTail' = tail
    /\ writer' = "assure"
    /\ UNCHANGED <<bufferVars, empty, bell, readerVars, filled>>

\* As long as the tail that was read leaves too little room, it is moved; when the
\* reader has moved it, or this loop has already, it is read again.
Assure(junk) ==
    LET free == Free(head, oldTail) IN
    /\ writer = "assure" /\ free < Reserved
    /\ IF tail = oldTail
       THEN /\ tail' = CompleteTail(oldTail, OverwriteSize(oldTail, Reserved - free, junk))
            /\ oldTail' = oldTail
       ELSE /\ oldTail' = tail /\ tail' = tail
    /\ UNCHANGED <<cells, head, lengths, written, writer, empty, bell, readerVars, filled>>

Assured ==
    /\ writer = "assure" /\ Free(head, oldTail) >= Reserved
    /\ writer' = "write"
    /\ UNCHANGED <<bufferVars, lengths, written, oldTail, empty, bell, readerVars, filled>>

Copy ==
    /\ cells' = [cells EXCEPT ![(head + written) % Size] = <<Current, written>>]
    /\ written' = written + 1

\* A chunk that is not the last one: nothing is published.
Write ==
    /\ writer = "write" /\ written + 1 < Reserved
    /\ Copy
    /\ UNCHANGED <<head, tail, lengths, writer, oldTail, empty, bell, readerVars, filled>>

\* The last chunk begins by looking whether the buffer is empty ...
WriteLast ==
    /\ writer = "write" /\ written + 1 = Reserved
    /\ empty' = (Used(head, tail) = 0)
    /\ writer' = "publish"
    /\ UNCHANGED <<bufferVars, lengths, written, oldTail, bell, readerVars, filled>>

\* ... is copied ...
Publish ==
    /\ writer = "publish"
    /\ Copy
    /\ writer' = "move"
    /\ UNCHANGED <<head, tail, lengths, oldTail, empty, bell, readerVars, filled>>

\* ... and moves the head.  (The reader may have emptied the buffer meanwhile.)
Move ==
    /\ writer = "move"
    /\ head' = (head + Reserved) % Size
    /\ writer' = IF empty THEN "ring" ELSE "idle"
    /\ filled' = (filled \/ head' = Offset(tail))
    /\ UNCHANGED <<cells, tail, lengths, written, oldTail, empty, bell, readerVars>>

\* DataAvailable, under the mutex of the buffer, which nobody else takes.
Ring ==
    /\ writer = "ring" /\ writer' = "idle"
    /\ bell' = TRUE
    /\ UNCHANGED <<bufferVars, lengths, written, oldTail, empty, readerVars, filled>>

Writing ==
    \/ \E junk \in Junk \ {0} : Assure(junk)
    \/ Assured \/ Write \/ WriteLast \/ Publish \/ Move \/ Ring

-----------------------------------------------------------------------------
(* The reader: Observer::Worker and Source::Load.                          *)

Look(from, to) ==
    /\ reader = from /\ reader' = to
    /\ UNCHANGED <<cells, head, writerVars>>

Acknowledge ==
    /\ Look("wait", "load") /\ bell /\ bell' = FALSE
    /\ UNCHANGED <<tail, readTail, readSize, copied, last, filled>>

Load ==
    /\ Look("load", "head")
    /\ readTail' = tail
    /\ UNCHANGED <<tail, bell, readSize, copied, last, filled>>

\* Read() returns 0 and the reader goes back to the doorbell.  When the writer has
\* moved the tail meanwhile there may be something to read after all.
Return(from) ==
    /\ Look(from, "wait")
    /\ UNCHANGED <<tail, bell, readTail, readSize, copied, last, filled>>

LoadHead ==
    /\ Used(head, readTail) # 0
    /\ Look("head", "size")
    /\ UNCHANGED <<tail, bell, readTail, readSize, copied, last, filled>>
NoData == Used(head, readTail) = 0 /\ Return("head")

GetReadSize(junk) ==
    /\ Peek(readTail, junk) \in 1 .. Size
    /\ Look("size", "copy")
    /\ readSize' = Peek(readTail, junk) /\ copied' = <<>>
    /\ UNCHANGED <<tail, bell, readTail, last, filled>>
NoSize(junk) == Peek(readTail, junk) \notin 1 .. Size /\ Return("size")

\* One cell after the other, while the writer may be writing.
CopyOut ==
    /\ Look("copy", IF Len(copied) + 1 = readSize THEN "take" ELSE "copy")
    /\ copied' = Append(copied, cells[Offset(readTail + Len(copied))])
    /\ UNCHANGED <<tail, bell, readTail, readSize, last, filled>>

\* A mutant: the tail is stored, whoever has moved it.
TakeStored ==
    /\ Look("take", "check") /\ tail' = readTail + readSize
    /\ UNCHANGED <<bell, readTail, readSize, copied, last, filled>>

\* The compare and exchange: what has been copied counts when the tail is still there.
Take ==
    \/ /\ tail = readTail /\ Look("take", "check") /\ tail' = readTail + readSize
       /\ UNCHANGED <<bell, readTail, readSize, copied, last, filled>>
    \/ /\ tail # readTail /\ Look("take", "load")
       /\ UNCHANGED <<tail, bell, readTail, readSize, copied, last, filled>>

\* The trace is whole when the length in front of it is what was read.
LengthCopied(junk) ==
    IF copied[1] \in Traces \X {0} THEN lengths[copied[1][1]] ELSE junk

Check(junk) ==
    /\ Look("check", IF LengthCopied(junk) = readSize THEN "dispatch" ELSE "flush")
    /\ UNCHANGED <<tail, bell, readTail, readSize, copied, last, filled>>

\* Flush drops everything, and the rounds.
Flush ==
    /\ Look("flush", "wait")
    /\ tail' = head
    /\ UNCHANGED <<bell, readTail, readSize, copied, last, filled>>

Dispatch ==
    /\ Look("dispatch", "load")
    /\ last' = copied[1][1]
    /\ readSize' = 0 /\ copied' = <<>>
    /\ UNCHANGED <<tail, bell, readTail, filled>>

Reading ==
    \/ Acknowledge \/ Load \/ LoadHead \/ NoData \/ CopyOut \/ Take \/ Flush \/ Dispatch
    \/ \E junk \in Junk : GetReadSize(junk) \/ NoSize(junk) \/ Check(junk)

-----------------------------------------------------------------------------
Next == (\E length \in Lengths : Reserve(length)) \/ Writing \/ Reading

Spec == Init /\ [][Next]_vars

-----------------------------------------------------------------------------
(* Properties.  They hold until a trace fills the buffer to the last cell, *)
(* which FullIsNotEmpty says never happens (README, "Divergences").        *)

Trace(id) == [i \in 1 .. lengths[id] |-> <<id, i - 1>>]

\* What the reader puts out is a trace that was written, whole, and one after the last:
\* a trace the writer has written over meanwhile is never put out, not even when the
\* tail has come round to the same place (CyclicBuffer.cpp:201-219).
ReadsWhole ==
    reader = "dispatch" /\ ~filled =>
        /\ copied[1][1] \in Traces /\ copied = Trace(copied[1][1])
        /\ copied[1][1] > last

\* Between tail and head stand the newest traces, whole and in order, whatever the writer
\* has been writing meanwhile and whoever has moved the tail (CyclicBuffer.cpp:303-328).
Published == IF writer \in {"idle", "ring"} THEN Current ELSE Current - 1
Content == [i \in 1 .. Used(head, tail) |-> cells[Offset(tail + i - 1)]]
After(cell) ==
    IF cell[2] + 1 = lengths[cell[1]] THEN <<cell[1] + 1, 0>> ELSE <<cell[1], cell[2] + 1>>
Intact ==
    Content # <<>> /\ ~filled =>
        /\ Content[1][2] = 0
        /\ \A i \in 2 .. Len(Content) : Content[i] = After(Content[i - 1])
        /\ After(Content[Len(Content)]) = <<Published + 1, 0>>

(* TLC finds these violated (README, "Divergences").                       *)

\* Head and tail are at one place only when the buffer is empty (CyclicBuffer.cpp:348).
FullIsNotEmpty == ~filled

\* Who is told of new data after the acknowledgement wakes again (TraceControl.h:689).
SleepsOnNothing == reader = "wait" /\ ~bell /\ writer = "idle" => Used(head, tail) = 0
=============================================================================
