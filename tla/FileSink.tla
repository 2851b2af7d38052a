------------------------------ MODULE FileSink ------------------------------
(* The file sinks of both languages: batches of records appended to a file as *)
(* lines.  The TypeScript sink chains concurrent deliveries and writes a batch *)
(* with one call; the Python sink writes record by record into a buffered      *)
(* stream inside one step of the event loop.  The file system may fail at any  *)
(* byte of what TypeScript writes; a failure that leaves part of Python's text  *)
(* in the stream's buffer parts it between lines, as the rest of a line follows *)
(* it at the next flush.  A line is the sequence of records whose text it       *)
(* holds, and "torn" marks text that was cut off.                              *)
EXTENDS Naturals, Sequences, FiniteSets, SequencesExt

CONSTANTS
  Batches,     \* the batches delivered: sequences of records, by number
  Unencodable, \* records encodeRecord() refuses (TypeScript)
  MaxFailures  \* bound: calls of the file system that fail

(* The client hands each record over once. *)
ASSUME BatchShape ==
  /\ DOMAIN Batches \subseteq Nat /\ MaxFailures \in Nat
  /\ \A b \in DOMAIN Batches : Batches[b] \in Seq(Range(Batches[b])) /\ Batches[b] # <<>>
  /\ \A b, c \in DOMAIN Batches : b # c => Range(Batches[b]) \cap Range(Batches[c]) = {}

VARIABLES
  runtime,  \* "ts" or "py"
  owns,     \* the sink opened, or will open, the file itself
  stream,   \* #file, _stream: "none", "open" or "closed"
  closing,  \* #closing, _closed
  closed,   \* close() has returned
  chain,    \* the batches whose writes are chained, in order (TypeScript)
  answer,   \* what deliver() answered for each batch, or "none"
  file,     \* the lines in the file; the last one may lack its end
  buffer,   \* text the Python stream has yet to flush
  failures, \* failures of the file system so far
  asked     \* history: the batches, in the order deliver() was called

fileVars == <<runtime, owns, stream, closing, closed, chain, answer, file, buffer, failures, asked>>
-----------------------------------------------------------------------------
(* Text: a whole line is <<"line", r>>, one that was cut off <<"torn", r>>.    *)

Lines(batch) == [k \in DOMAIN batch |-> <<"line", batch[k]>>]

(* The texts a failing write may leave behind: some whole lines, and perhaps the start of
   the next. *)
Cut(text) ==
  {SubSeq(text, 1, n) : n \in 0..(Len(text) - 1)} \cup
  {Append(SubSeq(text, 1, n), <<"torn", text[n + 1][2]>>) : n \in 0..(Len(text) - 1)}

FileInit ==
  /\ runtime \in {"ts", "py"} /\ owns \in (IF runtime = "ts" THEN {TRUE} ELSE BOOLEAN)
  /\ stream = (IF owns THEN "none" ELSE "open")
  /\ closing = FALSE /\ closed = FALSE /\ chain = <<>>
  /\ answer = [b \in DOMAIN Batches |-> "none"]
  /\ file = <<>> /\ buffer = <<>> /\ failures = 0 /\ asked = <<>>

Answer(b, result) == answer' = [answer EXCEPT ![b] = result]

Fails == failures < MaxFailures /\ failures' = failures + 1
-----------------------------------------------------------------------------
(* TypeScript.                                                             *)

(* deliver(): refused once closing, else chained behind the writes asked for before. *)
Deliver(b) ==
  /\ runtime = "ts" /\ b \notin Range(asked)
  /\ asked' = Append(asked, b)
  /\ IF closing THEN Answer(b, "closed") /\ UNCHANGED chain
     ELSE chain' = Append(chain, b) /\ UNCHANGED answer
  /\ UNCHANGED <<runtime, owns, stream, closing, closed, file, buffer, failures>>

Encodable(batch) == Range(batch) \cap Unencodable = {}

(* Faulty variant: a record that cannot be encoded is skipped. *)
EncodeSkipping(batch) == SelectSeq(Lines(batch), LAMBDA line : line[2] \notin Unencodable)

Encode(batch) == IF Encodable(batch) THEN Lines(batch) ELSE <<>>

(* #write of the first batch in the chain. *)
Write ==
  /\ runtime = "ts" /\ chain # <<>>
  /\ chain' = Tail(chain)
  /\ LET b == Head(chain)
         text == Encode(Batches[b])
     IN \/ /\ text = <<>> /\ Answer(b, "permanent_failure")
           /\ UNCHANGED <<stream, file, failures>>
        \/ /\ text # <<>> /\ stream = "none" /\ Fails   \* open() fails
           /\ Answer(b, "retryable_failure")
           /\ UNCHANGED <<stream, file>>
        \/ /\ text # <<>> /\ Fails                      \* appendFile() fails
           /\ \E part \in Cut(text) : file' = file \o part
           /\ stream' = "open" /\ Answer(b, "retryable_failure")
        \/ /\ text # <<>>
           /\ file' = file \o text /\ stream' = "open" /\ Answer(b, "accepted")
           /\ UNCHANGED failures
  /\ UNCHANGED <<runtime, owns, closing, closed, buffer, asked>>

Close ==
  /\ runtime = "ts" /\ ~closing
  /\ closing' = TRUE
  /\ UNCHANGED <<runtime, owns, stream, closed, chain, answer, file, buffer, failures, asked>>

(* #close goes on when the chain is empty; the file's own close never throws. *)
CloseReturns ==
  /\ runtime = "ts" /\ closing /\ ~closed /\ chain = <<>>
  /\ closed' = TRUE /\ stream' = IF stream = "open" THEN "closed" ELSE stream
  /\ UNCHANGED <<runtime, owns, closing, chain, answer, file, buffer, failures, asked>>
-----------------------------------------------------------------------------
(* Python.  deliver() never awaits, so it is one step.                     *)

(* write() and flush(): held is in the stream's buffer and text is still to be written; all
   reaches the file, or an error leaves some of it there and some in the buffer, in whole
   lines. *)
Flushed(held, text) ==
  \/ file' = file \o held \o text /\ buffer' = <<>> /\ UNCHANGED failures
  \/ /\ Fails
     /\ \E m \in 0..Len(text) :
          LET all == held \o SubSeq(text, 1, m)
          IN \E n \in 0..Len(all) : /\ file' = file \o SubSeq(all, 1, n)
                                   /\ buffer' = SubSeq(all, n + 1, Len(all))

PyDeliver(b) ==
  /\ runtime = "py" /\ b \notin Range(asked)
  /\ asked' = Append(asked, b)
  /\ IF closing THEN Answer(b, "closed") /\ UNCHANGED <<stream, file, buffer, failures>>
     ELSE \/ /\ stream = "none" /\ Fails
             /\ Answer(b, "retryable_failure") /\ UNCHANGED <<stream, file, buffer>>
          \/ /\ stream' = "open"
             /\ Flushed(buffer, Lines(Batches[b]))
             /\ Answer(b, IF failures' = failures THEN "accepted" ELSE "retryable_failure")
  /\ UNCHANGED <<runtime, owns, closing, closed, chain>>

(* close() of an owned stream flushes what is left; it is marked closed first. *)
PyClose ==
  /\ runtime = "py" /\ ~closing
  /\ closing' = TRUE /\ closed' = TRUE
  /\ IF owns /\ stream = "open" THEN Flushed(buffer, <<>>) /\ stream' = "closed"
     ELSE UNCHANGED <<stream, file, buffer, failures>>
  /\ UNCHANGED <<runtime, owns, chain, answer, asked>>
-----------------------------------------------------------------------------
FileNext ==
  \/ \E b \in DOMAIN Batches : Deliver(b) \/ PyDeliver(b)
  \/ Write \/ Close \/ CloseReturns \/ PyClose

FileSpec == FileInit /\ [][FileNext]_fileVars
-----------------------------------------------------------------------------
(* Properties.                                                             *)

(* The texts of record r that a reader of the file can parse: whole, and not glued to text
   that was cut off before it. *)
Readable(r) ==
  \E k \in DOMAIN file : /\ file[k] = <<"line", r>>
                         /\ k > 1 => file[k - 1][1] # "torn"

Accepted == {b \in DOMAIN Batches : answer[b] = "accepted"}

(* deliver() tells the truth about the file, however deliveries, failures and close()
   overlap: accepted batches are there whole and in the order asked for; a batch refused
   for good, or after close(), left nothing; close() returns when all is answered.  An
   accepted record is unreadable only when it follows text an earlier failure cut off, at
   most one for each failure. *)
FileTruthful ==
  /\ \A b \in DOMAIN Batches :
       /\ answer[b] = "accepted" =>
            \E k \in 1..(Len(file) - Len(Batches[b]) + 1) :
              SubSeq(file, k, k + Len(Batches[b]) - 1) = Lines(Batches[b])
       /\ answer[b] \in {"permanent_failure", "closed"} =>
            \A k \in DOMAIN file : file[k][2] \notin Range(Batches[b])
  /\ \A i, j \in DOMAIN asked : i < j /\ {asked[i], asked[j]} \subseteq Accepted =>
       \E m, n \in DOMAIN file : /\ m < n /\ file[m] = <<"line", Batches[asked[i]][1]>>
                                 /\ file[n] = <<"line", Batches[asked[j]][1]>>
  /\ closed => \A k \in DOMAIN asked : answer[asked[k]] # "none"
  /\ Cardinality({r \in UNION {Range(Batches[b]) : b \in Accepted} : ~Readable(r)}) <= failures
=============================================================================
