--------------------------- MODULE ChargebeeSink ---------------------------
(***************************************************************************)
(* One call of ChargebeeSink.deliver, in both implementations              *)
(* (sinks/chargebee/typescript/src and                                     *)
(* sinks/chargebee/python/src/audr_sink_chargebee): the local judgement of *)
(* the records, one request with retries, the reading of a 207, and        *)
(* close(), or the cancellation of the task, at any moment.                *)
(*                                                                         *)
(* The two follow the same steps.  They differ in how a request ends when  *)
(* the client closes (Interrupted, CloseReturns) and in that the Python    *)
(* one can be cancelled by its caller (Cancel).                            *)
(*                                                                         *)
(* Chargebee and the network are environment: Chargebee takes or refuses   *)
(* every event of a request on its own, takes a deduplication_id it holds  *)
(* without harm, and its answer may be lost, garbled or name failures that *)
(* cannot be matched.                                                      *)
(***************************************************************************)
EXTENDS Integers, Sequences, FiniteSets, Functions, SinkEncoding

CONSTANTS Ids,          \* values of record_id
          Docs,         \* the records that occur, by name
          Batches,      \* arguments of deliver()
          MaxAttempts   \* retry.maxAttempts

(* What is made of each record: an event, or an InvalidUsageEventError. *)
Encoded == [b \in DOMAIN Docs |-> ChargebeeEvent(Docs[b])]

Unusable == {b \in DOMAIN Docs : Encoded[b].issue # None}

ValidRetry == MaxAttempts \in Nat \ {0}

ASSUME SinkAssumption ==
  /\ ValidRetry
  /\ IsFiniteSet(Ids)
  /\ \A b \in Batches : b \in Seq([id : Ids, body : DOMAIN Docs])

ASSUME DocsAssumption == \A b \in DOMAIN Docs : IsRecord(Docs[b])

VARIABLES
  runtime,   \* which implementation this is
  batch,     \* the argument of deliver()
  events,    \* deduplication ids of its events
  local,     \* records rejected without being sent
  phase,     \* where deliver() is
  attempt,   \* number of the current attempt
  result,    \* the BatchResult
  closed,    \* the transport is closed
  closing,   \* how far close() has come
  handled,   \* Chargebee: it has read the current request
  stored,    \* Chargebee: the ids it holds
  refusable, \* Chargebee: the ids whose events it refuses
  late,      \* requests given up may still reach Chargebee
  ingested,  \* history: ids Chargebee took from this delivery
  unsure     \* history: an attempt of this delivery got no verdict

batchVars == <<runtime, batch, events, local>>

lifeVars == <<closed, closing>>

billVars == <<handled, stored, refusable, late, ingested>>

vars == <<batchVars, phase, attempt, result, lifeVars, billVars, unsure>>
-----------------------------------------------------------------------------
Outcomes == {"none", "accepted", "retryable_failure", "permanent_failure", "closed", "cancelled"}

Result(outcome, rejected, unknown) ==
  [outcome |-> outcome, rejected |-> rejected, unknown |-> unknown]

Whole(outcome) == Result(outcome, {}, {})

(* Types of the variables. *)
TypeOK ==
  /\ runtime \in {"typescript", "python"}
  /\ batch \in Batches
  /\ events \subseteq Ids
  /\ local \subseteq Ids
  /\ phase \in {"idle", "posting", "waiting", "returned"}
  /\ attempt \in 0..MaxAttempts
  /\ result \in [outcome : Outcomes, rejected : SUBSET Ids, unknown : SUBSET Ids]
  /\ closed \in BOOLEAN
  /\ closing \in {"no", "waiting", "done"}
  /\ handled \in BOOLEAN
  /\ stored \subseteq Ids
  /\ refusable \subseteq Ids \ stored
  /\ late \in BOOLEAN
  /\ ingested \subseteq stored
  /\ unsure \in BOOLEAN

Init ==
  /\ runtime \in {"typescript", "python"}
  /\ batch \in Batches
  /\ events = {} /\ local = {}
  /\ phase = "idle" /\ attempt = 0 /\ result = Whole("none")
  /\ closed = FALSE /\ closing = "no"
  /\ handled = FALSE /\ late = FALSE /\ ingested = {} /\ unsure = FALSE
  /\ refusable \in SUBSET {r.id : r \in Range(batch)}
  /\ stored \in SUBSET ({r.id : r \in Range(batch)} \ refusable)
-----------------------------------------------------------------------------
(* deliver().                                                              *)

(* The events built from the batch, and the records rejected by name. *)
BuildEvents(b) == {r.id : r \in {q \in Range(b) : q.body \notin Unusable}}

RejectedLocally(b) == {r.id : r \in {q \in Range(b) : q.body \in Unusable}}

(* The outcome of a whole batch is returned as it is; an accepted one is   *)
(* joined with the local rejections.                                       *)
WithLocal(res) ==
  IF res.outcome = "accepted" THEN [res EXCEPT !.rejected = @ \cup local] ELSE res

(* deliver() has its answer. *)
Return(res) ==
  /\ phase' = "returned"
  /\ result' = WithLocal(res)
  /\ UNCHANGED attempt

MayPost == ~closed

(* post() of the transport: a request, or ClosedError. *)
Post(n) ==
  IF MayPost
    THEN phase' = "posting" /\ attempt' = n /\ UNCHANGED result
    ELSE Return(Whole("closed"))

Deliver ==
  /\ phase = "idle"
  /\ IF closed
       THEN /\ UNCHANGED <<events, local>>
            /\ Return(Whole("closed"))
       ELSE /\ events' = BuildEvents(batch)
            /\ local' = RejectedLocally(batch)
            /\ IF events' = {} THEN Return(Result("accepted", local', {})) ELSE Post(1)
  /\ UNCHANGED <<runtime, batch, lifeVars, billVars, unsure>>

(* Faulty variant: attempts are not counted. *)
NextAttemptSame == attempt

NextAttempt == attempt + 1

(* The delay is over; in TypeScript close() cuts it short. *)
PauseEnds ==
  /\ phase = "waiting"
  /\ Post(NextAttempt)
  /\ UNCHANGED <<batchVars, lifeVars, billVars, unsure>>
-----------------------------------------------------------------------------
(* Chargebee.  It judges every event alike each time, and an id it holds   *)
(* is no failure.                                                          *)

Refused == events \cap refusable

Ingest(ids) ==
  /\ stored' = stored \cup ids
  /\ ingested' = ingested \cup (ids \ stored)

ChargebeeHandles ==
  /\ phase = "posting"
  /\ ~handled
  /\ handled' = TRUE
  /\ Ingest(events \ refusable)
  /\ UNCHANGED <<batchVars, phase, attempt, result, lifeVars, refusable, late, unsure>>

(* Chargebee gets a request that the sink has given up, or gets through a  *)
(* part of one.                                                            *)
ChargebeeHandlesLate ==
  /\ late
  /\ \E ids \in SUBSET (events \ refusable) : Ingest(ids)
  /\ UNCHANGED <<batchVars, phase, attempt, result, lifeVars, handled, refusable, late, unsure>>
-----------------------------------------------------------------------------
(* The answer to a request.                                                *)

(* The request is over for the sink, not for Chargebee if it is still on   *)
(* its way.                                                                *)
RequestEnds(mayArrive) ==
  /\ phase = "posting"
  /\ handled' = FALSE
  /\ late' = (late \/ (mayArrive /\ ~handled))
  /\ UNCHANGED <<batchVars, lifeVars, stored, refusable, ingested>>

(* Status 202: every event was taken. *)
Answer202 ==
  /\ handled /\ Refused = {}
  /\ RequestEnds(FALSE)
  /\ Return(Whole("accepted"))
  /\ UNCHANGED unsure

(* Faulty variant: a failure that cannot be matched is ignored. *)
PartialNamed(named, unmatched) == Result("accepted", named, {})

(* A 207 that names these events, and has this many failures it does not   *)
(* name, names twice, or names by an id that is not in the batch.          *)
Partial(named, unmatched) ==
  Result("accepted", named, IF unmatched = 0 THEN {} ELSE events \ named)

(* Status 207: each refused event is named, or is a failure without a      *)
(* usable name; a named one may be repeated, which cannot be matched       *)
(* either.                                                                 *)
Answer207 ==
  /\ handled
  /\ RequestEnds(FALSE)
  /\ \E named \in SUBSET Refused, repeated \in {0, 1} :
       Return(Partial(named, Cardinality(Refused \ named) + repeated))
  /\ UNCHANGED unsure

(* Status 207 whose body is lost, cut short by close(), or no list. *)
AnswerUnparseable ==
  /\ handled
  /\ RequestEnds(FALSE)
  /\ Return(Result("accepted", {}, events))
  /\ UNCHANGED unsure

LastAttempt == attempt >= MaxAttempts

(* A retry, or the end of the retries. *)
RetryOrFail ==
  IF LastAttempt THEN Return(Whole("retryable_failure"))
  ELSE phase' = "waiting" /\ UNCHANGED <<attempt, result>>

(* 408, 429, 5xx; the request's timeout; a network error that is not the   *)
(* doing of close().                                                       *)
AnswerTransient ==
  /\ RequestEnds(TRUE)
  /\ RetryOrFail
  /\ unsure' = TRUE

(* 401, 413 or any other status: the request is refused unread.            *)
AnswerPermanent ==
  /\ ~handled
  /\ RequestEnds(FALSE)
  /\ Return(Whole("permanent_failure"))
  /\ UNCHANGED unsure

(* The request is cut short by close().  In TypeScript any error is then a *)
(* ClosedError.  In Python a RuntimeError of the closed client is one, and *)
(* a connection that breaks is a RequestError, that is, AnswerTransient.   *)
Interrupted ==
  /\ closed
  /\ RequestEnds(TRUE)
  /\ Return(Whole("closed"))
  /\ UNCHANGED unsure
-----------------------------------------------------------------------------
(* close(), and the cancellation of the task that awaits deliver().        *)

(* In TypeScript close() waits for the request to settle. *)
CloseBegins == IF phase = "posting" THEN "waiting" ELSE "done"

Close ==
  /\ closing = "no"
  /\ closed' = TRUE
  /\ closing' = CloseBegins
  /\ UNCHANGED <<batchVars, phase, attempt, result, billVars, unsure>>

CloseReturns ==
  /\ closing = "waiting"
  /\ runtime = "typescript" => phase # "posting"
  /\ closing' = "done"
  /\ UNCHANGED <<batchVars, phase, attempt, result, closed, billVars, unsure>>

(* CancelledError comes out of post() or sleep(), and out of deliver(). *)
Cancel ==
  /\ runtime = "python"
  /\ phase \in {"posting", "waiting"}
  /\ phase' = "returned"
  /\ result' = Whole("cancelled")
  /\ handled' = FALSE
  /\ late' = (late \/ (phase = "posting" /\ ~handled))
  /\ UNCHANGED <<batchVars, attempt, lifeVars, stored, refusable, ingested, unsure>>
-----------------------------------------------------------------------------
Answer ==
  \/ Answer202
  \/ Answer207
  \/ AnswerUnparseable
  \/ AnswerTransient
  \/ AnswerPermanent

Next ==
  \/ Deliver
  \/ Answer
  \/ Interrupted
  \/ PauseEnds
  \/ ChargebeeHandles
  \/ ChargebeeHandlesLate
  \/ Close
  \/ CloseReturns
  \/ Cancel

(* A request ends at the latest by its timeout. *)
Fairness ==
  /\ WF_vars(Deliver)
  /\ WF_vars(Answer \/ Interrupted)
  /\ WF_vars(PauseEnds)
  /\ WF_vars(CloseReturns)

Spec == Init /\ [][Next]_vars /\ Fairness
-----------------------------------------------------------------------------
(* Properties.                                                             *)

Returned == phase = "returned"

(* What the client makes of the result for the records of one id. *)
Outcome(id) ==
  IF result.outcome # "accepted" THEN result.outcome
  ELSE IF id \in result.rejected THEN "rejected"
  ELSE IF id \in result.unknown THEN "unknown" ELSE "sent"

(* A record that counts as sent is held by Chargebee: neither a 207 that   *)
(* names some of its failures and leaves others unmatched, nor a lost      *)
(* answer before it, makes the sink vouch for an event that was refused.   *)
SentIsHeld == Returned => \A r \in Range(batch) : Outcome(r.id) = "sent" => r.id \in stored

(* A record that Chargebee took is never lost for good: it is not rejected *)
(* by name, and a permanent failure of the batch takes none with it unless *)
(* an attempt before it got no verdict.                                    *)
TakenNotLost ==
  Returned =>
    /\ \A id \in stored \ local : Outcome(id) # "rejected"
    /\ result.outcome = "permanent_failure" => unsure \/ ingested = {}

(* A record that cannot become an event is never sent, and an accepted     *)
(* batch still answers for it by name, whatever came of the request that   *)
(* carried the other records.                                              *)
UnusableAnswered ==
  /\ ingested \subseteq {r.id : r \in {q \in Range(batch) : q.body \notin Unusable}}
  /\ result.outcome = "accepted" =>
       \A r \in Range(batch) : r.body \in Unusable => Outcome(r.id) = "rejected"

(* Once close() has begun no request is sent, whatever deliver() was       *)
(* waiting for; in TypeScript none is on its way when close() returns.     *)
ClosedIsQuiet ==
  /\ [][closed /\ phase' = "posting" => phase = "posting"]_vars
  /\ [](runtime = "typescript" /\ closing = "done" => phase # "posting")

(* deliver() returns within its attempts, whatever Chargebee answers. *)
DeliverReturns == phase = "posting" ~> Returned

(* deliver() always ends, and close() ends what it does on the network. *)
EndsQuietly == ClosedIsQuiet /\ DeliverReturns

FaithfulDocs ==
  {b \in DOMAIN Docs \ Unusable : Faithful(Docs[b], RewriteLabels, Encoded[b].properties)}

(* An event that is sent of whatever the schema admits holds every field of its record, each under
   a name of its own, "every property name maps back to exactly one field" (docs/reference.md):
   label keys that differ only in '.' and '-' never make one label overwrite another, keys of
   labels and extensions that spell a path (x_a__b, b__json) take no other field's name, and
   arrays and absent values neither get lost nor push a neighbour out.  What the schema does not
   admit, and deliver() does not check for, may lose a field to another whose key spells its
   path (see Faithful), but no name is there twice and every property is a field. *)
EventsFaithful == \A r \in Range(batch) : r.id \in events \ local => r.body \in FaithfulDocs

(* What deliver() answers for each record agrees with what Chargebee holds, in both
   languages, whatever was lost, late, garbled or refused in part. *)
OutcomesTrue == TypeOK /\ SentIsHeld /\ TakenNotLost /\ UnusableAnswered
=============================================================================
