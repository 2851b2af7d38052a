------------------------------ MODULE LagoSink ------------------------------
(***************************************************************************)
(* One call of LagoSink.deliver (sinks/lago/typescript/src): preflight,    *)
(* requests in chunks, retries, the resends after a 422, the Tally, and    *)
(* close() and the caller's abort signal at any moment.                    *)
(*                                                                         *)
(* Lago and the network are environment.  Lago ingests a request as a      *)
(* whole or not at all; the answer may be lost, replaced by a proxy's, or  *)
(* garbled, and a request the sink has given up may still be ingested.     *)
(*                                                                         *)
(* An action is the code between two awaits that matter: between the       *)
(* answer to a request and the next fetch() the sink looks at closed and   *)
(* at the signal only in #assertOpen and #interruption.  The loop of       *)
(* preflight is cut at every pass; nothing else runs in between.           *)
(*                                                                         *)
(* An event is named by the place in the batch of the record it was made   *)
(* of: a Map keeps its entries in the order they were first set, so a set  *)
(* of places is the list of its events, in ascending order.                *)
(***************************************************************************)
EXTENDS Integers, Sequences, FiniteSets, SinkEncoding

CONSTANTS Ids,          \* values of record_id
          Docs,         \* the records that occur, by name
          Batches,      \* arguments of deliver()
          ChunkSize,    \* MAX_EVENTS_PER_REQUEST
          MaxSalvagePasses,
          MaxAttempts,  \* retry.maxAttempts
          Instances     \* Lago: its LAGO_EVENTS_BATCH_MAX_LENGTH, and whether
                        \* its event store (Postgres) refuses a repeated event

(* encode: the event made of each record, or the error that is thrown.  Everything an event
   holds is among its properties. *)
Encoded == [b \in DOMAIN Docs |-> LagoEvent(Docs[b])]

ValidRetry == MaxAttempts \in Nat \ {0}

ASSUME SinkAssumption ==
  /\ MaxSalvagePasses \in Nat
  /\ ChunkSize \in Nat \ {0}
  /\ ValidRetry
  /\ Instances \subseteq [limit : Nat, postgres : BOOLEAN]

ASSUME BatchAssumption == IsFiniteSet(Ids) /\ \A b \in Batches : b \in Seq([id : Ids, body : DOMAIN Docs])

VARIABLES
  batch,      \* the argument of deliver()
  seen,       \* how many of its records preflight has judged
  events,     \* its events
  unsendable, \* records rejected by preflight
  phase,      \* where deliver() is
  start,      \* the first event of the chunk
  pending,    \* the events of the current request
  salvaged,   \* 422 responses acted on for this chunk
  attempt,    \* attempts of the current request
  confirmed, rejected, refused,  \* the Tally: what Lago's answers said
  stop,       \* the Tally: why sending stopped
  closed,     \* the transport is closed
  closing,    \* how far close() has come
  aborted,    \* the caller's signal
  lago,       \* Lago: the instance
  handled,    \* Lago: what it did with the current request
  stored,     \* Lago: the events it holds
  refusable,  \* Lago: the events it finds invalid
  late,       \* requests given up that Lago has not seen yet
  ingested,   \* history: events Lago took from this delivery
  unsure      \* history: events of an attempt that got no verdict

tallyVars == <<confirmed, rejected, refused>>

batchVars == <<batch, seen, events, unsendable>>

requestVars == <<start, pending, salvaged, attempt>>

lifeVars == <<closed, closing, aborted>>

lagoVars == <<lago, handled, stored, refusable, late, ingested>>

vars == <<batchVars, phase, requestVars, tallyVars, stop, lifeVars, lagoVars, unsure>>

(* The transaction ids of events. *)
IdsOf(S) == {batch[i].id : i \in S}

(* Where an event stands in a list of events. *)
Rank(i, S) == Cardinality({j \in S : j <= i})
-----------------------------------------------------------------------------
Phases == {"idle", "preflight", "posting", "waiting", "returned"}

Stops == {"none", "closed", "aborted", "unconfirmed", "retryable", "permanent"}

(* Types of the variables. *)
TypeOK ==
  /\ batch \in Batches
  /\ seen \in 0..Len(batch)
  /\ events \subseteq DOMAIN batch
  /\ phase \in Phases
  /\ start \in Nat
  /\ pending \subseteq DOMAIN batch
  /\ salvaged \in 0..MaxSalvagePasses
  /\ attempt \in 0..MaxAttempts
  /\ {unsendable, confirmed, rejected, refused, stored, refusable, ingested,
      unsure} \subseteq SUBSET Ids
  /\ stop \in Stops
  /\ closed \in BOOLEAN
  /\ aborted \in BOOLEAN
  /\ closing \in {"no", "waiting", "done"}
  /\ lago \in Instances
  /\ handled \in {"no", "ingested", "named", "too_many"}
  /\ late \subseteq SUBSET Ids

Init ==
  /\ batch \in Batches
  /\ lago \in Instances
  /\ seen = 0 /\ events = {} /\ unsendable = {}
  /\ refusable \in SUBSET IdsOf(DOMAIN batch)
  /\ stored \in SUBSET (IdsOf(DOMAIN batch) \ refusable)
  /\ phase = "idle"
  /\ start = 0 /\ pending = {} /\ salvaged = 0 /\ attempt = 0
  /\ confirmed = {} /\ rejected = {} /\ refused = {} /\ stop = "none"
  /\ closed = FALSE /\ closing = "no" /\ aborted = FALSE
  /\ handled = "no" /\ late = {} /\ ingested = {} /\ unsure = {}
-----------------------------------------------------------------------------
(* Sending.                                                                *)

(* The chunk of the events that begins after the first s. *)
Chunk(s) == {i \in events : Rank(i, events) \in s + 1 .. s + ChunkSize}

(* #interruption, and #assertOpen of the transport. *)
Interruption == IF closed THEN "closed" ELSE IF aborted THEN "aborted" ELSE "none"

MayPost == Interruption = "none"

(* deliver() has its answer. *)
Return(why) ==
  /\ phase' = "returned"
  /\ stop' = why
  /\ UNCHANGED requestVars

(* The next attempt is sent, or refused by the transport. *)
Post(s, request, passes, n) ==
  IF MayPost
    THEN /\ phase' = "posting"
         /\ start' = s /\ pending' = request /\ salvaged' = passes /\ attempt' = n
         /\ UNCHANGED stop
    ELSE Return(Interruption)

(* The loop of #deliver over the chunks. *)
PostChunk(s) ==
  IF s < Cardinality(events) THEN Post(s, Chunk(s), 0, 1) ELSE Return("none")

(* deliver() is called. *)
Deliver ==
  /\ phase = "idle"
  /\ IF closed THEN Return("closed")
     ELSE phase' = "preflight" /\ UNCHANGED <<requestVars, stop>>
  /\ UNCHANGED <<batchVars, tallyVars, lifeVars, lagoVars, unsure>>

(* Faulty variant: a rejected record keeps its event. *)
RejectKeeping(id) ==
  /\ unsendable' = unsendable \cup {id}
  /\ UNCHANGED events

Reject(id) ==
  /\ unsendable' = unsendable \cup {id}
  /\ events' = {i \in events : batch[i].id # id}

(* The event in the Map for the id of the i-th record, if there is one. *)
Earlier(i) == {j \in events : batch[j].id = batch[i].id}

(* What preflight makes of the i-th record. *)
Judge(i) ==
  LET encoded == Encoded[batch[i].body]
  IN IF encoded.issue # None THEN Reject(batch[i].id)
     ELSE IF batch[i].id \in unsendable THEN UNCHANGED <<events, unsendable>>
     ELSE IF Earlier(i) = {} THEN events' = events \cup {i} /\ UNCHANGED unsendable
     ELSE IF \A j \in Earlier(i) : Encoded[batch[j].body].properties = encoded.properties
       THEN UNCHANGED <<events, unsendable>>
     ELSE Reject(batch[i].id)

(* One pass of the loop of preflight. *)
PreflightPass ==
  /\ phase = "preflight"
  /\ seen < Len(batch)
  /\ seen' = seen + 1
  /\ Judge(seen + 1)
  /\ UNCHANGED <<batch, phase, requestVars, tallyVars, stop, lifeVars, lagoVars, unsure>>

(* Every record is judged, and sending begins. *)
PreflightEnds ==
  /\ phase = "preflight"
  /\ seen = Len(batch)
  /\ PostChunk(0)
  /\ UNCHANGED <<batchVars, tallyVars, lifeVars, lagoVars, unsure>>

(* Faulty variant: attempts are not counted. *)
NextAttemptSame == attempt

NextAttempt == attempt + 1

(* The wait of #backOff is over, or was interrupted. *)
BackOffEnds ==
  /\ phase = "waiting"
  /\ Post(start, pending, salvaged, NextAttempt)
  /\ UNCHANGED <<batchVars, tallyVars, lifeVars, lagoVars, unsure>>
-----------------------------------------------------------------------------
(* Lago.                                                                   *)

(* Positions in the request of the events Lago holds, and finds invalid. *)
DuplicateAt ==
  {Rank(i, pending) : i \in {j \in pending : lago.postgres /\ batch[j].id \in stored}}

InvalidAt == {Rank(i, pending) : i \in {j \in pending : batch[j].id \in refusable}}

(* Lago takes a set of events, all or none. *)
Takes(ids) ==
  /\ Cardinality(ids) <= lago.limit
  /\ ids \cap refusable = {}
  /\ lago.postgres => ids \cap stored = {}

Ingest(ids) ==
  /\ stored' = stored \cup ids
  /\ ingested' = ingested \cup ids

(* Lago gets the request. *)
LagoHandles ==
  /\ phase = "posting"
  /\ handled = "no"
  /\ IF Takes(IdsOf(pending))
       THEN handled' = "ingested" /\ Ingest(IdsOf(pending))
       ELSE /\ handled' = IF Cardinality(pending) > lago.limit THEN "too_many" ELSE "named"
            /\ UNCHANGED <<stored, ingested>>
  /\ UNCHANGED <<batchVars, phase, requestVars, tallyVars, stop, lifeVars, lago, refusable, late, unsure>>

(* Lago gets a request that the sink has given up. *)
LagoHandlesLate(ids) ==
  /\ ids \in late
  /\ late' = late \ {ids}
  /\ IF Takes(ids) THEN Ingest(ids) ELSE UNCHANGED <<stored, ingested>>
  /\ UNCHANGED <<batchVars, phase, requestVars, tallyVars, stop, lifeVars, lago, handled, refusable,
                 unsure>>
-----------------------------------------------------------------------------
(* The answer to a request: #exchange and #deliverChunk.                   *)

(* The request is over for the sink, not for Lago if it is still on its    *)
(* way.                                                                    *)
GiveUp(mayArrive) ==
  /\ phase = "posting"
  /\ handled' = "no"
  /\ late' = IF mayArrive /\ handled = "no" THEN late \cup {IdsOf(pending)} ELSE late
  /\ UNCHANGED <<batchVars, lifeVars, lago, stored, refusable, ingested>>

Unsure == unsure' = unsure \cup IdsOf(pending)

(* Status 200. *)
Answer200 ==
  /\ handled = "ingested"
  /\ GiveUp(FALSE)
  /\ confirmed' = confirmed \cup IdsOf(pending)
  /\ PostChunk(start + ChunkSize)
  /\ UNCHANGED <<rejected, refused, unsure>>

(* Another 2xx, from Lago or from a proxy. *)
AnswerUnconfirmed ==
  /\ GiveUp(TRUE)
  /\ Return("unconfirmed")
  /\ UNCHANGED <<tallyVars, unsure>>

LastAttempt == attempt >= MaxAttempts

(* 408, 429, 5xx, a network error or the request's timeout. *)
AnswerTransient ==
  /\ GiveUp(TRUE)
  /\ Unsure
  /\ IF LastAttempt THEN Return("retryable")
     ELSE phase' = "waiting" /\ UNCHANGED <<requestVars, stop>>
  /\ UNCHANGED tallyVars

(* fetch() is cut short by close() or the signal. *)
Interrupted ==
  /\ Interruption # "none"
  /\ GiveUp(TRUE)
  /\ Return(Interruption)
  /\ UNCHANGED <<tallyVars, unsure>>

(* Tally.refuse and a permanent failure. *)
RefuseAll ==
  /\ refused' = refused \cup IdsOf(pending)
  /\ Return("permanent")
  /\ UNCHANGED <<confirmed, rejected, unsure>>

(* 401, 403, 413 or any other status: the request is refused unread. *)
AnswerPermanent ==
  /\ handled = "no"
  /\ GiveUp(FALSE)
  /\ RefuseAll

(* A 422 that names too_many_events. *)
AnswerTooMany ==
  /\ handled = "too_many"
  /\ GiveUp(FALSE)
  /\ RefuseAll

(* The passes are used up: the rest stays without an outcome. *)
GiveUpSalvage ==
  /\ Return("permanent")
  /\ UNCHANGED <<tallyVars, unsure>>

(* A 422 whose body cannot be read, or not be matched to the request.      *)
AnswerGarbled ==
  /\ handled \in {"named", "too_many"}
  /\ GiveUp(FALSE)
  /\ \/ /\ Interruption # "none"
        /\ Return(Interruption)
        /\ UNCHANGED <<tallyVars, unsure>>
     \/ /\ salvaged = MaxSalvagePasses
        /\ GiveUpSalvage
     \/ /\ salvaged < MaxSalvagePasses
        /\ RefuseAll

(* Faulty variant: positions count from the chunk that was first sent. *)
NamedInChunk(positions) == {i \in Chunk(start) : Rank(i, Chunk(start)) \in positions}

(* The events at these positions of the request. *)
Named(positions) == {i \in pending : Rank(i, pending) \in positions}

(* A 422 that names events: duplicates are confirmed, the invalid ones     *)
(* rejected, the others sent again as a new request.                       *)
AnswerNamed ==
  /\ handled = "named"
  /\ GiveUp(FALSE)
  /\ IF salvaged = MaxSalvagePasses THEN GiveUpSalvage
     ELSE LET survivors == pending \ Named(DuplicateAt \cup InvalidAt)
          IN  /\ confirmed' = confirmed \cup IdsOf(Named(DuplicateAt))
              /\ rejected' = rejected \cup IdsOf(Named(InvalidAt))
              /\ IF survivors = {} THEN PostChunk(start + ChunkSize)
                 ELSE Post(start, survivors, salvaged + 1, 1)
              /\ UNCHANGED <<refused, unsure>>
-----------------------------------------------------------------------------
(* close() and the caller's signal.                                        *)

Close ==
  /\ phase # "preflight"
  /\ closing = "no"
  /\ closed' = TRUE
  /\ closing' = IF phase = "posting" THEN "waiting" ELSE "done"
  /\ UNCHANGED <<batchVars, phase, requestVars, tallyVars, stop, aborted, lagoVars, unsure>>

(* The requests in flight have settled. *)
CloseReturns ==
  /\ closing = "waiting"
  /\ phase # "posting"
  /\ closing' = "done"
  /\ UNCHANGED <<batchVars, phase, requestVars, tallyVars, stop, closed, aborted, lagoVars, unsure>>

Abort ==
  /\ phase # "preflight"
  /\ ~aborted
  /\ aborted' = TRUE
  /\ UNCHANGED <<batchVars, phase, requestVars, tallyVars, stop, closed, closing, lagoVars, unsure>>
-----------------------------------------------------------------------------
(* Tally.result, and what Pipeline.#apply makes of it for one record.      *)

(* Some record has an outcome of its own. *)
Settled == confirmed # {} \/ rejected # {} \/ unsendable # {}

Unresolved == IdsOf(events) \ (confirmed \cup rejected \cup refused)

AnsweredAccepted == stop \in {"none", "aborted", "unconfirmed"} \/ Settled

Outcome(id) ==
  IF AnsweredAccepted
    THEN IF id \in unsendable \cup rejected \cup (IF stop = "none" THEN {} ELSE refused)
           THEN "rejected"
         ELSE IF id \in Unresolved THEN "unknown" ELSE "sent"
    ELSE stop
-----------------------------------------------------------------------------
Answer ==
  \/ Answer200
  \/ AnswerUnconfirmed
  \/ AnswerTransient
  \/ AnswerPermanent
  \/ AnswerTooMany
  \/ AnswerGarbled
  \/ AnswerNamed

Next ==
  \/ Deliver
  \/ PreflightPass
  \/ PreflightEnds
  \/ Answer
  \/ Interrupted
  \/ BackOffEnds
  \/ LagoHandles
  \/ \E ids \in late : LagoHandlesLate(ids)
  \/ Close
  \/ CloseReturns
  \/ Abort

(* A request ends at the latest by timeoutMs; an aborted fetch() settles.  *)
Fairness ==
  /\ WF_vars(Deliver \/ PreflightPass \/ PreflightEnds)
  /\ WF_vars(Answer \/ Interrupted)
  /\ WF_vars(BackOffEnds)
  /\ WF_vars(CloseReturns)

Spec == Init /\ [][Next]_vars /\ Fairness
-----------------------------------------------------------------------------
(* Properties.                                                             *)

Returned == phase = "returned"

FaithfulDocs ==
  {b \in DOMAIN Docs : /\ Encoded[b].issue = None
                       /\ Faithful(Docs[b], Unrenamed, Encoded[b].properties)}

(* The records that encode and have the same fields in the same order as this one. *)
AlikeDocs ==
  [a \in DOMAIN Docs |->
     {b \in DOMAIN Docs : Encoded[b].issue = None /\ Defined(Docs[a]) = Defined(Docs[b])}]

(* encode is faithful on the records that occur (whole, for what the schema admits), and tells them
   apart by their fields. *)
EncodingExact ==
  \A a, b \in DOMAIN Docs : Encoded[a].issue = None /\ Encoded[b].issue = None =>
    /\ a \in FaithfulDocs
    /\ Encoded[a].properties = Encoded[b].properties <=> Defined(Docs[a]) = Defined(Docs[b])

(* preflight sends one event for every record_id whose records all encode and have the same
   fields in the same order, and rejects all the others by name; the event stands where the
   first record of the id does.  The loop may see the records of one id in any order, and a
   field without a value does not count.  The event of whatever the schema admits has every field
   of the record, each under a name of its own (docs/reference.md, "every property name maps back to
   exactly one field"); an object that the schema does not admit, which preflight does not
   check for, may lose a field to another whose key spells its path (see Faithful). *)
PreflightExact ==
  LET all == IdsOf(DOMAIN batch)
      Records(id) == {batch[i].body : i \in {j \in DOMAIN batch : batch[j].id = id}}
      Usable(id) == \A b \in Records(id) : Records(id) \subseteq AlikeDocs[b]
  IN  phase \notin {"idle", "preflight"} /\ stop # "closed" =>
      /\ IdsOf(events) = {id \in all : Usable(id)}
      /\ unsendable = all \ IdsOf(events)
      /\ \A i \in events : \A j \in 1..i-1 : batch[j].id # batch[i].id
      /\ \A id \in IdsOf(events) : Records(id) \subseteq FaithfulDocs

(* A record the sink answers for as sent is held by Lago, however many     *)
(* attempts, resends and lost answers there were: Tally confirms nothing   *)
(* it was not told.                                                        *)
SentIsHeld == Returned => \A id \in IdsOf(events) : Outcome(id) = "sent" => id \in stored

(* "A later failure never relabels such a record" (tally.ts): what Lago    *)
(* confirmed in one request is answered sent whatever happens to a later   *)
(* request of the batch.                                                   *)
ConfirmedStaysSent == Returned => \A id \in confirmed : Outcome(id) = "sent"

(* A record that Lago took is never answered as lost for good: it is sent, *)
(* unknown, or fails in a way that may be retried, if every attempt that   *)
(* carried it got an answer; also when the last request was cut short or   *)
(* answered with a 2xx that confirms nothing.                              *)
TakenNotLost ==
  Returned => \A id \in ingested \ unsure :
                Outcome(id) \in {"sent", "unknown", "retryable", "closed"}

(* Only an event that Lago itself finds invalid is rejected one by one:    *)
(* the positions a 422 names are those of the request it answers, also     *)
(* after resends.                                                          *)
RejectedWereRefused == rejected \subseteq refusable /\ confirmed \subseteq stored

(* Once close() has returned no request is on its way, and none is sent.   *)
ClosedIsQuiet == closing = "done" => phase # "posting"

(* deliver() returns, whatever Lago answers, within its bounded attempts   *)
(* and passes.                                                             *)
DeliverReturns == phase = "posting" ~> Returned

(* What deliver() answers for each record agrees with what Lago holds, whatever was lost,
   late, garbled, refused or sent again. *)
OutcomesTrue ==
  TypeOK /\ SentIsHeld /\ ConfirmedStaysSent /\ TakenNotLost /\ RejectedWereRefused

(* deliver() always returns, and after close() nothing is under way. *)
EndsQuietly == []ClosedIsQuiet /\ DeliverReturns
=============================================================================
