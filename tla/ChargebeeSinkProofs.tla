------------------------ MODULE ChargebeeSinkProofs ------------------------
(***************************************************************************)
(* What TLAPS proves of ChargebeeSink for every batch, every set of ids    *)
(* and any number of attempts: the outcome deliver() gives each record is  *)
(* true of what Chargebee holds, whatever is lost, late or refused.  And   *)
(* of SinkEncoding for every record: that the events of both sinks hold    *)
(* it, and that Lago's tell records apart.                                 *)
(***************************************************************************)
EXTENDS ChargebeeSink, FiniteSetTheorems, WellFoundedInduction, TLAPS

(* The events and the local rejections, once deliver() has judged the      *)
(* batch: together they answer for every record of it.                     *)
Judged == events = BuildEvents(batch) /\ local = RejectedLocally(batch)

(* What deliver() knows while it runs. *)
ProgressInv ==
  /\ Judged \/ (events = {} /\ local = {})
  /\ phase = "idle" => events = {} /\ local = {}
  /\ phase \in {"posting", "waiting"} => Judged
  /\ phase # "returned" => result = Whole("none")
  /\ phase = "waiting" => attempt < MaxAttempts
  /\ ingested \subseteq events

(* What Chargebee has done for it: a request that was read left nothing    *)
(* that could be taken, and before a verdict was lost nothing is taken     *)
(* behind the sink's back.                                                 *)
HeldInv ==
  /\ handled => phase = "posting" /\ events \ refusable \subseteq stored
  /\ late => unsure \/ (phase = "returned" /\ result.outcome \in {"closed", "cancelled"})
  /\ phase # "returned" /\ ~handled => unsure \/ ingested = {}

(* What an accepted result and a permanent failure say. *)
AnswerInv ==
  /\ result.outcome = "accepted" =>
       /\ phase = "returned"
       /\ Judged
       /\ local \subseteq result.rejected
       /\ result.rejected \subseteq local \cup refusable
       /\ events \subseteq stored \cup result.rejected \cup result.unknown
  /\ result.outcome = "permanent_failure" => unsure \/ ingested = {}

SinkInv == TypeOK /\ ProgressInv /\ HeldInv /\ AnswerInv

(* The ids of a batch are ids. *)
LEMMA BatchIds ==
  ASSUME NEW b \in Batches
  PROVE  /\ BuildEvents(b) \subseteq Ids
         /\ RejectedLocally(b) \subseteq Ids
         /\ \A r \in Range(b) : r.id \in BuildEvents(b) \cup RejectedLocally(b)
<1>1. b \in Seq([id : Ids, body : DOMAIN Docs])
  BY SinkAssumption
<1>2. ASSUME NEW r \in Range(b) PROVE r.id \in Ids
  <2>1. PICK i \in DOMAIN b : r = b[i]
    BY DEF Range
  <2>2. b[i] \in [id : Ids, body : DOMAIN Docs]
    <3> DEFINE R == [id : Ids, body : DOMAIN Docs]
    <3>1. b \in Seq(R) /\ i \in DOMAIN b
      BY <1>1
    <3> HIDE DEF R
    <3>2. b[i] \in R
      BY <3>1
    <3> QED
      BY <3>2 DEF R
  <2> QED
    BY <2>1, <2>2
<1> QED
  BY <1>2 DEF BuildEvents, RejectedLocally

(* The inductive invariant says all that the outcome of a record means. *)
LEMMA InvIsTrue == SinkInv => OutcomesTrue
<1> SUFFICES ASSUME SinkInv PROVE OutcomesTrue
  OBVIOUS
<1>b. batch \in Batches
  BY DEF SinkInv, TypeOK
<1>1. SentIsHeld
  <2> SUFFICES ASSUME Returned, NEW r \in Range(batch), Outcome(r.id) = "sent"
               PROVE  r.id \in stored
    BY DEF SentIsHeld
  <2>1. /\ result.outcome = "accepted"
        /\ r.id \notin result.rejected
        /\ r.id \notin result.unknown
    BY DEF Outcome, SinkInv, TypeOK, Outcomes
  <2>2. r.id \in events \cup local
    BY <1>b, <2>1, BatchIds DEF SinkInv, AnswerInv, Judged
  <2> QED
    BY <2>1, <2>2 DEF SinkInv, AnswerInv
<1>2. TakenNotLost
  <2>1. ASSUME NEW id \in stored \ local PROVE Outcome(id) # "rejected"
    <3>1. id \notin refusable
      BY <2>1 DEF SinkInv, TypeOK
    <3>2. result.outcome = "accepted" => id \notin result.rejected
      BY <2>1, <3>1 DEF SinkInv, AnswerInv
    <3> QED
      BY <3>2 DEF Outcome, SinkInv, TypeOK, Outcomes
  <2> QED
    BY <2>1 DEF TakenNotLost, SinkInv, AnswerInv
<1>3. UnusableAnswered
  <2>1. ingested \subseteq BuildEvents(batch)
    BY DEF SinkInv, ProgressInv, Judged
  <2>2. ASSUME result.outcome = "accepted", NEW r \in Range(batch), r.body \in Unusable
        PROVE  Outcome(r.id) = "rejected"
    <3>1. r.id \in RejectedLocally(batch)
      BY <2>2 DEF RejectedLocally
    <3> QED
      BY <2>2, <3>1 DEF Outcome, SinkInv, AnswerInv, Judged
  <2> QED
    BY <2>1, <2>2 DEF UnusableAnswered, BuildEvents
<1> QED
  BY <1>1, <1>2, <1>3 DEF OutcomesTrue, SinkInv

LEMMA InvInit == Init => SinkInv
<1> SUFFICES ASSUME Init PROVE SinkInv
  OBVIOUS
<1>1. \A r \in Range(batch) : r.id \in Ids
  <2>1. batch \in Batches
    BY DEF Init
  <2> QED
    BY <2>1, BatchIds
<1>2. stored \subseteq Ids /\ refusable \subseteq Ids \ stored
  BY <1>1 DEF Init
<1>3. /\ result \in [outcome : Outcomes, rejected : SUBSET Ids, unknown : SUBSET Ids]
      /\ result = Whole("none") /\ result.outcome = "none"
  BY DEF Init, Whole, Result, Outcomes
<1>4. TypeOK
  <2>1. attempt \in 0..MaxAttempts
    BY SinkAssumption DEF Init, ValidRetry
  <2> QED
    BY <1>2, <1>3, <2>1 DEF Init, TypeOK
<1> QED
  BY <1>3, <1>4 DEF Init, SinkInv, ProgressInv, HeldInv, AnswerInv
-----------------------------------------------------------------------------
(* The results deliver() returns with. *)

LEMMA ResultTypes ==
  ASSUME NEW o \in Outcomes, NEW a \in SUBSET Ids, NEW b \in SUBSET Ids
  PROVE  /\ Result(o, a, b) \in [outcome : Outcomes, rejected : SUBSET Ids, unknown : SUBSET Ids]
         /\ Result(o, a, b).outcome = o
         /\ Result(o, a, b).rejected = a
         /\ Result(o, a, b).unknown = b
BY DEF Result

(* Return keeps the type of the result and joins the local rejections. *)
LEMMA ReturnResult ==
  ASSUME TypeOK, NEW o \in Outcomes, NEW a \in SUBSET Ids, NEW b \in SUBSET Ids,
         Return(Result(o, a, b))
  PROVE  /\ phase' = "returned" /\ attempt' = attempt
         /\ result' \in [outcome : Outcomes, rejected : SUBSET Ids, unknown : SUBSET Ids]
         /\ result'.outcome = o
         /\ o = "accepted" => result'.rejected = a \cup local /\ result'.unknown = b
<1>1. local \in SUBSET Ids
  BY DEF TypeOK
<1>2. CASE o = "accepted"
  <2>1. result' = [Result(o, a, b) EXCEPT !.rejected = @ \cup local]
    BY <1>2, ResultTypes DEF Return, WithLocal
  <2> QED
    BY <1>1, <2>1 DEF Return, Result
<1>3. CASE o # "accepted"
  BY <1>3, ResultTypes DEF Return, WithLocal
<1> QED
  BY <1>2, <1>3

(* A whole batch closed: nothing more is said of its records. *)
LEMMA WholeResult ==
  ASSUME TypeOK, NEW o \in Outcomes, Return(Whole(o))
  PROVE  /\ phase' = "returned" /\ attempt' = attempt
         /\ result' \in [outcome : Outcomes, rejected : SUBSET Ids, unknown : SUBSET Ids]
         /\ result'.outcome = o
         /\ o = "accepted" => result'.rejected = local /\ result'.unknown = {}
<1>1. Return(Result(o, {}, {}))
  BY DEF Whole
<1>2. {} \in SUBSET Ids
  OBVIOUS
<1> QED
  BY <1>1, <1>2, ReturnResult

(* The next request is sent, or the transport is closed. *)
LEMMA PostResult ==
  ASSUME TypeOK, NEW n \in 1..MaxAttempts, Post(n)
  PROVE  \/ phase' = "posting" /\ attempt' = n /\ result' = result
         \/ /\ phase' = "returned" /\ attempt' = attempt
            /\ result' \in [outcome : Outcomes, rejected : SUBSET Ids, unknown : SUBSET Ids]
            /\ result'.outcome = "closed"
BY WholeResult DEF Post, Outcomes
-----------------------------------------------------------------------------
(* Steps.                                                                  *)

LEMMA DeliverKeeps == SinkInv /\ Deliver => SinkInv'
<1> SUFFICES ASSUME SinkInv, Deliver PROVE SinkInv'
  OBVIOUS
<1> USE DEF lifeVars, billVars
<1>t. TypeOK /\ MaxAttempts \in Nat \ {0} /\ batch \in Batches
  BY SinkAssumption DEF SinkInv, TypeOK, ValidRetry
<1>h. ~handled /\ (late => unsure) /\ (unsure \/ ingested = {})
  BY DEF SinkInv, HeldInv, Deliver
<1>u. UNCHANGED <<runtime, batch, closed, closing, handled, stored, refusable, late, ingested,
                  unsure>>
  BY DEF Deliver
<1>1. CASE closed
  <2>1. Return(Whole("closed")) /\ UNCHANGED <<events, local>>
    BY <1>1 DEF Deliver
  <2>2. /\ phase' = "returned" /\ attempt' = attempt
        /\ result' \in [outcome : Outcomes, rejected : SUBSET Ids, unknown : SUBSET Ids]
        /\ result'.outcome = "closed"
    BY <1>t, <2>1, WholeResult DEF Outcomes
  <2>3. TypeOK'
    BY <1>t, <1>u, <2>1, <2>2 DEF TypeOK
  <2> QED
    BY <1>h, <1>u, <2>1, <2>2, <2>3 DEF SinkInv, ProgressInv, HeldInv, AnswerInv, Judged
<1>2. CASE ~closed
  <2>1. Judged' /\ events' \subseteq Ids /\ local' \subseteq Ids
    BY <1>2, <1>t, <1>u, BatchIds DEF Deliver, Judged
  <2>2. ingested = {} /\ local = {}
    BY DEF Deliver, SinkInv, ProgressInv
  <2>3. CASE events' = {}
    <3>1. Return(Result("accepted", local', {}))
      BY <1>2, <2>3 DEF Deliver
    <3>2. /\ phase' = "returned" /\ attempt' = attempt
          /\ result' \in [outcome : Outcomes, rejected : SUBSET Ids, unknown : SUBSET Ids]
          /\ result'.outcome = "accepted"
          /\ result'.rejected = local' \cup local /\ result'.unknown = {}
      BY <1>t, <2>1, <3>1, ReturnResult DEF Outcomes
    <3>3. TypeOK'
      BY <1>t, <1>u, <2>1, <3>2 DEF TypeOK
    <3> QED
      BY <1>h, <1>u, <2>1, <2>2, <2>3, <3>2, <3>3
         DEF SinkInv, ProgressInv, HeldInv, AnswerInv
  <2>4. CASE events' # {}
    <3>1. Post(1) /\ 1 \in 1..MaxAttempts
      BY <1>2, <1>t, <2>4 DEF Deliver
    <3>2. \/ phase' = "posting" /\ attempt' = 1 /\ result' = result
          \/ /\ phase' = "returned" /\ attempt' = attempt
             /\ result' \in [outcome : Outcomes, rejected : SUBSET Ids, unknown : SUBSET Ids]
             /\ result'.outcome = "closed"
      BY <1>t, <3>1, PostResult
    <3>3. TypeOK'
      BY <1>t, <1>u, <2>1, <3>1, <3>2 DEF TypeOK
    <3>4. result = Whole("none") /\ result.outcome = "none"
      BY DEF SinkInv, ProgressInv, Deliver, Whole, Result
    <3> QED
      BY <1>h, <1>u, <2>1, <2>2, <3>2, <3>3, <3>4
         DEF SinkInv, ProgressInv, HeldInv, AnswerInv, Whole
  <2> QED
    BY <2>3, <2>4
<1> QED
  BY <1>1, <1>2

(* What a step that leaves the judgement and Chargebee alone must keep. *)
LEMMA PauseEndsKeeps == SinkInv /\ PauseEnds => SinkInv'
<1> SUFFICES ASSUME SinkInv, PauseEnds PROVE SinkInv'
  OBVIOUS
<1>t. TypeOK /\ MaxAttempts \in Nat \ {0}
  BY SinkAssumption DEF SinkInv, ValidRetry
<1>u. UNCHANGED <<runtime, batch, events, local, closed, closing, handled, stored, refusable,
                  late, ingested, unsure>>
  BY DEF PauseEnds, batchVars, lifeVars, billVars
<1>1. phase = "waiting" /\ Post(attempt + 1) /\ attempt + 1 \in 1..MaxAttempts
  BY <1>t DEF PauseEnds, NextAttempt, SinkInv, ProgressInv, TypeOK
<1>2. \/ phase' = "posting" /\ attempt' = attempt + 1 /\ result' = result
      \/ /\ phase' = "returned" /\ attempt' = attempt
         /\ result' \in [outcome : Outcomes, rejected : SUBSET Ids, unknown : SUBSET Ids]
         /\ result'.outcome = "closed"
  BY <1>t, <1>1, PostResult
<1>3. TypeOK'
  BY <1>t, <1>u, <1>1, <1>2 DEF TypeOK
<1>4. result = Whole("none") /\ result.outcome = "none"
  BY <1>1 DEF SinkInv, ProgressInv, Whole, Result
<1>5. ProgressInv' /\ HeldInv'
  BY <1>u, <1>1, <1>2, <1>4 DEF SinkInv, ProgressInv, HeldInv, Judged
<1> QED
  BY <1>1, <1>2, <1>3, <1>4, <1>5 DEF SinkInv, AnswerInv

(* Chargebee takes events of the batch that it does not refuse. *)
LEMMA IngestKeeps ==
  ASSUME SinkInv, NEW ids \in SUBSET (events \ refusable), Ingest(ids),
         UNCHANGED <<batchVars, phase, attempt, result, lifeVars, refusable, late, unsure>>,
         \/ handled' = TRUE /\ phase = "posting" /\ ids = events \ refusable
         \/ handled' = handled /\ late
  PROVE  SinkInv'
<1> USE DEF batchVars, lifeVars
<1>1. TypeOK'
  BY DEF SinkInv, TypeOK, Ingest
<1>2. ProgressInv'
  BY DEF SinkInv, ProgressInv, Judged, Ingest
<1>3. HeldInv'
  BY DEF SinkInv, HeldInv, Ingest
<1>4. AnswerInv'
  <2>1. result.outcome = "permanent_failure" => handled' = handled /\ late /\ unsure
    BY DEF SinkInv, HeldInv, ProgressInv, Whole, Result
  <2> QED
    BY <2>1 DEF SinkInv, AnswerInv, Judged, Ingest
<1> QED
  BY <1>1, <1>2, <1>3, <1>4 DEF SinkInv

(* The answers that end deliver(). *)
LEMMA AnswerKeeps ==
  ASSUME SinkInv, NEW mayArrive \in BOOLEAN, RequestEnds(mayArrive),
         NEW o \in Outcomes, NEW a \in SUBSET Refused, NEW b \in SUBSET events,
         Return(Result(o, a, b)), o # "none",
         unsure' \in BOOLEAN, unsure => unsure',
         mayArrive => unsure' \/ o = "closed",
         o = "permanent_failure" => ~handled,
         o = "accepted" => handled /\ Refused \subseteq a \cup b
  PROVE  SinkInv'
<1> USE DEF batchVars, lifeVars
<1>t. TypeOK /\ phase = "posting" /\ Judged
  BY DEF SinkInv, ProgressInv, RequestEnds
<1>u. UNCHANGED <<runtime, batch, events, local, closed, closing, stored, refusable, ingested>>
  BY DEF RequestEnds
<1>ab. a \in SUBSET Ids /\ b \in SUBSET Ids
  BY <1>t DEF Refused, TypeOK
<1>1. /\ phase' = "returned" /\ attempt' = attempt
      /\ result' \in [outcome : Outcomes, rejected : SUBSET Ids, unknown : SUBSET Ids]
      /\ result'.outcome = o
      /\ o = "accepted" => result'.rejected = a \cup local /\ result'.unknown = b
  BY <1>t, <1>ab, ReturnResult
<1>2. TypeOK'
  BY <1>t, <1>u, <1>1 DEF TypeOK, RequestEnds
<1>3. ProgressInv'
  BY <1>u, <1>1 DEF SinkInv, ProgressInv, Judged
<1>4. HeldInv'
  <2>1. late => unsure
    BY <1>t DEF SinkInv, HeldInv
  <2> QED
    BY <1>1, <2>1 DEF HeldInv, RequestEnds
<1>5. AnswerInv'
  <2>1. ASSUME o = "accepted" PROVE events \subseteq stored \cup a \cup b
    BY <2>1 DEF SinkInv, HeldInv, Refused
  <2>2. o = "permanent_failure" => unsure \/ ingested = {}
    BY <1>t DEF SinkInv, HeldInv
  <2> QED
    BY <1>t, <1>u, <1>1, <2>1, <2>2 DEF AnswerInv, Judged, Refused
<1> QED
  BY <1>2, <1>3, <1>4, <1>5 DEF SinkInv

LEMMA AnswersKeep == SinkInv /\ (Answer \/ Interrupted) => SinkInv'
<1> SUFFICES ASSUME SinkInv, Answer \/ Interrupted PROVE SinkInv'
  OBVIOUS
<1>t. {} \in SUBSET Refused /\ {} \in SUBSET events /\ events \in SUBSET events
      /\ TRUE \in BOOLEAN /\ FALSE \in BOOLEAN /\ unsure \in BOOLEAN
  BY DEF SinkInv, TypeOK
<1>o. {"accepted", "retryable_failure", "permanent_failure", "closed"} \subseteq Outcomes
  BY DEF Outcomes
<1>1. CASE Answer202
  BY <1>1, <1>t, <1>o, AnswerKeeps DEF Answer202, Whole
<1>2. CASE Answer207
  <2>1. PICK named \in SUBSET Refused, repeated \in {0, 1} :
          Return(Partial(named, Cardinality(Refused \ named) + repeated))
    BY <1>2 DEF Answer207
  <2> DEFINE b == IF Cardinality(Refused \ named) + repeated = 0 THEN {} ELSE events \ named
  <2>2. Return(Result("accepted", named, b))
    BY <2>1 DEF Partial
  <2>3. b \in SUBSET events /\ Refused \subseteq named \cup b
    <3>1. IsFiniteSet(Refused \ named)
      BY SinkAssumption, FS_Subset DEF Refused, SinkInv, TypeOK
    <3>2. Cardinality(Refused \ named) \in Nat
      BY <3>1, FS_CardinalityType
    <3>3. Cardinality(Refused \ named) + repeated = 0 => Refused \ named = {}
      <4>1. Cardinality(Refused \ named) + repeated = 0 => Cardinality(Refused \ named) = 0
        BY <3>2
      <4> QED
        BY <3>1, <4>1, FS_EmptySet
    <3> QED
      BY <3>3 DEF Refused
  <2>4. handled /\ RequestEnds(FALSE) /\ unsure' = unsure
    BY <1>2 DEF Answer207
  <2> HIDE DEF b
  <2> QED
    BY <1>t, <1>o, <2>2, <2>3, <2>4, AnswerKeeps
<1>3. CASE AnswerUnparseable
  <2>1. Refused \subseteq events
    BY DEF Refused
  <2> QED
    BY <1>3, <1>t, <1>o, <2>1, AnswerKeeps DEF AnswerUnparseable
<1>4. CASE AnswerTransient /\ LastAttempt
  <2>1. /\ RequestEnds(TRUE) /\ Return(Result("retryable_failure", {}, {})) /\ unsure' = TRUE
    BY <1>4 DEF AnswerTransient, RetryOrFail, Whole
  <2> QED
    BY <1>t, <1>o, <2>1, AnswerKeeps
<1>5. CASE AnswerTransient /\ ~LastAttempt
  <2>1. /\ phase = "posting" /\ phase' = "waiting" /\ attempt' = attempt /\ result' = result
        /\ unsure' = TRUE /\ handled' = FALSE /\ late' \in BOOLEAN
        /\ UNCHANGED <<runtime, batch, events, local, closed, closing, stored, refusable, ingested>>
    BY <1>5 DEF AnswerTransient, RetryOrFail, RequestEnds, batchVars, lifeVars, SinkInv, TypeOK
  <2>2. attempt < MaxAttempts
    BY <1>5, SinkAssumption DEF LastAttempt, SinkInv, TypeOK, ValidRetry
  <2>3. TypeOK'
    BY <2>1 DEF SinkInv, TypeOK
  <2> QED
    BY <2>1, <2>2, <2>3 DEF SinkInv, ProgressInv, HeldInv, AnswerInv, Judged
<1>6. CASE AnswerPermanent
  <2>1. ~handled /\ RequestEnds(FALSE) /\ Return(Result("permanent_failure", {}, {}))
        /\ unsure' = unsure
    BY <1>6 DEF AnswerPermanent, Whole
  <2> QED
    BY <1>t, <1>o, <2>1, AnswerKeeps
<1>7. CASE Interrupted
  <2>1. RequestEnds(TRUE) /\ Return(Result("closed", {}, {})) /\ unsure' = unsure
    BY <1>7 DEF Interrupted, Whole
  <2> QED
    BY <1>t, <1>o, <2>1, AnswerKeeps
<1> QED
  BY <1>1, <1>2, <1>3, <1>4, <1>5, <1>6, <1>7 DEF Answer

LEMMA CloseKeeps == SinkInv /\ (Close \/ CloseReturns) => SinkInv'
<1> SUFFICES ASSUME SinkInv, Close \/ CloseReturns PROVE SinkInv'
  OBVIOUS
<1> USE DEF batchVars, billVars
<1>1. UNCHANGED <<runtime, batch, events, local, phase, attempt, result, handled, stored,
                  refusable, late, ingested, unsure>>
  BY DEF Close, CloseReturns
<1>2. closed' \in BOOLEAN /\ closing' \in {"no", "waiting", "done"}
  BY DEF Close, CloseReturns, CloseBegins, SinkInv, TypeOK
<1>3. TypeOK'
  BY <1>1, <1>2 DEF SinkInv, TypeOK
<1> QED
  BY <1>1, <1>3 DEF SinkInv, ProgressInv, HeldInv, AnswerInv, Judged

LEMMA CancelKeeps == SinkInv /\ Cancel => SinkInv'
<1> SUFFICES ASSUME SinkInv, Cancel PROVE SinkInv'
  OBVIOUS
<1> USE DEF batchVars, lifeVars
<1>1. /\ result' \in [outcome : Outcomes, rejected : SUBSET Ids, unknown : SUBSET Ids]
      /\ result'.outcome = "cancelled"
  BY DEF Cancel, Whole, Result, Outcomes
<1>2. TypeOK'
  BY <1>1 DEF Cancel, SinkInv, TypeOK
<1>3. ProgressInv' /\ HeldInv'
  BY <1>1 DEF Cancel, SinkInv, ProgressInv, HeldInv, Judged
<1> QED
  BY <1>1, <1>2, <1>3 DEF SinkInv, AnswerInv

LEMMA SinkInvNext == SinkInv /\ [Next]_vars => SinkInv'
<1> SUFFICES ASSUME SinkInv, [Next]_vars PROVE SinkInv'
  OBVIOUS
<1>1. CASE ChargebeeHandles
  <2>1. events \ refusable \in SUBSET (events \ refusable)
    OBVIOUS
  <2> QED
    BY <1>1, <2>1, IngestKeeps DEF ChargebeeHandles
<1>2. CASE ChargebeeHandlesLate
  BY <1>2, IngestKeeps DEF ChargebeeHandlesLate
<1>3. CASE UNCHANGED vars
  <2>1. UNCHANGED <<runtime, batch, events, local, phase, attempt, result, closed, closing,
                    handled, stored, refusable, late, ingested, unsure>>
    BY <1>3 DEF vars, batchVars, lifeVars, billVars
  <2> QED
    BY <2>1 DEF SinkInv, TypeOK, ProgressInv, HeldInv, AnswerInv, Judged
<1> QED
  BY <1>1, <1>2, <1>3, DeliverKeeps, PauseEndsKeeps, AnswersKeep, CloseKeeps, CancelKeeps
     DEF Next

(* For every batch and any number of attempts, what deliver() answers for  *)
(* each record agrees with what Chargebee holds, in both languages.        *)
THEOREM ChargebeeOutcomes == Spec => []OutcomesTrue
BY InvInit, SinkInvNext, InvIsTrue, PTL DEF Spec
-----------------------------------------------------------------------------
(* close() ends what deliver() does on the network.                        *)

(* A request that is sent once close() has begun would have to pass post(). *)
QuietStep == closed /\ phase' = "posting" => phase = "posting"

QuietInv ==
  /\ closing # "no" => closed
  /\ runtime = "typescript" /\ closing = "done" => phase # "posting"

LEMMA PostIsOpen ==
  ASSUME NEW n, Post(n), phase' = "posting"
  PROVE  ~closed
BY DEF Post, MayPost, Return

LEMMA StepIsQuiet == [Next]_vars => [QuietStep]_vars
<1> SUFFICES ASSUME Next, closed, phase' = "posting", phase # "posting" PROVE FALSE
  BY DEF QuietStep, vars
<1>1. CASE Deliver
  BY <1>1 DEF Deliver, Return
<1>2. CASE PauseEnds
  BY <1>2, PostIsOpen DEF PauseEnds
<1>3. CASE Answer \/ Interrupted
  BY <1>3 DEF Answer, Answer202, Answer207, AnswerUnparseable, AnswerTransient, AnswerPermanent,
              Interrupted, RequestEnds
<1>4. CASE ChargebeeHandles \/ ChargebeeHandlesLate \/ Close \/ CloseReturns \/ Cancel
  BY <1>4 DEF ChargebeeHandles, ChargebeeHandlesLate, Close, CloseReturns, Cancel
<1> QED
  BY <1>1, <1>2, <1>3, <1>4 DEF Next

LEMMA QuietInvNext == QuietInv /\ [Next]_vars => QuietInv'
<1> SUFFICES ASSUME QuietInv, [Next]_vars PROVE QuietInv'
  OBVIOUS
<1>1. CASE Close
  BY <1>1 DEF Close, CloseBegins, QuietInv, batchVars
<1>2. CASE CloseReturns
  BY <1>2 DEF CloseReturns, QuietInv, batchVars
<1>3. CASE UNCHANGED <<runtime, closed, closing>>
  <2>1. closed => (phase' = "posting" => phase = "posting")
    BY StepIsQuiet DEF QuietStep, vars
  <2> QED
    BY <1>3, <2>1 DEF QuietInv
<1>4. \/ Close \/ CloseReturns
      \/ UNCHANGED <<runtime, closed, closing>>
  <2> USE DEF batchVars, lifeVars
  <2>1. CASE Answer \/ Interrupted
    BY <2>1 DEF Answer, Answer202, Answer207, AnswerUnparseable, AnswerTransient,
                AnswerPermanent, Interrupted, RequestEnds
  <2>2. CASE Deliver \/ PauseEnds \/ Cancel \/ UNCHANGED vars
    BY <2>2 DEF Deliver, PauseEnds, Cancel, vars
  <2>3. CASE ChargebeeHandles \/ ChargebeeHandlesLate
    BY <2>3 DEF ChargebeeHandles, ChargebeeHandlesLate
  <2> QED
    BY <2>1, <2>2, <2>3 DEF Next
<1> QED
  BY <1>1, <1>2, <1>3, <1>4

(* Once close() has begun no request is sent, not even by a deliver() that *)
(* was pausing between attempts; in TypeScript none is on its way when     *)
(* close() returns.                                                        *)
THEOREM ChargebeeQuiet == Spec => ClosedIsQuiet
<1>1. Init => QuietInv
  BY DEF Init, QuietInv
<1>2. QuietInv => (runtime = "typescript" /\ closing = "done" => phase # "posting")
  BY DEF QuietInv
<1>3. Spec => [](runtime = "typescript" /\ closing = "done" => phase # "posting")
  BY <1>1, <1>2, QuietInvNext, PTL DEF Spec
<1>4. Spec => [][QuietStep]_vars
  BY StepIsQuiet, PTL DEF Spec
<1> QED
  BY <1>3, <1>4 DEF ClosedIsQuiet, QuietStep
-----------------------------------------------------------------------------
(* Induction over the numbers, as the well-foundedness of their order gives it. *)
LEMMA SetInduction ==
  ASSUME NEW S, 0 \in S, \A n \in Nat : n \in S => n + 1 \in S
  PROVE  Nat \subseteq S
<1> SUFFICES ASSUME Nat \ S # {} PROVE FALSE
  OBVIOUS
<1>1. PICK n \in Nat \ S : \A m \in Nat \ S : <<m, n>> \notin OpToRel(<, Nat)
  BY NatLessThanWellFounded, WFMin
<1>2. n # 0 /\ n - 1 \in Nat /\ n - 1 + 1 = n
  OBVIOUS
<1>3. n - 1 \notin S
  BY <1>2
<1>4. <<n - 1, n>> \in {ss \in Nat \X Nat : ss[1] < ss[2]}
  BY <1>2
<1> QED
  BY <1>1, <1>2, <1>3, <1>4 DEF OpToRel

(* What N steps do, each to what there is. *)
Steps(S, N) == [1..N -> [S -> S]]

(* What there is after each of them. *)
Recurs(S, base, N, step, f) ==
  f \in [0..N -> S] /\ f[0] = base /\ \A n \in 1..N : f[n] = step[n][f[n - 1]]

(* A recursion over 0..N has a function that satisfies it. *)
LEMMA RecursionIs ==
  ASSUME NEW S, NEW base \in S, NEW N \in Nat, NEW step \in Steps(S, N)
  PROVE  \E f : Recurs(S, base, N, step, f)
<1> DEFINE Upto(n, f) == /\ f \in [0..N -> S] /\ f[0] = base
                         /\ \A k \in 1..N : k <= n => f[k] = step[k][f[k - 1]]
           Reached == {n \in Nat : n <= N => \E f : Upto(n, f)}
<1>0. step \in [1..N -> [S -> S]]
  BY DEF Steps
<1>1. 0 \in Reached
  <2> DEFINE f == [k \in 0..N |-> base]
  <2>1. f \in [0..N -> S] /\ f[0] = base
    OBVIOUS
  <2>2. \A k \in 1..N : ~(k <= 0)
    OBVIOUS
  <2>3. Upto(0, f)
    BY <2>1, <2>2
  <2> HIDE DEF Upto
  <2> QED
    BY <2>3
<1>2. ASSUME NEW n \in Nat, n \in Reached
      PROVE  n + 1 \in Reached
  <2> SUFFICES ASSUME n + 1 <= N PROVE \E f : Upto(n + 1, f)
    OBVIOUS
  <2>1. PICK f : Upto(n, f)
    BY <1>2
  <2> DEFINE g == [k \in 0..N |-> IF k = n + 1 THEN step[n + 1][f[n]] ELSE f[k]]
  <2>2. step[n + 1][f[n]] \in S
    <3>1. n \in 0..N /\ n + 1 \in 1..N
      OBVIOUS
    <3> QED
      BY <1>0, <2>1, <3>1
  <2>3. g \in [0..N -> S]
    BY <2>1, <2>2
  <2>4. g[0] = base
    BY <2>1
  <2>5. ASSUME NEW k \in 1..N, k <= n + 1
        PROVE  g[k] = step[k][g[k - 1]]
    <3>1. k \in 0..N /\ k - 1 \in 0..N /\ k - 1 # n + 1
      BY <2>5
    <3>2. g[k - 1] = f[k - 1]
      BY <3>1
    <3>3. CASE k = n + 1
      <4>1. g[k] = step[n + 1][f[n]] /\ k - 1 = n
        BY <3>1, <3>3
      <4> HIDE DEF g
      <4> QED
        BY <3>2, <3>3, <4>1
    <3>4. CASE k # n + 1
      <4>1. g[k] = f[k] /\ k <= n
        BY <2>5, <3>1, <3>4
      <4>2. f[k] = step[k][f[k - 1]]
        BY <2>1, <4>1
      <4> HIDE DEF g
      <4> QED
        BY <3>2, <4>1, <4>2
    <3> QED
      BY <3>3, <3>4
  <2> HIDE DEF g
  <2>6. Upto(n + 1, g)
    BY <2>3, <2>4, <2>5
  <2> HIDE DEF Upto
  <2> QED
    BY <2>6
<1>3. PICK f : Upto(N, f)
  <2> HIDE DEF Upto
  <2>1. Nat \subseteq Reached
    <3> HIDE DEF Reached
    <3> QED
      BY <1>1, <1>2, SetInduction
  <2> QED
    BY <2>1
<1>4. \A k \in 1..N : k <= N
  OBVIOUS
<1> QED
  BY <1>3, <1>4 DEF Recurs

-----------------------------------------------------------------------------
(* Names.  A character is a word of a key, or what the sink adds to one.   *)

(* Two sequences one behind the other. *)
LEMMA ConcatIs ==
  ASSUME NEW S, NEW s \in Seq(S), NEW t \in Seq(S)
  PROVE  /\ s \o t \in Seq(S) /\ Len(s \o t) = Len(s) + Len(t) /\ Len(s) \in Nat /\ Len(t) \in Nat
         /\ \A k \in 1..Len(s) : (s \o t)[k] = s[k]
         /\ \A k \in 1..Len(t) : (s \o t)[Len(s) + k] = t[k]
OBVIOUS

Words == {"json", "attribution", "labels", "usage", "llm", "tool", "cost"}

Characters == STRING \cup {Underscore} \cup Words

Keys == Seq(Characters)

LEMMA SeparatorIs ==
  /\ Separator \in Keys /\ Len(Separator) = 2
  /\ Separator[1] = Underscore /\ Separator[2] = Underscore
<1>1. Underscore \in Characters
  BY DEF Characters
<1> QED
  BY <1>1 DEF Keys, Separator

(* The names a path has as it is joined key by key. *)
Joining(path, join) ==
  /\ join \in [0..Len(path) -> Keys]
  /\ \A n \in 1..Len(path) : join[n] = IF n = 1 THEN path[1] ELSE join[n - 1] \o Separator \o path[n]

LEMMA NamesUp ==
  ASSUME NEW N \in Nat, NEW next \in [1..N -> [Keys -> Keys]]
  PROVE  \E f \in [0..N -> Keys] : f[0] = <<>> /\ \A n \in 1..N : f[n] = next[n][f[n - 1]]
<1> DEFINE empty == <<>>
<1>1. empty \in Keys
  BY DEF Keys
<1> HIDE DEF empty
<1>2. next \in Steps(Keys, N)
  BY DEF Steps
<1>3. PICK f : Recurs(Keys, empty, N, next, f)
  BY <1>1, <1>2, RecursionIs
<1> QED
  BY <1>3 DEF empty, Recurs

LEMMA JoinIs ==
  ASSUME NEW path \in Seq(Keys), path # <<>>
  PROVE  \E join : Joining(path, join) /\ JoinPath(path) = join[Len(path)]
<1> DEFINE N == Len(path)
           Step(f, n) ==
             IF n = 0 THEN <<>> ELSE IF n = 1 THEN path[1] ELSE f[n - 1] \o Separator \o path[n]
           next == [n \in 1..N |-> [name \in Keys |->
                      IF n = 1 THEN path[1] ELSE name \o Separator \o path[n]]]
<1>1. N \in Nat \ {0} /\ \A n \in 1..N : path[n] \in Keys
  OBVIOUS
<1>2. ASSUME NEW n \in 1..N, NEW name \in Keys
      PROVE  name \o Separator \o path[n] \in Keys
  <2>1. Separator \in Keys /\ path[n] \in Keys
    BY <1>1, SeparatorIs
  <2> QED
    BY <1>2, <2>1 DEF Keys
<1>3. next \in [1..N -> [Keys -> Keys]]
  BY <1>1, <1>2
<1>4. <<>> \in Keys
  BY DEF Keys
<1>5. PICK f \in [0..N -> Keys] : f[0] = <<>> /\ \A n \in 1..N : f[n] = next[n][f[n - 1]]
  <2>1. N \in Nat
    BY <1>1
  <2> HIDE DEF next, N
  <2> QED
    BY <1>3, <2>1, NamesUp
<1>6. \A n \in 0..N : f[n] = Step(f, n)
  <2> TAKE n \in 0..N
  <2>1. CASE n = 0
    BY <1>5, <2>1
  <2>2. CASE n # 0
    <3>1. n \in 1..N /\ n - 1 \in 0..N
      BY <1>1, <2>2
    <3> QED
      BY <1>5, <2>2, <3>1
  <2> QED
    BY <2>1, <2>2
<1>7. f = [n \in 0..N |-> Step(f, n)]
  <2>1. f = [n \in 0..N |-> f[n]]
    BY <1>5
  <2> HIDE DEF Step
  <2> QED
    BY <1>6, <2>1
<1> DEFINE join == CHOOSE h : h = [n \in 0..N |-> Step(h, n)]
<1>8. JoinPath(path) = join[N]
  BY DEF JoinPath
<1>9. join = [n \in 0..N |-> Step(join, n)]
  <2> HIDE DEF Step
  <2> QED
    BY <1>7
<1> HIDE DEF join
<1>10. /\ DOMAIN join = 0..N /\ join = [n \in 0..N |-> join[n]]
       /\ \A n \in 0..N : join[n] = Step(join, n)
  <2> HIDE DEF Step
  <2> QED
    BY <1>9
<1>11. \A n \in 0..N : join[n] \in Keys
  <2> DEFINE Good == {n \in Nat : n \in 0..N => join[n] \in Keys}
  <2>1. 0 \in Good
    BY <1>4, <1>10
  <2>2. ASSUME NEW n \in Nat, n \in Good
        PROVE  n + 1 \in Good
    <3> SUFFICES ASSUME n + 1 \in 0..N PROVE join[n + 1] \in Keys
      OBVIOUS
    <3>1. n + 1 \in 1..N /\ 1 \in 1..N /\ n \in 0..N /\ n + 1 - 1 = n /\ n + 1 # 0
      BY <1>1
    <3>2. join[n] \in Keys /\ path[1] \in Keys /\ join[n] \o Separator \o path[n + 1] \in Keys
      BY <1>1, <1>2, <2>2, <3>1
    <3>3. join[n + 1] = IF n + 1 = 1 THEN path[1] ELSE join[n] \o Separator \o path[n + 1]
      BY <1>10, <3>1
    <3> QED
      BY <3>2, <3>3
  <2>3. Nat \subseteq Good
    <3> HIDE DEF Good
    <3> QED
      BY <2>1, <2>2, SetInduction
  <2>4. \A n \in 0..N : n \in Nat
    BY <1>1
  <2> QED
    BY <2>3, <2>4
<1>12. \A n \in 1..N : join[n] = IF n = 1 THEN path[1] ELSE join[n - 1] \o Separator \o path[n]
  <2>1. \A n \in 1..N : n \in 0..N /\ n # 0
    OBVIOUS
  <2> QED
    BY <1>10, <2>1
<1>13. Joining(path, join)
  BY <1>10, <1>11, <1>12 DEF Joining
<1> QED
  BY <1>8, <1>13

(* A plain key can be told from the end of a name: what is before it is a separator. *)
LEMMA PlainIs ==
  ASSUME NEW key \in Keys, Plain(key)
  PROVE  /\ Len(key) \in Nat /\ \A k \in 1..Len(key) : key[k] \in Characters
         /\ Len(key) > 0 => key[1] # Underscore /\ key[Len(key)] # Underscore
         /\ \A k \in 2..Len(key) : ~(key[k - 1] = Underscore /\ key[k] = Underscore)
<1>1. Len(key) \in Nat /\ \A k \in 1..Len(key) : key[k] \in Characters
  BY DEF Keys
<1>2. Len(key) > 0 => key # <<>>
  BY DEF Keys
<1> QED
  BY <1>1, <1>2 DEF Plain, Keys, Last

LEMMA JoinedIs ==
  ASSUME NEW x \in Keys, NEW a \in Keys
  PROVE  LET name == x \o Separator \o a
         IN /\ name \in Keys /\ Len(name) = Len(x) + 2 + Len(a) /\ Len(x) \in Nat /\ Len(a) \in Nat
            /\ \A k \in 1..Len(x) : name[k] = x[k]
            /\ name[Len(x) + 1] = Underscore /\ name[Len(x) + 2] = Underscore
            /\ \A k \in 1..Len(a) : name[Len(x) + 2 + k] = a[k]
<1> DEFINE sep == Separator
           front == x \o sep
           name == front \o a
<1>0. x \in Seq(Characters) /\ a \in Seq(Characters)
  BY DEF Keys
<1>1. sep \in Seq(Characters) /\ Len(sep) = 2 /\ sep[1] = Underscore /\ sep[2] = Underscore
  BY SeparatorIs DEF Keys
<1> HIDE DEF sep
<1>2. /\ front \in Seq(Characters) /\ Len(front) = Len(x) + Len(sep) /\ Len(x) \in Nat
      /\ \A k \in 1..Len(x) : front[k] = x[k]
      /\ \A k \in 1..Len(sep) : front[Len(x) + k] = sep[k]
  <2>1. x \in Seq(Characters) /\ sep \in Seq(Characters)
    BY <1>0, <1>1
  <2> QED
    BY <2>1, ConcatIs
<1>3. front[Len(x) + 1] = Underscore /\ front[Len(x) + 2] = Underscore /\ Len(front) = Len(x) + 2
  <2>1. 1 \in 1..Len(sep) /\ 2 \in 1..Len(sep)
    BY <1>1
  <2> HIDE DEF front
  <2> QED
    BY <1>1, <1>2, <2>1
<1> HIDE DEF front
<1>4. /\ name \in Seq(Characters) /\ Len(name) = Len(front) + Len(a) /\ Len(a) \in Nat
      /\ \A k \in 1..Len(front) : name[k] = front[k]
      /\ \A k \in 1..Len(a) : name[Len(front) + k] = a[k]
  <2>1. front \in Seq(Characters) /\ a \in Seq(Characters)
    BY <1>0, <1>2
  <2> QED
    BY <2>1, ConcatIs
<1> HIDE DEF name
<1>5. /\ Len(x) + 1 \in 1..Len(front) /\ Len(x) + 2 \in 1..Len(front)
      /\ \A k \in 1..Len(x) : k \in 1..Len(front)
  BY <1>2, <1>3
<1>6. name[Len(x) + 1] = Underscore /\ name[Len(x) + 2] = Underscore
  BY <1>3, <1>4, <1>5
<1>7. \A k \in 1..Len(x) : name[k] = x[k]
  BY <1>2, <1>4, <1>5
<1> QED
  BY <1>2, <1>3, <1>4, <1>6, <1>7 DEF name, front, sep, Keys

(* A plain key holds no separator. *)
LEMMA KeyIsNoName ==
  ASSUME NEW x \in Keys, NEW a \in Keys, NEW key \in Keys, Plain(key)
  PROVE  key # x \o Separator \o a
<1> DEFINE name == x \o Separator \o a
<1>1. /\ Len(name) = Len(x) + 2 + Len(a) /\ Len(x) \in Nat /\ Len(a) \in Nat
      /\ name[Len(x) + 1] = Underscore /\ name[Len(x) + 2] = Underscore
  BY JoinedIs
<1> HIDE DEF name
<1>2. Len(x) + 2 \in 2..Len(name) /\ Len(x) + 2 - 1 = Len(x) + 1
  BY <1>1
<1>3. \A k \in 2..Len(key) : ~(key[k - 1] = Underscore /\ key[k] = Underscore)
  BY PlainIs
<1>4. key # name
  BY <1>1, <1>2, <1>3
<1> QED
  BY <1>4 DEF name

(* The last key of a name is no shorter than another that may be. *)
LEMMA LastKeyLength ==
  ASSUME NEW x \in Keys, NEW y \in Keys, NEW a \in Keys, NEW b \in Keys, Plain(a), Plain(b),
         x \o Separator \o a = y \o Separator \o b
  PROVE  ~(Len(a) < Len(b))
<1> DEFINE name == x \o Separator \o a
<1>1. /\ Len(name) = Len(x) + 2 + Len(a) /\ Len(x) \in Nat /\ Len(a) \in Nat
      /\ name[Len(x) + 1] = Underscore /\ name[Len(x) + 2] = Underscore
  BY JoinedIs
<1>2. name = y \o Separator \o b
  OBVIOUS
<1> HIDE DEF name
<1>3. /\ Len(name) = Len(y) + 2 + Len(b) /\ Len(y) \in Nat /\ Len(b) \in Nat
      /\ \A k \in 1..Len(b) : name[Len(y) + 2 + k] = b[k]
  BY <1>2, JoinedIs
<1>4. /\ Len(b) > 0 => b[1] # Underscore
      /\ \A k \in 2..Len(b) : ~(b[k - 1] = Underscore /\ b[k] = Underscore)
  BY PlainIs
<1> SUFFICES ASSUME Len(a) < Len(b) PROVE FALSE
  OBVIOUS
<1> DEFINE k == Len(x) - Len(y)
<1>5. k \in 1..Len(b) /\ Len(y) + 2 + k = Len(x) + 2
  BY <1>1, <1>3
<1>6. b[k] = Underscore
  BY <1>1, <1>3, <1>5
<1>7. CASE k = 1
  BY <1>4, <1>5, <1>6, <1>7, <1>3
<1>8. CASE k # 1
  <2>1. k - 1 \in 1..Len(b) /\ k \in 2..Len(b) /\ Len(y) + 2 + (k - 1) = Len(x) + 1
    BY <1>1, <1>3, <1>5, <1>8
  <2>2. b[k - 1] = Underscore
    BY <1>1, <1>3, <2>1
  <2> QED
    BY <1>4, <1>6, <2>1, <2>2
<1> QED
  BY <1>7, <1>8

LEMMA LastKeyIs ==
  ASSUME NEW x \in Keys, NEW y \in Keys, NEW a \in Keys, NEW b \in Keys, Plain(a), Plain(b),
         x \o Separator \o a = y \o Separator \o b
  PROVE  a = b /\ x = y
<1> DEFINE name == x \o Separator \o a
           other == y \o Separator \o b
<1>1. /\ Len(name) = Len(x) + 2 + Len(a) /\ Len(x) \in Nat /\ Len(a) \in Nat
      /\ \A k \in 1..Len(x) : name[k] = x[k]
      /\ \A k \in 1..Len(a) : name[Len(x) + 2 + k] = a[k]
  BY JoinedIs
<1>2. /\ Len(other) = Len(y) + 2 + Len(b) /\ Len(y) \in Nat /\ Len(b) \in Nat
      /\ \A k \in 1..Len(y) : other[k] = y[k]
      /\ \A k \in 1..Len(b) : other[Len(y) + 2 + k] = b[k]
  BY JoinedIs
<1>0. name = other
  OBVIOUS
<1> HIDE DEF name, other
<1>3. /\ Len(name) = Len(y) + 2 + Len(b) /\ Len(y) \in Nat /\ Len(b) \in Nat
      /\ \A k \in 1..Len(y) : name[k] = y[k]
      /\ \A k \in 1..Len(b) : name[Len(y) + 2 + k] = b[k]
  BY <1>2, <1>0
<1>4. ~(Len(a) < Len(b)) /\ ~(Len(b) < Len(a))
  BY LastKeyLength
<1>5. Len(a) = Len(b) /\ Len(x) = Len(y)
  BY <1>1, <1>3, <1>4
<1>6. \A k \in 1..Len(a) : a[k] = b[k]
  BY <1>1, <1>3, <1>5
<1>7. \A k \in 1..Len(x) : x[k] = y[k]
  BY <1>1, <1>3, <1>5
<1>8. /\ x \in Seq(Characters) /\ y \in Seq(Characters)
      /\ a \in Seq(Characters) /\ b \in Seq(Characters)
  BY DEF Keys
<1>9. a = b
  BY <1>5, <1>6, <1>8
<1>10. x = y
  BY <1>5, <1>7, <1>8
<1> QED
  BY <1>9, <1>10

(* The first key of a name is no shorter than another that may be. *)
LEMMA FirstKeyLength ==
  ASSUME NEW x \in Keys, NEW y \in Keys, NEW a \in Keys, NEW b \in Keys, Plain(y),
         x \o Separator \o a = y \o Separator \o b
  PROVE  ~(Len(x) < Len(y))
<1> DEFINE name == x \o Separator \o a
<1>1. /\ Len(x) \in Nat /\ name[Len(x) + 1] = Underscore /\ name[Len(x) + 2] = Underscore
  BY JoinedIs
<1>2. name = y \o Separator \o b
  OBVIOUS
<1> HIDE DEF name
<1>3. Len(y) \in Nat /\ \A k \in 1..Len(y) : name[k] = y[k]
  BY <1>2, JoinedIs
<1>4. /\ Len(y) > 0 => y[Len(y)] # Underscore
      /\ \A k \in 2..Len(y) : ~(y[k - 1] = Underscore /\ y[k] = Underscore)
  BY PlainIs
<1> SUFFICES ASSUME Len(x) < Len(y) PROVE FALSE
  OBVIOUS
<1>5. Len(x) + 1 \in 1..Len(y) /\ y[Len(x) + 1] = Underscore
  BY <1>1, <1>3
<1>6. CASE Len(x) + 1 = Len(y)
  BY <1>4, <1>5, <1>6, <1>3
<1>7. CASE Len(x) + 1 # Len(y)
  <2>1. Len(x) + 2 \in 1..Len(y) /\ Len(x) + 2 \in 2..Len(y) /\ Len(x) + 2 - 1 = Len(x) + 1
    BY <1>1, <1>3, <1>5, <1>7
  <2>2. y[Len(x) + 2] = Underscore
    BY <1>1, <1>3, <2>1
  <2> QED
    BY <1>4, <1>5, <2>1, <2>2
<1> QED
  BY <1>6, <1>7

LEMMA FirstKeyIs ==
  ASSUME NEW x \in Keys, NEW y \in Keys, NEW a \in Keys, NEW b \in Keys, Plain(x), Plain(y),
         x \o Separator \o a = y \o Separator \o b
  PROVE  x = y /\ a = b
<1> DEFINE name == x \o Separator \o a
           other == y \o Separator \o b
<1>1. /\ Len(name) = Len(x) + 2 + Len(a) /\ Len(x) \in Nat /\ Len(a) \in Nat
      /\ \A k \in 1..Len(x) : name[k] = x[k]
      /\ \A k \in 1..Len(a) : name[Len(x) + 2 + k] = a[k]
  BY JoinedIs
<1>2. /\ Len(other) = Len(y) + 2 + Len(b) /\ Len(y) \in Nat /\ Len(b) \in Nat
      /\ \A k \in 1..Len(y) : other[k] = y[k]
      /\ \A k \in 1..Len(b) : other[Len(y) + 2 + k] = b[k]
  BY JoinedIs
<1>0. name = other
  OBVIOUS
<1>4. ~(Len(x) < Len(y)) /\ ~(Len(y) < Len(x))
  BY FirstKeyLength
<1> HIDE DEF name, other
<1>5. Len(a) = Len(b) /\ Len(x) = Len(y)
  BY <1>0, <1>1, <1>2, <1>4
<1>6. (\A k \in 1..Len(a) : a[k] = b[k]) /\ (\A k \in 1..Len(x) : x[k] = y[k])
  BY <1>0, <1>1, <1>2, <1>5
<1>8. /\ x \in Seq(Characters) /\ y \in Seq(Characters)
      /\ a \in Seq(Characters) /\ b \in Seq(Characters)
  BY DEF Keys
<1>9. a = b
  BY <1>5, <1>6, <1>8
<1>10. x = y
  BY <1>5, <1>6, <1>8
<1> QED
  BY <1>9, <1>10

(* A name can be read key by key from its start as from its end. *)
LEMMA JoinedTwice ==
  ASSUME NEW x \in Keys, NEW y \in Keys, NEW z \in Keys
  PROVE  /\ (x \o Separator \o y) \o Separator \o z = x \o Separator \o (y \o Separator \o z)
         /\ y \o Separator \o z \in Keys
<1> DEFINE xy == x \o Separator \o y
           yz == y \o Separator \o z
           left == xy \o Separator \o z
           right == x \o Separator \o yz
<1>1. /\ xy \in Keys /\ Len(xy) = Len(x) + 2 + Len(y) /\ Len(x) \in Nat /\ Len(y) \in Nat
      /\ \A k \in 1..Len(x) : xy[k] = x[k]
      /\ xy[Len(x) + 1] = Underscore /\ xy[Len(x) + 2] = Underscore
      /\ \A k \in 1..Len(y) : xy[Len(x) + 2 + k] = y[k]
  BY JoinedIs
<1>2. /\ yz \in Keys /\ Len(yz) = Len(y) + 2 + Len(z) /\ Len(z) \in Nat
      /\ \A k \in 1..Len(y) : yz[k] = y[k]
      /\ yz[Len(y) + 1] = Underscore /\ yz[Len(y) + 2] = Underscore
      /\ \A k \in 1..Len(z) : yz[Len(y) + 2 + k] = z[k]
  BY JoinedIs
<1> HIDE DEF xy, yz
<1>3. /\ left \in Keys /\ Len(left) = Len(xy) + 2 + Len(z)
      /\ \A k \in 1..Len(xy) : left[k] = xy[k]
      /\ left[Len(xy) + 1] = Underscore /\ left[Len(xy) + 2] = Underscore
      /\ \A k \in 1..Len(z) : left[Len(xy) + 2 + k] = z[k]
  BY <1>1, JoinedIs
<1>4. /\ right \in Keys /\ Len(right) = Len(x) + 2 + Len(yz)
      /\ \A k \in 1..Len(x) : right[k] = x[k]
      /\ right[Len(x) + 1] = Underscore /\ right[Len(x) + 2] = Underscore
      /\ \A k \in 1..Len(yz) : right[Len(x) + 2 + k] = yz[k]
  BY <1>2, JoinedIs
<1> HIDE DEF left, right
<1>5. Len(left) = Len(right)
  BY <1>1, <1>2, <1>3, <1>4
<1>6. ASSUME NEW k \in 1..Len(left)
      PROVE  left[k] = right[k]
  <2>1. CASE k <= Len(x)
    <3>1. k \in 1..Len(x) /\ k \in 1..Len(xy)
      BY <1>1, <2>1
    <3> QED
      BY <1>1, <1>3, <1>4, <3>1
  <2>2. CASE k = Len(x) + 1 \/ k = Len(x) + 2
    <3>1. Len(x) + 1 \in 1..Len(xy) /\ Len(x) + 2 \in 1..Len(xy)
      BY <1>1
    <3> QED
      BY <1>1, <1>3, <1>4, <2>2, <3>1
  <2>3. CASE k > Len(x) + 2
    <3> DEFINE j == k - (Len(x) + 2)
    <3>1. j \in 1..Len(yz) /\ k = Len(x) + 2 + j
      BY <1>1, <1>2, <1>3, <2>3
    <3> HIDE DEF j
    <3>2. right[k] = yz[j]
      BY <1>4, <3>1
    <3>3. CASE j <= Len(y)
      <4>1. j \in 1..Len(y) /\ k \in 1..Len(xy)
        BY <1>1, <3>1, <3>3
      <4>2. left[k] = y[j]
        BY <1>1, <1>3, <3>1, <4>1
      <4> QED
        BY <1>2, <3>2, <4>1, <4>2
    <3>4. CASE j = Len(y) + 1
      <4>1. k = Len(xy) + 1
        BY <1>1, <3>1, <3>4
      <4> QED
        BY <1>2, <1>3, <3>2, <3>4, <4>1
    <3>6. CASE j = Len(y) + 2
      <4>1. k = Len(xy) + 2
        BY <1>1, <3>1, <3>6
      <4> QED
        BY <1>2, <1>3, <3>2, <3>6, <4>1
    <3>5. CASE j > Len(y) + 2
      <4> DEFINE i == j - (Len(y) + 2)
      <4>1. i \in 1..Len(z) /\ j = Len(y) + 2 + i /\ k = Len(xy) + 2 + i
        BY <1>1, <1>2, <3>1, <3>5
      <4> HIDE DEF i
      <4> QED
        BY <1>2, <1>3, <3>2, <4>1
    <3> QED
      BY <1>1, <1>2, <3>1, <3>3, <3>4, <3>5, <3>6
  <2> QED
    BY <1>1, <1>3, <2>1, <2>2, <2>3
<1>7. left = right
  <2>1. left \in Seq(Characters) /\ right \in Seq(Characters)
    BY <1>3, <1>4 DEF Keys
  <2> QED
    BY <1>5, <1>6, <2>1
<1> QED
  BY <1>2, <1>7 DEF left, right, xy, yz

(* Two plain paths have the same name at no other lengths than the same, and then are the same. *)
LEMMA PathsApart ==
  ASSUME NEW p \in Seq(Keys), NEW q \in Seq(Keys), p # <<>>, q # <<>>,
         \A k \in 1..Len(p) : Plain(p[k]), \A k \in 1..Len(q) : Plain(q[k]),
         JoinPath(p) = JoinPath(q)
  PROVE  p = q
<1>1. Len(p) \in Nat \ {0} /\ Len(q) \in Nat \ {0}
  OBVIOUS
<1>2. PICK f : Joining(p, f) /\ JoinPath(p) = f[Len(p)]
  BY JoinIs
<1>3. PICK g : Joining(q, g) /\ JoinPath(q) = g[Len(q)]
  BY JoinIs
<1> DEFINE Same(n) == \A m \in 1..Len(q) : f[n] = g[m] => n = m /\ \A i \in 1..n : p[i] = q[i]
           Good == {n \in Nat : n \in 1..Len(p) => Same(n)}
<1>4. 0 \in Good
  OBVIOUS
<1>5. ASSUME NEW n \in Nat, n \in Good
      PROVE  n + 1 \in Good
  <2> DEFINE k == n + 1
  <2> SUFFICES ASSUME k \in 1..Len(p), NEW m \in 1..Len(q), f[k] = g[m]
               PROVE  k = m /\ \A i \in 1..k : p[i] = q[i]
    OBVIOUS
  <2>1. /\ f[k] = IF k = 1 THEN p[1] ELSE f[k - 1] \o Separator \o p[k]
        /\ g[m] = IF m = 1 THEN q[1] ELSE g[m - 1] \o Separator \o q[m]
        /\ f \in [0..Len(p) -> Keys] /\ g \in [0..Len(q) -> Keys]
    BY <1>2, <1>3 DEF Joining
  <2>2. /\ p[k] \in Keys /\ q[m] \in Keys /\ p[1] \in Keys /\ q[1] \in Keys
        /\ Plain(p[k]) /\ Plain(q[m]) /\ Plain(p[1]) /\ Plain(q[1])
    BY <1>1
  <2>3. k - 1 = n /\ n \in 0..Len(p) /\ m - 1 \in 0..Len(q) /\ k \in Nat /\ m \in Nat
    BY <1>1
  <2>4. f[n] \in Keys /\ g[m - 1] \in Keys
    BY <2>1, <2>3
  <2> HIDE DEF k
  <2>5. CASE k = 1
    <3>1. f[k] = p[1]
      BY <2>1, <2>5
    <3>2. m = 1
      <4> SUFFICES ASSUME m # 1 PROVE FALSE
        OBVIOUS
      <4>1. p[1] = g[m - 1] \o Separator \o q[m]
        BY <2>1, <3>1
      <4> QED
        BY <2>2, <2>4, <4>1, KeyIsNoName
    <3>3. p[1] = q[1]
      BY <2>1, <3>1, <3>2
    <3>4. \A i \in 1..k : i = 1
      BY <2>5
    <3> QED
      BY <2>5, <3>2, <3>3, <3>4
  <2>6. CASE k # 1
    <3>0. f[k] = f[k - 1] \o Separator \o p[k]
      BY <2>1, <2>6
    <3>9. k # 1 /\ k \in 1..Len(p) /\ Len(p) \in Nat
      BY <1>1, <2>6
    <3>10. n \in 1..Len(p)
      BY <2>3, <3>9
    <3>1. f[k] = f[n] \o Separator \o p[k] /\ n \in 1..Len(p)
      BY <2>3, <3>0, <3>10
    <3>2. m # 1
      <4> SUFFICES ASSUME m = 1 PROVE FALSE
        OBVIOUS
      <4>1. q[1] = f[n] \o Separator \o p[k]
        BY <2>1, <3>1
      <4> QED
        BY <2>2, <2>4, <4>1, KeyIsNoName
    <3>3. f[n] \o Separator \o p[k] = g[m - 1] \o Separator \o q[m]
      BY <2>1, <3>1, <3>2
    <3>4. p[k] = q[m] /\ f[n] = g[m - 1]
      <4>1. \A x, y, a, b \in Keys :
              Plain(a) /\ Plain(b) /\ x \o Separator \o a = y \o Separator \o b => a = b /\ x = y
        BY LastKeyIs
      <4> DEFINE x == f[n]
                 y == g[m - 1]
                 a == p[k]
                 b == q[m]
      <4>2. x \in Keys /\ y \in Keys /\ a \in Keys /\ b \in Keys /\ Plain(a) /\ Plain(b)
        BY <2>2, <2>4
      <4>3. x \o Separator \o a = y \o Separator \o b
        BY <3>3
      <4> HIDE DEF x, y, a, b
      <4>4. a = b /\ x = y
        BY <4>1, <4>2, <4>3
      <4> QED
        BY <4>4 DEF x, y, a, b
    <3>5. m - 1 \in 1..Len(q)
      BY <1>1, <3>2
    <3>6. n = m - 1 /\ \A i \in 1..n : p[i] = q[i]
      BY <1>5, <3>1, <3>4, <3>5
    <3>7. k = m
      BY <2>3, <3>6 DEF k
    <3>8. \A i \in 1..k : i \in 1..n \/ i = k
      BY DEF k
    <3> QED
      BY <3>4, <3>6, <3>7, <3>8
  <2> QED
    BY <2>5, <2>6
<1>6. Nat \subseteq Good
  <2> HIDE DEF Good
  <2> QED
    BY <1>4, <1>5, SetInduction
<1>7. Len(p) = Len(q) /\ \A i \in 1..Len(p) : p[i] = q[i]
  <2>0. Len(p) \in 1..Len(p) /\ Len(q) \in 1..Len(q) /\ Len(p) \in Nat
    BY <1>1
  <2>00. f[Len(p)] = g[Len(q)]
    BY <1>2, <1>3
  <2>1. Len(p) \in 1..Len(p) /\ Len(q) \in 1..Len(q) /\ f[Len(p)] = g[Len(q)] /\ Len(p) \in Nat
    BY <2>0, <2>00
  <2> QED
    BY <1>1, <1>6, <2>1
<1> QED
  BY <1>7

(* What is used of names from here on. *)
Joined(x, a) == x \o Separator \o a

LEMMA JoinedLaws ==
  /\ \A x, y \in Keys : Joined(x, y) \in Keys
  /\ \A x, y, z \in Keys : Joined(Joined(x, y), z) = Joined(x, Joined(y, z))
  /\ \A x, y, a, b \in Keys : Plain(x) /\ Plain(y) /\ Joined(x, a) = Joined(y, b) => x = y /\ a = b
  /\ \A x, y, a \in Keys : Plain(x) => x # Joined(y, a)
<1>1. \A x, y \in Keys : x \o Separator \o y \in Keys
  BY JoinedTwice
<1>2. \A x, y, z \in Keys :
        (x \o Separator \o y) \o Separator \o z = x \o Separator \o (y \o Separator \o z)
  BY JoinedTwice
<1>3. \A x, y, a, b \in Keys :
        Plain(x) /\ Plain(y) /\ x \o Separator \o a = y \o Separator \o b => x = y /\ a = b
  BY FirstKeyIs
<1>4. \A x, y, a \in Keys : Plain(x) => x # y \o Separator \o a
  BY KeyIsNoName
<1> QED
  BY <1>1, <1>2, <1>3, <1>4 DEF Joined

LEMMA NameIs ==
  ASSUME NEW p \in Seq(Keys), p # <<>>
  PROVE  \E f : /\ JoinPath(p) = f[Len(p)] /\ f[1] = p[1]
               /\ \A n \in 2..Len(p) : f[n] = Joined(f[n - 1], p[n])
<1>1. Len(p) \in Nat \ {0}
  OBVIOUS
<1>2. PICK f : Joining(p, f) /\ JoinPath(p) = f[Len(p)]
  BY JoinIs
<1>3. \A n \in 1..Len(p) : f[n] = IF n = 1 THEN p[1] ELSE f[n - 1] \o Separator \o p[n]
  BY <1>2 DEF Joining
<1>4. 1 \in 1..Len(p) /\ \A n \in 2..Len(p) : n \in 1..Len(p) /\ n # 1
  BY <1>1
<1>5. f[1] = p[1] /\ \A n \in 2..Len(p) : f[n] = Joined(f[n - 1], p[n])
  BY <1>3, <1>4 DEF Joined
<1> QED
  BY <1>2, <1>5

(* The name of a long path can be read from its first two keys on. *)
LEMMA LongNameIs ==
  ASSUME NEW p \in Seq(Keys), Len(p) > 2
  PROVE  \E rest \in Keys : JoinPath(p) = Joined(p[1], Joined(p[2], rest)) /\ (Len(p) = 3 => rest = p[3])
<1> DEFINE Name(rest) == Joined(p[1], Joined(p[2], rest))
<1>1. /\ Len(p) \in Nat /\ Len(p) > 2 /\ p # <<>>
      /\ p[1] \in Keys /\ p[2] \in Keys /\ p[3] \in Keys
      /\ \A k \in 1..Len(p) : p[k] \in Keys
  OBVIOUS
<1>2. PICK f : /\ JoinPath(p) = f[Len(p)] /\ f[1] = p[1]
               /\ \A n \in 2..Len(p) : f[n] = Joined(f[n - 1], p[n])
  BY <1>1, NameIs
<1>3. \A rest \in Keys, key \in Keys :
        Joined(rest, key) \in Keys /\ Joined(Name(rest), key) = Name(Joined(rest, key))
  <2>1. \A x, y, rest, key \in Keys :
          /\ Joined(rest, key) \in Keys
          /\ Joined(Joined(x, Joined(y, rest)), key) = Joined(x, Joined(y, Joined(rest, key)))
    BY JoinedLaws
  <2>2. p[1] \in Keys /\ p[2] \in Keys
    BY <1>1
  <2> QED
    BY <2>1, <2>2
<1>4. f[3] = Name(p[3])
  <2>1. 2 \in 2..Len(p) /\ 3 \in 2..Len(p) /\ 2 - 1 = 1 /\ 3 - 1 = 2
    BY <1>1
  <2>2. f[2] = Joined(f[1], p[2]) /\ f[3] = Joined(f[2], p[3])
    BY <1>2, <2>1
  <2>3. \A x, y, z \in Keys : Joined(Joined(x, y), z) = Joined(x, Joined(y, z))
    BY JoinedLaws
  <2>4. p[1] \in Keys /\ p[2] \in Keys /\ p[3] \in Keys
    BY <1>1
  <2> QED
    BY <1>2, <2>2, <2>3, <2>4
<1> DEFINE Long(n) == \E rest \in Keys : f[n] = Name(rest)
           Good == {n \in Nat : n \in 3..Len(p) => Long(n)}
<1> HIDE DEF Name
<1>5. 0 \in Good
  OBVIOUS
<1>6. ASSUME NEW n \in Nat, n \in Good
      PROVE  n + 1 \in Good
  <2>1. ASSUME n + 1 \in 3..Len(p) PROVE Long(n + 1)
    <3>1. CASE n + 1 = 3
      BY <1>1, <1>4, <3>1
    <3>2. CASE n + 1 # 3
      <4>1. n \in 3..Len(p) /\ n + 1 \in 2..Len(p) /\ n + 1 \in 1..Len(p) /\ n + 1 - 1 = n
        BY <1>1, <2>1, <3>2
      <4>2. PICK rest \in Keys : f[n] = Name(rest)
        BY <1>6, <4>1
      <4> DEFINE m == n + 1
      <4>3. m \in 2..Len(p) /\ m \in 1..Len(p) /\ m - 1 = n
        BY <4>1
      <4> HIDE DEF m
      <4>4. f[m] = Joined(f[n], p[m]) /\ p[m] \in Keys
        BY <1>1, <1>2, <4>3
      <4>5. f[m] = Name(Joined(rest, p[m])) /\ Joined(rest, p[m]) \in Keys
        BY <1>3, <4>2, <4>4
      <4>6. Long(m)
        BY <4>5
      <4> QED
        BY <4>6 DEF m
    <3> QED
      BY <3>1, <3>2
  <2> HIDE DEF Long
  <2> QED
    BY <2>1
<1>7. Long(Len(p))
  <2>1. Nat \subseteq Good
    <3> HIDE DEF Good
    <3> QED
      BY <1>5, <1>6, SetInduction
  <2>2. Len(p) \in Nat /\ Len(p) \in 3..Len(p)
    BY <1>1
  <2> HIDE DEF Long
  <2> QED
    BY <2>1, <2>2
<1>8. CASE Len(p) = 3
  BY <1>1, <1>2, <1>4, <1>8 DEF Name
<1>9. CASE Len(p) # 3
  BY <1>2, <1>7, <1>9 DEF Name
<1> QED
  BY <1>8, <1>9

(* What has the name of a field beneath two plain keys is beneath them itself. *)
LEMMA LongPathIs ==
  ASSUME NEW p \in Seq(Keys), p # <<>>, \A k \in 1..Len(p) : k <= 2 => Plain(p[k]),
         NEW a \in Keys, NEW b \in Keys, NEW key \in Keys, Plain(a), Plain(b),
         JoinPath(p) = Joined(a, Joined(b, key))
  PROVE  Len(p) > 2 /\ p[1] = a /\ p[2] = b /\ (Len(p) = 3 => p[3] = key)
<1> DEFINE x == p[1]
           y == p[2]
<1>1. /\ Len(p) \in Nat \ {0} /\ x \in Keys /\ Plain(x)
      /\ Len(p) > 1 => y \in Keys /\ Plain(y)
  <2>1. Len(p) \in Nat \ {0} /\ 1 \in 1..Len(p) /\ (Len(p) > 1 => 2 \in 1..Len(p))
    OBVIOUS
  <2>2. \A k \in 1..Len(p) : p[k] \in Keys
    OBVIOUS
  <2> QED
    BY <2>1, <2>2
<1>2. Joined(b, key) \in Keys
  BY JoinedLaws
<1>3. PICK f : /\ JoinPath(p) = f[Len(p)] /\ f[1] = x
               /\ \A n \in 2..Len(p) : f[n] = Joined(f[n - 1], p[n])
  BY NameIs
<1>4. Len(p) = 1 => x = Joined(a, Joined(b, key))
  BY <1>3
<1>5. Len(p) = 2 => Joined(x, y) = Joined(a, Joined(b, key))
  <2> SUFFICES ASSUME Len(p) = 2 PROVE f[2] = Joined(f[1], p[2])
    BY <1>3
  <2>1. 2 \in 2..Len(p) /\ 2 - 1 = 1
    OBVIOUS
  <2> QED
    BY <1>3, <2>1
<1>6. Len(p) > 2 =>
        \E rest \in Keys : JoinPath(p) = Joined(x, Joined(y, rest)) /\ (Len(p) = 3 => rest = p[3])
  BY LongNameIs
<1> HIDE DEF x, y
<1>7. Len(p) # 1
  BY <1>1, <1>2, <1>4, JoinedLaws
<1>8. Len(p) # 2
  <2> SUFFICES ASSUME Len(p) = 2 PROVE FALSE
    OBVIOUS
  <2>1. y \in Keys /\ Plain(y)
    BY <1>1
  <2>2. y = Joined(b, key)
    BY <1>1, <1>2, <1>5, <2>1, JoinedLaws
  <2> QED
    BY <2>1, <2>2, JoinedLaws
<1>9. Len(p) > 2
  <2>1. \A n \in Nat \ {0} : n # 1 /\ n # 2 => n > 2
    OBVIOUS
  <2>2. Len(p) \in Nat \ {0}
    BY <1>1
  <2> HIDE DEF x, y
  <2> QED
    BY <1>7, <1>8, <2>1, <2>2
<1>10. PICK rest \in Keys : JoinPath(p) = Joined(x, Joined(y, rest)) /\ (Len(p) = 3 => rest = p[3])
  BY <1>6, <1>9
<1>11. y \in Keys /\ Plain(y) /\ Joined(y, rest) \in Keys
  <2>1. y \in Keys /\ Plain(y)
    BY <1>1, <1>9
  <2> QED
    BY <2>1, JoinedLaws
<1>12. Joined(x, Joined(y, rest)) = Joined(a, Joined(b, key))
  BY <1>10
<1>13. x = a /\ Joined(y, rest) = Joined(b, key)
  BY <1>1, <1>2, <1>11, <1>12, JoinedLaws
<1>14. y = b /\ rest = key
  BY <1>11, <1>13, JoinedLaws
<1> QED
  BY <1>9, <1>10, <1>13, <1>14 DEF x, y

(* The name of an array is that of a path with one more key. *)
LEMMA JsonNameIs ==
  ASSUME NEW p \in Seq(Keys), p # <<>>, NEW key \in Keys
  PROVE  JoinPath(Append(p, key)) = JoinPath(p) \o Separator \o key
<1> DEFINE q == Append(p, key)
<1>1. /\ Len(p) \in Nat \ {0} /\ q \in Seq(Keys) /\ q # <<>> /\ Len(q) = Len(p) + 1
      /\ \A k \in 1..Len(p) : q[k] = p[k] /\ k \in 1..Len(q)
      /\ q[Len(p) + 1] = key /\ Len(p) + 1 \in 1..Len(q)
  OBVIOUS
<1> HIDE DEF q
<1>2. PICK f : Joining(p, f) /\ JoinPath(p) = f[Len(p)]
  BY JoinIs
<1>3. PICK g : Joining(q, g) /\ JoinPath(q) = g[Len(q)]
  BY <1>1, JoinIs
<1> DEFINE Good == {n \in Nat : n \in 1..Len(p) => f[n] = g[n]}
<1>4. 0 \in Good
  OBVIOUS
<1>5. ASSUME NEW n \in Nat, n \in Good
      PROVE  n + 1 \in Good
  <2> SUFFICES ASSUME n + 1 \in 1..Len(p) PROVE f[n + 1] = g[n + 1]
    OBVIOUS
  <2>1. n + 1 \in 1..Len(q) /\ q[n + 1] = p[n + 1] /\ 1 \in 1..Len(p) /\ q[1] = p[1]
    BY <1>1
  <2>2. n + 1 # 1 => f[n] = g[n]
    BY <1>1, <1>5
  <2>3. f[n + 1] = IF n + 1 = 1 THEN p[1] ELSE f[n + 1 - 1] \o Separator \o p[n + 1]
    BY <1>2 DEF Joining
  <2>4. g[n + 1] = IF n + 1 = 1 THEN q[1] ELSE g[n + 1 - 1] \o Separator \o q[n + 1]
    BY <1>3, <2>1 DEF Joining
  <2>5. n + 1 - 1 = n
    OBVIOUS
  <2> QED
    BY <2>1, <2>2, <2>3, <2>4, <2>5
<1>6. f[Len(p)] = g[Len(p)]
  <2>1. Nat \subseteq Good
    <3> HIDE DEF Good
    <3> QED
      BY <1>4, <1>5, SetInduction
  <2> QED
    BY <1>1, <2>1
<1>7. g[Len(q)] = g[Len(p)] \o Separator \o key
  <2>1. Len(q) # 1 /\ Len(q) - 1 = Len(p)
    BY <1>1
  <2>2. g[Len(q)] = IF Len(q) = 1 THEN q[1] ELSE g[Len(q) - 1] \o Separator \o q[Len(q)]
    BY <1>1, <1>3 DEF Joining
  <2> QED
    BY <1>1, <2>1, <2>2
<1> QED
  BY <1>2, <1>3, <1>6, <1>7 DEF q

-----------------------------------------------------------------------------
(* The name of a leaf.                                                     *)

Json == <<"json">>

(* A word is a plain key. *)
LEMMA WordIsPlain ==
  ASSUME NEW word \in Characters, word # Underscore
  PROVE  <<word>> \in Keys /\ Plain(<<word>>)
<1> DEFINE key == <<word>>
<1>1. key \in Seq(Characters) /\ Len(key) = 1 /\ key[1] = word
  BY Characters # {}
<1>2. Head(key) = word /\ Last(key) = word
  BY <1>1 DEF Last
<1>3. \A k \in 2..Len(key) : FALSE
  BY <1>1
<1> QED
  BY <1>1, <1>2, <1>3 DEF Plain, Keys

LEMMA JsonIsPlain == Json \in Keys /\ Plain(Json)
<1>1. "json" # Underscore
  BY Zenon DEF Underscore
<1>2. "json" \in Characters
  BY DEF Characters, Words
<1> QED
  BY <1>1, <1>2, WordIsPlain DEF Json

Open(path) == \E object \in OpenObjects : IsPrefix(object, path)

(* The keys of an open object are plain, and whatever begins with them is beneath it. *)
LEMMA OpenIs ==
  ASSUME NEW p \in Seq(Keys), Open(p)
  PROVE  /\ Len(p) > 1 /\ Plain(p[1]) /\ Plain(p[2])
         /\ \A q \in Seq(Keys) : Len(q) > 1 /\ q[1] = p[1] /\ q[2] = p[2] => Open(q)
<1>1. \A word \in Words : word \in Characters /\ word # Underscore
  <2>1. "json" # Underscore /\ "attribution" # Underscore /\ "labels" # Underscore
        /\ "usage" # Underscore /\ "llm" # Underscore /\ "tool" # Underscore /\ "cost" # Underscore
    BY Zenon DEF Underscore
  <2> QED
    BY <2>1 DEF Words, Characters
<1>2. \A object \in OpenObjects : \E a, b \in Keys : Plain(a) /\ Plain(b) /\ object = <<a, b>>
  <2>1. \A word \in Words : <<word>> \in Keys /\ Plain(<<word>>)
    BY <1>1, WordIsPlain
  <2> QED
    BY <2>1 DEF OpenObjects, Labels, Words
<1>3. ASSUME NEW x \in Keys, NEW y \in Keys, NEW q \in Seq(Keys)
      PROVE  IsPrefix(<<x, y>>, q) <=> Len(q) > 1 /\ q[1] = x /\ q[2] = y
  <2> DEFINE o == <<x, y>>
  <2>1. o \in Seq(Keys) /\ Len(o) = 2 /\ o[1] = x /\ o[2] = y /\ Len(q) \in Nat
    OBVIOUS
  <2> HIDE DEF o
  <2>2. IsPrefix(o, q) <=> Len(q) > 1 /\ SubSeq(o, 1, 2) = SubSeq(q, 1, 2)
    BY <2>1 DEF IsPrefix
  <2>3. SubSeq(o, 1, 2) = [k \in 1..2 |-> o[k]] /\ SubSeq(q, 1, 2) = [k \in 1..2 |-> q[k]]
    BY <2>1
  <2>4. [k \in 1..2 |-> o[k]] = [k \in 1..2 |-> q[k]] <=> o[1] = q[1] /\ o[2] = q[2]
    <3>1. \A k \in 1..2 : k = 1 \/ k = 2
      OBVIOUS
    <3>2. 1 \in 1..2 /\ 2 \in 1..2
      OBVIOUS
    <3> QED
      BY <3>1, <3>2
  <2> QED
    BY <2>1, <2>2, <2>3, <2>4 DEF o
<1>4. PICK object \in OpenObjects : IsPrefix(object, p)
  BY DEF Open
<1>5. PICK a, b \in Keys : Plain(a) /\ Plain(b) /\ object = <<a, b>>
  BY <1>2
<1>6. Len(p) > 1 /\ p[1] = a /\ p[2] = b
  BY <1>3, <1>4, <1>5
<1>7. ASSUME NEW q \in Seq(Keys), Len(q) > 1, q[1] = p[1], q[2] = p[2]
      PROVE  Open(q)
  BY <1>3, <1>5, <1>6, <1>7 DEF Open
<1> QED
  BY <1>5, <1>6, <1>7

(* The path a property is named after: that of its leaf, renamed as the sink does it. *)
Named(leaf, path) == IF leaf.value.kind = "array" THEN Append(path, Json) ELSE path

PropertyOf(leaf, path) ==
  [name |-> JoinPath(Named(leaf, path)),
   value |-> IF leaf.value.kind = "array" THEN CanonicalJson(leaf.value) ELSE leaf.value]

LEMMA NamedIs ==
  ASSUME NEW leaf, NEW path \in Seq(Keys), path # <<>>
  PROVE  /\ Named(leaf, path) \in Seq(Keys) /\ Named(leaf, path) # <<>>
         /\ \A k \in 1..Len(path) : Named(leaf, path)[k] = path[k]
         /\ (\A key \in Range(path) : Plain(key)) =>
              \A k \in 1..Len(Named(leaf, path)) : Plain(Named(leaf, path)[k])
<1> DEFINE more == Append(path, Json)
<1>1. /\ more \in Seq(Keys) /\ Len(more) = Len(path) + 1 /\ Len(path) \in Nat /\ more # <<>>
      /\ \A k \in 1..Len(path) : more[k] = path[k]
      /\ more[Len(path) + 1] = Json
  BY JsonIsPlain
<1>2. \A k \in 1..Len(path) : path[k] \in Range(path)
  BY DEF Range
<1>3. Named(leaf, path) = more \/ Named(leaf, path) = path
  BY DEF Named
<1> HIDE DEF more
<1>4. ASSUME \A key \in Range(path) : Plain(key), NEW k \in 1..Len(more)
      PROVE  Plain(more[k])
  <2>1. CASE k \in 1..Len(path)
    BY <1>1, <1>2, <1>4, <2>1
  <2>2. CASE k \notin 1..Len(path)
    <3>1. k = Len(path) + 1
      BY <1>1, <2>2
    <3> QED
      BY <1>1, <3>1, JsonIsPlain
  <2> QED
    BY <2>1, <2>2
<1> QED
  BY <1>1, <1>2, <1>3, <1>4

(* Unlike plain paths have unlike names: the keys of the one are those of the other, as far as
   both go. *)
LEMMA PlainNamesTell ==
  ASSUME NEW a, NEW b, NEW p \in Seq(Keys), NEW q \in Seq(Keys), p # <<>>, q # <<>>,
         \A key \in Range(p) : Plain(key), \A key \in Range(q) : Plain(key),
         PropertyOf(a, p).name = PropertyOf(b, q).name
  PROVE  /\ Named(a, p) = Named(b, q)
         /\ \A k \in 1..Len(p) : k <= Len(q) => p[k] = q[k]
<1> DEFINE r == Named(a, p)
           s == Named(b, q)
<1>1. /\ r \in Seq(Keys) /\ r # <<>> /\ \A k \in 1..Len(r) : Plain(r[k])
      /\ s \in Seq(Keys) /\ s # <<>> /\ \A k \in 1..Len(s) : Plain(s[k])
      /\ \A k \in 1..Len(p) : r[k] = p[k]
      /\ \A k \in 1..Len(q) : s[k] = q[k]
  BY NamedIs
<1>2. JoinPath(r) = JoinPath(s)
  BY DEF PropertyOf
<1> HIDE DEF r, s
<1>3. r = s
  BY <1>1, <1>2, PathsApart
<1>4. \A k \in 1..Len(p) : k <= Len(q) => k \in 1..Len(q)
  OBVIOUS
<1> QED
  BY <1>1, <1>3, <1>4 DEF r, s

(* A field beneath an open object has its name to itself, whatever its key spells. *)
LEMMA OpenNamesTell ==
  ASSUME NEW a, NEW b, NEW p \in Seq(Keys), NEW q \in Seq(Keys), p # <<>>, q # <<>>,
         Admissible(a, p), Admissible(b, q), Open(p), PropertyOf(a, p).name = PropertyOf(b, q).name
  PROVE  p = q /\ Named(a, p) = Named(b, q)
<1> DEFINE s == Named(b, q)
<1>1. Len(p) = 3 /\ Named(a, p) = p
  BY DEF Admissible, Open, Named
<1>2. Plain(p[1]) /\ Plain(p[2]) /\ p[1] \in Keys /\ p[2] \in Keys /\ p[3] \in Keys
  BY <1>1, OpenIs
<1>3. JoinPath(p) = Joined(p[1], Joined(p[2], p[3]))
  BY <1>1, LongNameIs
<1>4. JoinPath(s) = JoinPath(p)
  BY <1>1 DEF PropertyOf
<1>5. s \in Seq(Keys) /\ s # <<>> /\ \A k \in 1..Len(q) : s[k] = q[k]
  BY NamedIs
<1>6. Open(q) => Len(q) = 3 /\ s = q /\ Plain(q[1]) /\ Plain(q[2])
  <2> SUFFICES ASSUME Open(q) PROVE Len(q) = 3 /\ s = q /\ Plain(q[1]) /\ Plain(q[2])
    OBVIOUS
  <2>1. Len(q) = 3 /\ b.value.kind # "array"
    BY DEF Admissible, Open
  <2> QED
    BY <2>1, OpenIs DEF Named
<1>7. ~Open(q) => \A k \in 1..Len(s) : Plain(s[k])
  <2>1. ~Open(q) => \A key \in Range(q) : Plain(key)
    BY DEF Admissible, Open
  <2> QED
    BY <2>1, NamedIs
<1>8. Len(s) <= Len(q) + 1 /\ Len(q) \in Nat /\ Len(s) \in Nat
  <2>1. Len(Append(q, Json)) = Len(q) + 1 /\ Len(q) \in Nat
    BY JsonIsPlain
  <2>2. s = Append(q, Json) \/ s = q
    BY DEF Named
  <2> HIDE DEF s
  <2> QED
    BY <2>1, <2>2
<1> HIDE DEF s
<1>9. \A k \in 1..Len(s) : k <= 2 => Plain(s[k])
  <2>1. CASE Open(q)
    <3>1. \A k \in 1..Len(s) : k <= 2 => k = 1 \/ k = 2
      BY <1>8
    <3> QED
      BY <1>6, <2>1, <3>1
  <2>2. CASE ~Open(q)
    BY <1>7, <2>2
  <2> QED
    BY <2>1, <2>2
<1>10. Len(s) > 2 /\ s[1] = p[1] /\ s[2] = p[2] /\ (Len(s) = 3 => s[3] = p[3])
  BY <1>2, <1>3, <1>4, <1>5, <1>9, LongPathIs
<1>11. Open(q)
  <2>1. Len(q) > 1 /\ 1 \in 1..Len(q) /\ 2 \in 1..Len(q)
    BY <1>8, <1>10
  <2>2. q[1] = p[1] /\ q[2] = p[2]
    BY <1>5, <1>10, <2>1
  <2> QED
    BY <2>1, <2>2, OpenIs
<1>12. p = q
  <2>1. Len(q) = 3 /\ q[1] = p[1] /\ q[2] = p[2] /\ q[3] = p[3]
    BY <1>6, <1>10, <1>11
  <2>2. \A k \in 1..3 : k = 1 \/ k = 2 \/ k = 3
    OBVIOUS
  <2>3. \A k \in 1..3 : p[k] = q[k]
    BY <2>1, <2>2
  <2> QED
    BY <1>1, <2>1, <2>3
<1> QED
  BY <1>1, <1>6, <1>11, <1>12 DEF s

(* Unlike paths of what the schema admits have unlike names. *)
LEMMA NamesTellPaths ==
  ASSUME NEW a, NEW b, NEW p \in Seq(Keys), NEW q \in Seq(Keys), p # <<>>, q # <<>>,
         Admissible(a, p), Admissible(b, q), PropertyOf(a, p).name = PropertyOf(b, q).name
  PROVE  /\ Named(a, p) = Named(b, q)
         /\ \A k \in 1..Len(p) : k <= Len(q) => p[k] = q[k]
<1>1. CASE Open(p)
  BY <1>1, OpenNamesTell
<1>2. CASE Open(q)
  <2>1. q = p /\ Named(b, q) = Named(a, p)
    BY <1>2, OpenNamesTell
  <2> QED
    BY <2>1
<1>3. CASE ~Open(p) /\ ~Open(q)
  <2>1. (\A key \in Range(p) : Plain(key)) /\ (\A key \in Range(q) : Plain(key))
    BY <1>3 DEF Admissible, Open
  <2> QED
    BY <2>1, PlainNamesTell
<1> QED
  BY <1>1, <1>2, <1>3

(* The name that flattenInto gives it. *)
LEMMA PropertyIs ==
  ASSUME NEW leaf, NEW path \in Seq(Keys), path # <<>>
  PROVE  LET added == PropertyOf(leaf, path)
         IN /\ leaf.value.kind = "array" =>
                 added.name = JsonName(JoinPath(path)) /\ added.value = CanonicalJson(leaf.value)
            /\ leaf.value.kind # "array" => added.name = JoinPath(path) /\ added.value = leaf.value
            /\ added = [name |-> added.name, value |-> added.value]
<1>1. JoinPath(Append(path, Json)) = JoinPath(path) \o Separator \o Json
  BY JsonIsPlain, JsonNameIs
<1> QED
  BY <1>1 DEF PropertyOf, Named, JsonName, Json

(* Put replaces what has the name, or adds to the end. *)
LEMMA PutIs ==
  ASSUME NEW E, NEW properties \in Seq(E), NEW name, NEW value,
         [name |-> name, value |-> value] \in E,
         \A j, k \in DOMAIN properties : properties[j].name = properties[k].name => j = k
  PROVE  LET put == Put(properties, name, value)
         IN /\ put \in Seq(E)
            /\ \A j, k \in DOMAIN put : put[j].name = put[k].name => j = k
            /\ (\A k \in DOMAIN properties : properties[k].name # name) =>
                 put = Append(properties, [name |-> name, value |-> value])
<1> DEFINE entry == [name |-> name, value |-> value]
           put == Put(properties, name, value)
           N == Len(properties)
           same == [k \in 1..N |-> IF properties[k].name = name THEN entry ELSE properties[k]]
<1>1. N \in Nat /\ DOMAIN properties = 1..N /\ \A k \in 1..N : properties[k] \in E
  OBVIOUS
<1>2. entry \in E /\ entry.name = name
  OBVIOUS
<1>3. put = IF \E k \in 1..N : properties[k].name = name THEN same ELSE Append(properties, entry)
  BY <1>1 DEF Put
<1> HIDE DEF entry
<1>4. CASE \E k \in 1..N : properties[k].name = name
  <2>1. same \in [1..N -> E]
    BY <1>1, <1>2
  <2>2. \A S, n, f : n \in Nat /\ f \in [1..n -> S] => f \in Seq(S) /\ DOMAIN f = 1..n
    OBVIOUS
  <2>3. same \in Seq(E) /\ DOMAIN same = 1..N
    <3> HIDE DEF same
    <3> QED
      BY <1>1, <2>1, <2>2
  <2>4. \A k \in 1..N : same[k].name = properties[k].name
    BY <1>2
  <2> HIDE DEF same, put
  <2> QED
    BY <1>1, <1>3, <1>4, <2>3, <2>4 DEF put
<1>5. CASE ~\E k \in 1..N : properties[k].name = name
  <2> DEFINE more == Append(properties, entry)
  <2>1. /\ more \in Seq(E) /\ DOMAIN more = 1..(N + 1)
        /\ more[N + 1] = entry /\ \A k \in 1..N : more[k] = properties[k]
    BY <1>1, <1>2
  <2>2. put = more
    BY <1>3, <1>5
  <2> HIDE DEF more, put
  <2>3. \A k \in 1..(N + 1) : k \in 1..N \/ k = N + 1
    BY <1>1
  <2>4. \A j, k \in DOMAIN more : more[j].name = more[k].name => j = k
    BY <1>1, <1>2, <1>5, <2>1, <2>3
  <2> QED
    BY <2>1, <2>2, <2>4 DEF put, entry, more
<1> QED
  BY <1>4, <1>5

-----------------------------------------------------------------------------
(* Flattening, for either sink: properties gives each leaf's property.     *)

(* What one leaf, whose property is added, does to the properties. *)
Effect(acc, leaf, added, new) ==
  \/ acc.issue # None /\ new = acc
  \/ \E issue \in Issues : new = [acc EXCEPT !.issue = issue]
  \/ acc.issue = None /\ leaf.value.kind = "undefined" /\ new = acc
  \/ /\ acc.issue = None /\ leaf.value.kind # "undefined"
     /\ new = [acc EXCEPT !.properties = Put(@, added.name, added.value)]

LEMMA LeafIs ==
  ASSUME NEW leaf, NEW path \in Seq(Keys), path # <<>>, NEW acc,
         NEW takes \in BOOLEAN, leaf.value.kind = "array" => ~takes
  PROVE  Effect(acc, leaf, PropertyOf(leaf, path), FlattenLeaf(acc, leaf, JoinPath(path), takes))
<1> DEFINE name == JoinPath(path)
           new == FlattenLeaf(acc, leaf, name, takes)
           added == PropertyOf(leaf, path)
<1> SUFFICES Effect(acc, leaf, added, new)
  OBVIOUS
<1>1. /\ leaf.value.kind = "array" =>
           added.name = JsonName(name) /\ added.value = CanonicalJson(leaf.value)
      /\ leaf.value.kind # "array" => added.name = name /\ added.value = leaf.value
  BY PropertyIs
<1>2. "unencodable_field" \in Issues
  BY DEF Issues
<1> HIDE DEF name, added
<1>3. new = IF acc.issue # None \/ leaf.value.kind = "undefined" THEN acc
            ELSE IF leaf.value.kind = "array" /\ leaf.value.sound
              THEN [acc EXCEPT !.properties = Put(@, JsonName(name), CanonicalJson(leaf.value))]
            ELSE IF takes THEN [acc EXCEPT !.properties = Put(@, name, leaf.value)]
            ELSE [acc EXCEPT !.issue = "unencodable_field"]
  BY DEF FlattenLeaf
<1> HIDE DEF new
<1>4. CASE acc.issue # None
  BY <1>3, <1>4 DEF Effect
<1>5. CASE acc.issue = None /\ leaf.value.kind = "undefined"
  BY <1>3, <1>5 DEF Effect
<1>6. CASE acc.issue = None /\ leaf.value.kind # "undefined"
  <2>1. \/ new = [acc EXCEPT !.properties = Put(@, added.name, added.value)]
        \/ new = [acc EXCEPT !.issue = "unencodable_field"]
    BY <1>1, <1>3, <1>6
  <2> QED
    BY <1>2, <1>6, <2>1 DEF Effect
<1> QED
  BY <1>4, <1>5, <1>6

(* The first n leaves that have a value. *)
Kept(doc, n) == {k \in 1..n : doc[k].value.kind # "undefined"}

LEMMA KeptIs ==
  ASSUME NEW doc, NEW n \in Nat
  PROVE  /\ IsFiniteSet(Kept(doc, n)) /\ Cardinality(Kept(doc, n)) \in Nat
         /\ Kept(doc, 0) = {} /\ Cardinality(Kept(doc, 0)) = 0
         /\ doc[n + 1].value.kind = "undefined" => Kept(doc, n + 1) = Kept(doc, n)
         /\ doc[n + 1].value.kind # "undefined" =>
              /\ Kept(doc, n + 1) = Kept(doc, n) \cup {n + 1} /\ n + 1 \notin Kept(doc, n)
              /\ Cardinality(Kept(doc, n + 1)) = Cardinality(Kept(doc, n)) + 1
<1>1. IsFiniteSet(Kept(doc, n))
  <2>1. IsFiniteSet(1..n) /\ Kept(doc, n) \subseteq 1..n
    BY FS_Interval DEF Kept
  <2> QED
    BY <2>1, FS_Subset
<1>2. Cardinality(Kept(doc, n)) \in Nat
  BY <1>1, FS_CardinalityType
<1>3. Kept(doc, 0) = {}
  BY DEF Kept
<1>4. Cardinality(Kept(doc, 0)) = 0
  BY <1>3, FS_EmptySet
<1>5. ASSUME doc[n + 1].value.kind = "undefined"
      PROVE  Kept(doc, n + 1) = Kept(doc, n)
  BY <1>5 DEF Kept
<1>6. ASSUME doc[n + 1].value.kind # "undefined"
      PROVE  Kept(doc, n + 1) = Kept(doc, n) \cup {n + 1} /\ n + 1 \notin Kept(doc, n)
  BY <1>6 DEF Kept
<1>7. ASSUME doc[n + 1].value.kind # "undefined"
      PROVE  Cardinality(Kept(doc, n + 1)) = Cardinality(Kept(doc, n)) + 1
  BY <1>1, <1>6, <1>7, FS_AddElement
<1> QED
  BY <1>1, <1>2, <1>3, <1>4, <1>5, <1>6, <1>7

Among(doc, property, n) == {property[k] : k \in Kept(doc, n)}

NamesDiffer(properties) ==
  \A j, k \in DOMAIN properties : properties[j].name = properties[k].name => j = k

(* The properties hold those of the leaves, in their places. *)
Placed(doc, property, n, properties) ==
  /\ Len(properties) = Cardinality(Kept(doc, n))
  /\ \A k \in Kept(doc, n) :
       /\ Cardinality(Kept(doc, k)) \in 1..Len(properties)
       /\ properties[Cardinality(Kept(doc, k))] = property[k]

(* The accumulator that n leaves may make. *)
Accs(doc, property, n) ==
  [properties : Seq(Among(doc, property, n)), issue : Issues \cup {None}]

(* What the first n leaves have made: good is which leaves pass without an issue, and apart
   whether no two of those have one name. *)
Filling(doc, property, good, apart, n, acc) ==
  /\ acc \in Accs(doc, property, n)
  /\ NamesDiffer(acc.properties)
  /\ acc.issue = None =>
       /\ \A k \in 1..n : k \in good
       /\ apart => Placed(doc, property, n, acc.properties)

(* What leaf n does. *)
Passes(doc, property, good, n, acc, new) ==
  /\ Effect(acc, doc[n], property[n], new)
  /\ new.issue = None => n \in good

LEMMA AmongGrows ==
  ASSUME NEW doc, NEW property, NEW N \in Nat, NEW n \in 0..N, NEW acc \in Accs(doc, property, n)
  PROVE  acc \in Accs(doc, property, N)
<1>1. Among(doc, property, n) \subseteq Among(doc, property, N)
  BY DEF Among, Kept
<1> HIDE DEF Among
<1>2. \A S, T, s : S \subseteq T /\ s \in Seq(S) => s \in Seq(T)
  OBVIOUS
<1>3. acc.properties \in Seq(Among(doc, property, N)) /\ acc.issue \in Issues \cup {None}
      /\ acc = [properties |-> acc.properties, issue |-> acc.issue]
  BY <1>1, <1>2 DEF Accs
<1> QED
  BY <1>3 DEF Accs

(* One more, behind the others. *)
LEMMA PlacedGrows ==
  ASSUME NEW doc, NEW property, NEW n \in Nat, NEW S, NEW properties \in Seq(S),
         Placed(doc, property, n, properties), doc[n + 1].value.kind # "undefined",
         property[n + 1] \in S
  PROVE  Placed(doc, property, n + 1, Append(properties, property[n + 1]))
<1> DEFINE new == property[n + 1]
           more == Append(properties, new)
<1>1. Len(properties) \in Nat /\ Len(more) = Len(properties) + 1
      /\ (\A k \in 1..Len(properties) : more[k] = properties[k]) /\ more[Len(properties) + 1] = new
  OBVIOUS
<1> HIDE DEF more
<1>2. /\ Kept(doc, n + 1) = Kept(doc, n) \cup {n + 1}
      /\ Cardinality(Kept(doc, n + 1)) = Cardinality(Kept(doc, n)) + 1
  BY KeptIs
<1>3. Len(properties) = Cardinality(Kept(doc, n))
  BY DEF Placed
<1>4. ASSUME NEW k \in Kept(doc, n)
      PROVE  /\ Cardinality(Kept(doc, k)) \in 1..Len(more)
             /\ more[Cardinality(Kept(doc, k))] = property[k]
  <2>1. /\ Cardinality(Kept(doc, k)) \in 1..Len(properties)
        /\ properties[Cardinality(Kept(doc, k))] = property[k]
    BY DEF Placed
  <2> QED
    BY <1>1, <2>1
<1>5. /\ Cardinality(Kept(doc, n + 1)) \in 1..Len(more)
      /\ more[Cardinality(Kept(doc, n + 1))] = property[n + 1]
  BY <1>1, <1>2, <1>3
<1>6. Placed(doc, property, n + 1, more)
  BY <1>1, <1>2, <1>3, <1>4, <1>5 DEF Placed
<1> QED
  BY <1>6 DEF more

LEMMA LeafFills ==
  ASSUME NEW doc, NEW property, NEW good, NEW apart \in BOOLEAN,
         apart => \A i, j \in good : property[i].name = property[j].name => i = j,
         NEW n \in Nat, NEW acc, Filling(doc, property, good, apart, n, acc),
         property[n + 1] = [name |-> property[n + 1].name, value |-> property[n + 1].value],
         NEW new, Passes(doc, property, good, n + 1, acc, new)
  PROVE  Filling(doc, property, good, apart, n + 1, new)
<1> DEFINE leaf == doc[n + 1]
           added == property[n + 1]
           put == Put(acc.properties, added.name, added.value)
           E == Among(doc, property, n + 1)
           Acc == [properties : Seq(E), issue : Issues \cup {None}]
<1>1. acc \in Acc
  <2>1. n + 1 \in Nat /\ n \in 0..(n + 1)
    OBVIOUS
  <2> QED
    BY <2>1, AmongGrows DEF Filling, Accs
<1>2. NamesDiffer(acc.properties)
  BY DEF Filling
<1>3. \/ acc.issue # None /\ new = acc
      \/ \E issue \in Issues : new = [acc EXCEPT !.issue = issue]
      \/ acc.issue = None /\ leaf.value.kind = "undefined" /\ new = acc
      \/ /\ acc.issue = None /\ leaf.value.kind # "undefined"
         /\ new = [acc EXCEPT !.properties = put]
  BY DEF Passes, Effect
<1>4. new.issue = None => n + 1 \in good
  BY DEF Passes
<1>5. CASE acc.issue # None /\ new = acc
  BY <1>1, <1>2, <1>5 DEF Filling, Accs
<1>6. CASE \E issue \in Issues : new = [acc EXCEPT !.issue = issue]
  <2>1. PICK issue \in Issues : new = [acc EXCEPT !.issue = issue]
    BY <1>6
  <2> HIDE DEF E
  <2>2. new \in Acc /\ new.properties = acc.properties /\ new.issue = issue
    BY <1>1, <2>1
  <2>3. issue # None
    BY NoneAssumption
  <2> QED
    BY <1>2, <2>2, <2>3 DEF Filling, Accs, E
<1>7. ASSUME acc.issue = None, new.issue = None
      PROVE  \A k \in 1..(n + 1) : k \in good
  <2>1. \A k \in 1..n : k \in good
    BY <1>7 DEF Filling
  <2>2. \A k \in 1..(n + 1) : k \in 1..n \/ k = n + 1
    OBVIOUS
  <2> QED
    BY <1>4, <1>7, <2>1, <2>2
<1>8. CASE acc.issue = None /\ leaf.value.kind = "undefined" /\ new = acc
  <2>1. Kept(doc, n + 1) = Kept(doc, n)
    BY <1>8, KeptIs
  <2>2. apart => Placed(doc, property, n + 1, acc.properties)
    BY <1>8, <2>1 DEF Filling, Placed
  <2> QED
    BY <1>1, <1>2, <1>7, <1>8, <2>2 DEF Filling, Accs
<1>9. CASE /\ acc.issue = None /\ leaf.value.kind # "undefined"
           /\ new = [acc EXCEPT !.properties = put]
  <2>1. added \in E /\ added = [name |-> added.name, value |-> added.value]
    <3>1. n + 1 \in Kept(doc, n + 1)
      BY <1>9 DEF Kept
    <3> QED
      BY <3>1 DEF Among
  <2>2. acc.properties \in Seq(E)
    BY <1>1
  <2> HIDE DEF added, E
  <2>3. /\ put \in Seq(E) /\ NamesDiffer(put)
        /\ (\A k \in DOMAIN acc.properties : acc.properties[k].name # added.name) =>
             put = Append(acc.properties, added)
    <3> DEFINE properties == acc.properties
               name == added.name
               value == added.value
    <3>1. properties \in Seq(E) /\ [name |-> name, value |-> value] \in E
      BY <2>1, <2>2
    <3>2. \A j, k \in DOMAIN properties : properties[j].name = properties[k].name => j = k
      BY <1>2 DEF NamesDiffer
    <3> HIDE DEF properties, name, value
    <3>3. LET p == Put(properties, name, value)
          IN /\ p \in Seq(E)
             /\ \A j, k \in DOMAIN p : p[j].name = p[k].name => j = k
             /\ (\A k \in DOMAIN properties : properties[k].name # name) =>
                  p = Append(properties, [name |-> name, value |-> value])
      BY <3>1, <3>2, PutIs
    <3> QED
      BY <2>1, <3>3 DEF NamesDiffer, properties, name, value
  <2> HIDE DEF put
  <2>4. new \in Acc /\ new.properties = put /\ new.issue = None
    BY <1>1, <1>9, <2>3
  <2>5. ASSUME apart
        PROVE  Placed(doc, property, n + 1, put)
    <3>1. Placed(doc, property, n, acc.properties) /\ acc.properties \in Seq(Among(doc, property, n))
      BY <1>9, <2>5 DEF Filling, Accs
    <3>2. ASSUME NEW j \in DOMAIN acc.properties
          PROVE  acc.properties[j].name # added.name
      <4>1. acc.properties[j] \in Among(doc, property, n)
        BY <3>1, <3>2
      <4>2. PICK k \in Kept(doc, n) : acc.properties[j] = property[k]
        BY <4>1 DEF Among
      <4>3. k \in 1..(n + 1) /\ n + 1 \in 1..(n + 1) /\ k # n + 1
        BY DEF Kept
      <4> QED
        BY <1>7, <1>9, <2>4, <2>5, <4>2, <4>3 DEF added
    <3>3. put = Append(acc.properties, added)
      BY <2>3, <3>2
    <3>4. acc.properties \in Seq(E) /\ added \in E
      BY <2>1, <2>2
    <3> QED
      BY <1>9, <3>1, <3>3, <3>4, PlacedGrows DEF added
  <2> QED
    BY <1>7, <1>9, <2>3, <2>4, <2>5 DEF Filling, Accs, E
<1> QED
  BY <1>3, <1>5, <1>6, <1>8, <1>9

LEMMA StartFills ==
  ASSUME NEW doc, NEW property, NEW good, NEW apart \in BOOLEAN
  PROVE  Filling(doc, property, good, apart, 0, Start)
<1>1. Start.properties = <<>> /\ Start.issue = None /\ Start = [properties |-> <<>>, issue |-> None]
  BY DEF Start
<1>2. \A S : <<>> \in Seq(S) /\ Len(<<>>) = 0 /\ DOMAIN <<>> = {}
  OBVIOUS
<1>3. Start \in Accs(doc, property, 0)
  <2> HIDE DEF Among
  <2> QED
    BY <1>1, <1>2 DEF Accs
<1>4. NamesDiffer(<<>>)
  BY <1>2 DEF NamesDiffer
<1>5. Placed(doc, property, 0, <<>>)
  BY <1>2, KeptIs DEF Placed
<1> QED
  BY <1>1, <1>3, <1>4, <1>5 DEF Filling

(* The properties of leaves that are good have names apart, if that is claimed. *)
Naming(property, good, apart, N) ==
  /\ apart => \A i, j \in good : property[i].name = property[j].name => i = j
  /\ \A n \in 1..N : property[n] = [name |-> property[n].name, value |-> property[n].value]

(* What each leaf does, as a function. *)
Leaves(doc, property, good, apart, N, leaf) ==
  /\ leaf \in [1..N -> [Accs(doc, property, N) -> Accs(doc, property, N)]]
  /\ \A n \in 1..N : \A acc \in Accs(doc, property, N) :
       Filling(doc, property, good, apart, n - 1, acc) =>
         Passes(doc, property, good, n, acc, leaf[n][acc])

(* What they do one after the other. *)
Folded(doc, property, good, apart, N, leaf, f) ==
  /\ f \in [0..N -> Accs(doc, property, N)] /\ f[0] = Start
  /\ \A n \in 1..N : f[n] = leaf[n][f[n - 1]] /\ Filling(doc, property, good, apart, n - 1, f[n - 1])

LEMMA FoldFills ==
  ASSUME NEW doc, NEW property, NEW good, NEW apart \in BOOLEAN, NEW N \in Nat,
         Naming(property, good, apart, N),
         NEW f, f[0] = Start,
         \A n \in 1..N : Filling(doc, property, good, apart, n - 1, f[n - 1]) =>
                         Passes(doc, property, good, n, f[n - 1], f[n])
  PROVE  \A n \in 0..N : Filling(doc, property, good, apart, n, f[n])
<1> DEFINE Good == {n \in Nat : n \in 0..N => Filling(doc, property, good, apart, n, f[n])}
<1>1. 0 \in Good
  BY StartFills
<1>2. ASSUME NEW n \in Nat, n \in Good
      PROVE  n + 1 \in Good
  <2> SUFFICES ASSUME n + 1 \in 0..N
               PROVE  Filling(doc, property, good, apart, n + 1, f[n + 1])
    OBVIOUS
  <2>1. n + 1 \in 1..N /\ n \in 0..N /\ n + 1 - 1 = n
    OBVIOUS
  <2>2. Filling(doc, property, good, apart, n, f[n])
    BY <1>2, <2>1
  <2>3. Passes(doc, property, good, n + 1, f[n], f[n + 1])
    BY <2>1, <2>2
  <2>4. property[n + 1] = [name |-> property[n + 1].name, value |-> property[n + 1].value]
    BY <2>1 DEF Naming
  <2> HIDE DEF Good
  <2> QED
    BY <2>2, <2>3, <2>4, LeafFills DEF Naming
<1>3. Nat \subseteq Good
  <2> HIDE DEF Good
  <2> QED
    BY <1>1, <1>2, SetInduction
<1> QED
  BY <1>3

(* There is such a function, if what each leaf does is given as one. *)
LEMMA FoldIs ==
  ASSUME NEW doc, NEW property, NEW good, NEW apart \in BOOLEAN, NEW N \in Nat,
         Naming(property, good, apart, N),
         NEW leaf, Leaves(doc, property, good, apart, N, leaf)
  PROVE  \E f : Folded(doc, property, good, apart, N, leaf, f)
<1> DEFINE A == Accs(doc, property, N)
           Fills(n, acc) == Filling(doc, property, good, apart, n, acc)
<1>1. Start \in A
  <2>1. Fills(0, Start) /\ 0 \in 0..N
    BY StartFills
  <2> QED
    BY <2>1, AmongGrows DEF Filling
<1> HIDE DEF A
<1>2. PICK f : Recurs(A, Start, N, leaf, f)
  <2>1. leaf \in Steps(A, N)
    BY DEF A, Leaves, Steps
  <2> QED
    BY <1>1, <2>1, RecursionIs
<1>3. f \in [0..N -> A] /\ f[0] = Start /\ \A n \in 1..N : f[n] = leaf[n][f[n - 1]]
  BY <1>2 DEF Recurs
<1> DEFINE Good == {n \in Nat : n \in 0..N => Fills(n, f[n])}
<1>4. 0 \in Good
  BY <1>3, StartFills
<1>5. ASSUME NEW n \in Nat, n \in Good
      PROVE  n + 1 \in Good
  <2> SUFFICES ASSUME n + 1 \in 0..N
               PROVE  Fills(n + 1, f[n + 1])
    OBVIOUS
  <2>1. n + 1 \in 1..N /\ n \in 0..N /\ n + 1 - 1 = n
    OBVIOUS
  <2>2. Fills(n, f[n])
    BY <1>5, <2>1
  <2>3. f[n] \in Accs(doc, property, N)
    BY <1>3, <2>1 DEF A
  <2>4. Passes(doc, property, good, n + 1, f[n], f[n + 1])
    BY <1>3, <2>1, <2>2, <2>3 DEF Leaves
  <2>5. property[n + 1] = [name |-> property[n + 1].name, value |-> property[n + 1].value]
    BY <2>1 DEF Naming
  <2> HIDE DEF Good
  <2> QED
    BY <2>2, <2>4, <2>5, LeafFills DEF Naming
<1>6. Nat \subseteq Good
  <2> HIDE DEF Good
  <2> QED
    BY <1>4, <1>5, SetInduction
<1>7. ASSUME NEW n \in 1..N
      PROVE  Fills(n - 1, f[n - 1])
  <2>1. n - 1 \in Nat /\ n - 1 \in 0..N
    OBVIOUS
  <2> QED
    BY <1>6, <2>1
<1> QED
  BY <1>3, <1>7 DEF A, Folded

(* The property, or the leaf's value in it. *)
Holds(p, leaf) ==
  \/ p.value = leaf.value
  \/ leaf.value.kind = "array" /\ p.value = CanonicalJson(leaf.value)

(* Properties of a record's leaves, named apart and, if no two leaves share a name, each in the
   place of its leaf. *)
Keeping(doc, apart, N, properties) ==
  /\ \A j, k \in DOMAIN properties : properties[j].name = properties[k].name => j = k
  /\ \A p \in Range(properties) : \E k \in Kept(doc, N) : Holds(p, doc[k])
  /\ apart =>
       /\ Len(properties) = Cardinality(Kept(doc, N))
       /\ \A k \in Kept(doc, N) : Holds(properties[Cardinality(Kept(doc, k))], doc[k])

LEMMA FilledHolds ==
  ASSUME NEW doc, NEW property, NEW good, NEW apart \in BOOLEAN, NEW N,
         NEW acc, Filling(doc, property, good, apart, N, acc), acc.issue = None,
         \A k \in 1..N : Holds(property[k], doc[k])
  PROVE  Keeping(doc, apart, N, acc.properties)
<1> DEFINE properties == acc.properties
<1>1. \A k \in Kept(doc, N) : Holds(property[k], doc[k])
  BY DEF Kept
<1>2. NamesDiffer(properties) /\ properties \in Seq(Among(doc, property, N))
  BY DEF Filling, Accs
<1>3. ASSUME NEW p \in Range(properties)
      PROVE  \E k \in Kept(doc, N) : Holds(p, doc[k])
  <2>1. p \in Among(doc, property, N)
    BY <1>2, <1>3 DEF Range
  <2>2. PICK k \in Kept(doc, N) : p = property[k]
    BY <2>1 DEF Among
  <2> QED
    BY <1>1, <2>2
<1>4. ASSUME apart
      PROVE  /\ Len(properties) = Cardinality(Kept(doc, N))
             /\ \A k \in Kept(doc, N) : Holds(properties[Cardinality(Kept(doc, k))], doc[k])
  <2>1. Placed(doc, property, N, properties)
    BY <1>4 DEF Filling
  <2> QED
    BY <1>1, <2>1 DEF Placed
<1> QED
  BY <1>2, <1>3, <1>4 DEF NamesDiffer, Keeping

(* A path with the label keys rewritten has as many keys; only keys behind "labels" change. *)
LEMMA RewriteIs ==
  ASSUME NEW path \in Seq(Seq(STRING))
  PROVE  /\ RewriteLabels(path) \in Seq(Keys)
         /\ Len(RewriteLabels(path)) = Len(path) /\ Len(path) \in Nat
         /\ \A k \in 1..Len(path) :
              RewriteLabels(path)[k] =
                IF k > 1 /\ path[k - 1] = Labels THEN Rewritten(path[k]) ELSE path[k]
<1> DEFINE N == Len(path)
           new == [k \in 1..N |->
                     IF k > 1 /\ path[k - 1] = Labels THEN Rewritten(path[k]) ELSE path[k]]
<1>1. N \in Nat /\ DOMAIN path = 1..N /\ \A k \in 1..N : path[k] \in Seq(STRING)
  OBVIOUS
<1>2. RewriteLabels(path) = new
  BY <1>1 DEF RewriteLabels
<1>3. ASSUME NEW key \in Seq(STRING)
      PROVE  key \in Keys /\ Rewritten(key) \in Keys
  <2>1. Len(key) \in Nat /\ DOMAIN key = 1..Len(key) /\ \A k \in 1..Len(key) : key[k] \in Characters
    BY DEF Characters
  <2>2. Underscore \in Characters
    BY DEF Characters
  <2>3. \A k \in DOMAIN key : (IF key[k] \in {".", "-"} THEN Underscore ELSE key[k]) \in Characters
    BY <2>1, <2>2
  <2>4. Rewritten(key) \in [1..Len(key) -> Characters]
    BY <2>1, <2>3 DEF Rewritten
  <2>5. Rewritten(key) \in Seq(Characters)
    BY <2>1, <2>4
  <2>6. key \in Seq(Characters)
    BY DEF Characters
  <2> QED
    BY <2>5, <2>6 DEF Keys
<1>4. \A k \in 1..N : new[k] \in Keys
  BY <1>1, <1>3
<1>5. new \in [1..N -> Keys]
  BY <1>4
<1>6. new \in Seq(Keys) /\ Len(new) = N
  <2>1. \A S, n, f : n \in Nat /\ f \in [1..n -> S] => f \in Seq(S) /\ Len(f) = n
    OBVIOUS
  <2> HIDE DEF new
  <2> QED
    BY <1>1, <1>5, <2>1
<1> QED
  BY <1>1, <1>2, <1>6

(* Of two paths in a record whose labels do not collide, what the rewriting makes alike was alike. *)
LEMMA AlikeBefore ==
  ASSUME NEW doc, IsRecord(doc), NEW i \in DOMAIN doc, NEW j \in DOMAIN doc,
         ~LabelsCollide(doc, doc[i].path), NEW n \in Nat,
         n <= Len(doc[i].path), n <= Len(doc[j].path),
         \A k \in 1..n : RewriteLabels(doc[i].path)[k] = RewriteLabels(doc[j].path)[k]
  PROVE  \A k \in 1..n : doc[i].path[k] = doc[j].path[k]
<1> DEFINE p == doc[i].path
           q == doc[j].path
           Good == {m \in Nat : m <= n => \A k \in 1..m : p[k] = q[k]}
<1>1. p \in Seq(Seq(STRING)) /\ q \in Seq(Seq(STRING))
  BY DEF IsRecord
<1>2. Len(p) \in Nat /\ Len(q) \in Nat /\ n <= Len(p) /\ n <= Len(q)
  BY <1>1
<1>3. ~LabelsCollide(doc, p) /\ \A k \in 1..n : RewriteLabels(p)[k] = RewriteLabels(q)[k]
  OBVIOUS
<1>4. /\ p = doc[i].path /\ q = doc[j].path
  OBVIOUS
<1> HIDE DEF p, q
<1>5. 0 \in Good
  OBVIOUS
<1>6. ASSUME NEW m \in Nat, m \in Good
      PROVE  m + 1 \in Good
  <2> SUFFICES ASSUME m + 1 <= n PROVE \A k \in 1..(m + 1) : p[k] = q[k]
    OBVIOUS
  <2> DEFINE l == m + 1
  <2>1. \A k \in 1..m : p[k] = q[k]
    BY <1>6
  <2>2. l \in 1..n /\ l \in 1..Len(p) /\ l \in 1..Len(q) /\ l - 1 = m /\ l \in Nat
    BY <1>2
  <2> HIDE DEF l
  <2>3. RewriteLabels(p)[l] = RewriteLabels(q)[l]
    BY <1>3, <2>2
  <2>4. /\ RewriteLabels(p)[l] = IF l > 1 /\ p[l - 1] = Labels THEN Rewritten(p[l]) ELSE p[l]
        /\ RewriteLabels(q)[l] = IF l > 1 /\ q[l - 1] = Labels THEN Rewritten(q[l]) ELSE q[l]
    BY <1>1, <2>2, RewriteIs
  <2>5. l > 1 => p[l - 1] = q[l - 1]
    <3>1. l > 1 => m \in 1..m
      BY <2>2
    <3> QED
      BY <2>1, <2>2, <3>1
  <2>6. p[l] = q[l]
    <3>1. CASE l > 1 /\ p[l - 1] = Labels
      <4>1. Rewritten(p[l]) = Rewritten(q[l])
        BY <2>3, <2>4, <2>5, <3>1
      <4>2. SubSeq(p, 1, l - 1) = SubSeq(q, 1, l - 1)
        <5>1. SubSeq(p, 1, m) = [k \in 1..m |-> p[k]] /\ SubSeq(q, 1, m) = [k \in 1..m |-> q[k]]
          BY <1>1, <2>2, <1>2
        <5>2. [k \in 1..m |-> p[k]] = [k \in 1..m |-> q[k]]
          BY <2>1
        <5> QED
          BY <2>2, <5>1, <5>2
      <4>3. l \in 2..Len(p)
        BY <2>2, <3>1
      <4>4. Len(p) >= l /\ Len(q) >= l
        BY <2>2, <1>2
      <4> DEFINE beside ==
                   {doc[x].path[l] : x \in {y \in DOMAIN doc :
                      Len(doc[y].path) >= l /\ SubSeq(doc[y].path, 1, l - 1) = SubSeq(p, 1, l - 1)}}
      <4>5. p[l] \in beside /\ q[l] \in beside
        BY <1>4, <4>2, <4>4
      <4>6. \A a, b \in beside : ~(a # b /\ Rewritten(a) = Rewritten(b))
        BY <1>3, <3>1, <4>3 DEF LabelsCollide
      <4> HIDE DEF beside
      <4> QED
        BY <4>1, <4>5, <4>6
    <3>2. CASE ~(l > 1 /\ p[l - 1] = Labels)
      BY <2>3, <2>4, <2>5, <3>2
    <3> QED
      BY <3>1, <3>2
  <2>7. \A k \in 1..(m + 1) : k \in 1..m \/ k = l
    BY DEF l
  <2> QED
    BY <2>1, <2>6, <2>7
<1>7. n \in Good
  <2> HIDE DEF Good
  <2>1. Nat \subseteq Good
    BY <1>5, <1>6, SetInduction
  <2> QED
    BY <2>1
<1> QED
  BY <1>4, <1>7

(* No leaf is beneath another. *)
LEMMA ApartAsPaths ==
  ASSUME NEW doc, IsRecord(doc), NEW i \in DOMAIN doc, NEW j \in DOMAIN doc,
         Len(doc[i].path) <= Len(doc[j].path),
         \A k \in 1..Len(doc[i].path) : doc[i].path[k] = doc[j].path[k]
  PROVE  i = j
<1> DEFINE p == doc[i].path
           q == doc[j].path
<1>1. p \in Seq(Seq(STRING)) /\ q \in Seq(Seq(STRING))
  BY DEF IsRecord
<1>2. Len(p) \in Nat /\ Len(q) \in Nat /\ Len(p) <= Len(q) /\ \A k \in 1..Len(p) : p[k] = q[k]
  BY <1>1
<1>3. IsPrefix(p, q) => i = j
  BY DEF IsRecord
<1> HIDE DEF p, q
<1>4. /\ SubSeq(p, 1, Len(p)) = [k \in 1..Len(p) |-> p[k]]
      /\ SubSeq(q, 1, Len(p)) = [k \in 1..Len(p) |-> q[k]]
  BY <1>1, <1>2
<1>5. [k \in 1..Len(p) |-> p[k]] = [k \in 1..Len(p) |-> q[k]]
  BY <1>2
<1> QED
  BY <1>2, <1>3, <1>4, <1>5 DEF IsPrefix

-----------------------------------------------------------------------------
(* Chargebee's events.                                                     *)

ChargebeeProperties(doc) ==
  [k \in DOMAIN doc |-> PropertyOf(doc[k], RewriteLabels(doc[k].path))]

(* The leaves whose labels do not collide with others'. *)
Passing(doc) == {k \in DOMAIN doc : ~LabelsCollide(doc, doc[k].path)}

(* Two leaves of what the schema admits have names of their own. *)
LEMMA NamesApart ==
  ASSUME NEW doc, IsRecord(doc), Admitted(doc, RewriteLabels), NEW i \in Passing(doc), NEW j \in Passing(doc),
         ChargebeeProperties(doc)[i].name = ChargebeeProperties(doc)[j].name
  PROVE  i = j
<1> DEFINE p == doc[i].path
           q == doc[j].path
           r == RewriteLabels(p)
           s == RewriteLabels(q)
<1>1. i \in DOMAIN doc /\ j \in DOMAIN doc /\ ~LabelsCollide(doc, p) /\ ~LabelsCollide(doc, q)
  BY DEF Passing
<1>2. p \in Seq(Seq(STRING)) /\ q \in Seq(Seq(STRING)) /\ p # <<>> /\ q # <<>>
  BY <1>1 DEF IsRecord
<1>3. /\ r \in Seq(Keys) /\ Len(r) = Len(p) /\ Len(p) \in Nat /\ r # <<>>
      /\ s \in Seq(Keys) /\ Len(s) = Len(q) /\ Len(q) \in Nat /\ s # <<>>
  BY <1>2, RewriteIs
<1>4. Admissible(doc[i], r) /\ Admissible(doc[j], s)
  BY <1>1 DEF Admitted
<1>5. PropertyOf(doc[i], r).name = PropertyOf(doc[j], s).name
  BY <1>1 DEF ChargebeeProperties
<1> HIDE DEF r, s
<1>6. \A k \in 1..Len(r) : k <= Len(s) => r[k] = s[k]
  BY <1>3, <1>4, <1>5, NamesTellPaths
<1>7. CASE Len(p) <= Len(q)
  <2>1. \A k \in 1..Len(p) : RewriteLabels(p)[k] = RewriteLabels(q)[k]
    BY <1>3, <1>6, <1>7 DEF r, s
  <2>2. \A k \in 1..Len(p) : p[k] = q[k]
    BY <1>1, <1>3, <1>7, <2>1, AlikeBefore
  <2> QED
    BY <1>1, <1>7, <2>2, ApartAsPaths
<1>8. CASE Len(q) <= Len(p)
  <2>1. \A k \in 1..Len(q) : RewriteLabels(q)[k] = RewriteLabels(p)[k]
    BY <1>3, <1>6, <1>8 DEF r, s
  <2>2. \A k \in 1..Len(q) : q[k] = p[k]
    BY <1>1, <1>3, <1>8, <2>1, AlikeBefore
  <2> QED
    BY <1>1, <1>8, <2>2, ApartAsPaths
<1> QED
  BY <1>3, <1>7, <1>8

LEMMA ChargebeeLeafPasses ==
  ASSUME NEW doc, IsRecord(doc), NEW n \in DOMAIN doc, NEW N, NEW acc \in Accs(doc, ChargebeeProperties(doc), N)
  PROVE  Passes(doc, ChargebeeProperties(doc), Passing(doc), n, acc, ChargebeeLeaf(acc, doc, doc[n]))
<1> DEFINE leaf == doc[n]
           path == RewriteLabels(leaf.path)
           takes == leaf.value.kind \in Scalars
           new == ChargebeeLeaf(acc, doc, leaf)
           added == PropertyOf(leaf, path)
           flat == FlattenLeaf(acc, leaf, JoinPath(path), takes)
<1>1. leaf.path \in Seq(Seq(STRING)) /\ leaf.path # <<>>
  BY DEF IsRecord
<1>2. path \in Seq(Keys) /\ path # <<>>
  BY <1>1, RewriteIs
<1>3. takes \in BOOLEAN /\ (leaf.value.kind = "array" => ~takes)
  BY DEF Scalars
<1>4. Effect(acc, leaf, added, flat)
  <2> HIDE DEF takes, path, leaf
  <2> QED
    BY <1>2, <1>3, LeafIs
<1>5. ChargebeeProperties(doc)[n] = added
  BY DEF ChargebeeProperties
<1>6. \A issue : [acc EXCEPT !.issue = issue].issue = issue
  BY DEF Accs
<1>7. CASE acc.issue = None /\ LabelsCollide(doc, leaf.path)
  <2>1. new = [acc EXCEPT !.issue = "labels_collide"]
    BY <1>7 DEF ChargebeeLeaf
  <2>2. "labels_collide" \in Issues /\ "labels_collide" # None
    BY NoneAssumption DEF Issues
  <2> HIDE DEF new, added
  <2>3. Effect(acc, leaf, added, new) /\ new.issue # None
    BY <1>6, <2>1, <2>2 DEF Effect
  <2> QED
    BY <1>5, <2>3 DEF Passes, new
<1>8. CASE ~(acc.issue = None /\ LabelsCollide(doc, leaf.path))
  <2>1. new = flat
    BY <1>8 DEF ChargebeeLeaf
  <2>2. acc.issue # None => flat = acc
    BY DEF FlattenLeaf
  <2>3. flat.issue = None => n \in Passing(doc)
    BY <1>8, <2>2 DEF Passing
  <2> HIDE DEF flat, added, new
  <2> QED
    BY <1>4, <1>5, <2>1, <2>3 DEF Passes, new
<1> QED
  BY <1>7, <1>8

LEMMA ChargebeeFlattenIs ==
  ASSUME NEW doc, IsRecord(doc)
  PROVE  Filling(doc, ChargebeeProperties(doc), Passing(doc), Admitted(doc, RewriteLabels), Len(doc),
                 ChargebeeFlatten(doc))
<1> DEFINE N == Len(doc)
           property == ChargebeeProperties(doc)
           good == Passing(doc)
           apart == Admitted(doc, RewriteLabels)
           A == Accs(doc, property, N)
           Leaf(n, acc) == ChargebeeLeaf(acc, doc, doc[n])
           Step(f, n) == IF n = 0 THEN Start ELSE Leaf(n, f[n - 1])
           leaf == [n \in 1..N |-> [acc \in A |-> IF Leaf(n, acc) \in A THEN Leaf(n, acc) ELSE acc]]
<1>1. N \in Nat /\ DOMAIN doc = 1..N
  BY DEF IsRecord
<1>2. apart \in BOOLEAN
  BY DEF Admitted
<1>3. Naming(property, good, apart, N)
  BY <1>1, NamesApart DEF Naming, ChargebeeProperties, PropertyOf
<1>4. ASSUME NEW n \in 1..N, NEW acc, Filling(doc, property, good, apart, n - 1, acc)
      PROVE  acc \in A /\ Passes(doc, property, good, n, acc, Leaf(n, acc)) /\ Leaf(n, acc) \in A
  <2>1. n - 1 \in Nat /\ n - 1 + 1 = n /\ n - 1 \in 0..N /\ n \in 0..N
    BY <1>1
  <2>2. acc \in A
    BY <1>1, <1>4, <2>1, AmongGrows DEF Filling
  <2>3. Passes(doc, property, good, n, acc, Leaf(n, acc))
    BY <1>1, <2>2, ChargebeeLeafPasses
  <2> HIDE DEF A, Leaf, property, good, apart
  <2>4. Filling(doc, property, good, apart, n, Leaf(n, acc))
    <3> DEFINE m == n - 1
    <3>1. m \in Nat /\ m + 1 = n
      BY <2>1
    <3>2. Filling(doc, property, good, apart, m, acc)
      BY <1>4
    <3> HIDE DEF m
    <3> QED
      BY <1>2, <1>3, <2>1, <2>3, <3>1, <3>2, LeafFills DEF Naming
  <2>5. Leaf(n, acc) \in A
    BY <1>1, <2>1, <2>4, AmongGrows DEF Filling, A
  <2> QED
    BY <2>2, <2>3, <2>5
<1> HIDE DEF Leaf, property, good, apart, A
<1>5. leaf \in [1..N -> [A -> A]]
  OBVIOUS
<1>6. \A n \in 1..N : \A acc \in A :
        Filling(doc, property, good, apart, n - 1, acc) =>
          leaf[n][acc] = Leaf(n, acc) /\ Passes(doc, property, good, n, acc, leaf[n][acc])
  BY <1>4
<1> HIDE DEF leaf
<1>7. PICK f \in [0..N -> A] :
        /\ f[0] = Start
        /\ \A n \in 1..N : f[n] = leaf[n][f[n - 1]] /\ Filling(doc, property, good, apart, n - 1, f[n - 1])
  <2>1. Leaves(doc, property, good, apart, N, leaf)
    BY <1>5, <1>6 DEF A, Leaves
  <2>2. N \in Nat
    BY <1>1
  <2> HIDE DEF N, Step
  <2>3. \E f : Folded(doc, property, good, apart, N, leaf, f)
    BY <1>2, <1>3, <2>1, <2>2, FoldIs
  <2> QED
    BY <2>3 DEF A, Folded
<1>8. f = [n \in 0..N |-> Step(f, n)]
  <2>1. f = [n \in 0..N |-> f[n]]
    BY <1>7
  <2>2. \A n \in 0..N : n = 0 \/ (n \in 1..N /\ n # 0 /\ n - 1 \in 0..N)
    BY <1>1
  <2>3. \A n \in 0..N : f[n] = Step(f, n)
    BY <1>6, <1>7, <2>2
  <2> HIDE DEF Step
  <2> QED
    BY <2>1, <2>3
<1> DEFINE flat == CHOOSE h : h = [n \in 0..N |-> Step(h, n)]
<1>9. ChargebeeFlatten(doc) = flat[N]
  BY DEF ChargebeeFlatten, Leaf
<1>10. flat = [n \in 0..N |-> Step(flat, n)]
  <2> HIDE DEF Step
  <2> QED
    BY <1>8
<1> HIDE DEF flat
<1>11. \A n \in 0..N : flat[n] = Step(flat, n)
  <2> HIDE DEF Step
  <2> QED
    BY <1>10
<1>12. flat[0] = Start /\ \A n \in 1..N : flat[n] = Leaf(n, flat[n - 1])
  <2>1. 0 \in 0..N /\ \A n \in 1..N : n \in 0..N /\ n # 0
    BY <1>1
  <2> QED
    BY <1>11, <2>1
<1>13. \A n \in 1..N : Filling(doc, property, good, apart, n - 1, flat[n - 1]) =>
                         Passes(doc, property, good, n, flat[n - 1], flat[n])
  BY <1>4, <1>12
<1>14. Filling(doc, property, good, apart, N, flat[N])
  <2>1. N \in 0..N
    BY <1>1
  <2> QED
    BY <1>1, <1>2, <1>3, <1>12, <1>13, <2>1, FoldFills
<1> QED
  BY <1>9, <1>14 DEF property, good, apart

(* An event that is made holds the properties that were flattened. *)
LEMMA EventIs ==
  ASSUME NEW doc, ChargebeeEvent(doc).issue = None
  PROVE  /\ ChargebeeEvent(doc).properties = ChargebeeFlatten(doc).properties
         /\ ChargebeeFlatten(doc).issue = None
<1>1. \A issue \in Issues : Refusal(issue).issue # None
  BY NoneAssumption DEF Refusal
<1>2. ASSUME NEW flat, ValidateEvent(doc, flat).issue = None
      PROVE  ValidateEvent(doc, flat) = flat
  <2>1. {"subscription_id", "deduplication_id", "usage_timestamp", "properties"} \subseteq Issues
    BY DEF Issues
  <2> QED
    BY <1>1, <1>2, <2>1 DEF ValidateEvent
<1> DEFINE flat == ChargebeeFlatten(doc)
<1>3. \/ ChargebeeEvent(doc) = Refusal("missing_subscription_id")
      \/ flat.issue # None /\ ChargebeeEvent(doc) = Refusal(flat.issue)
      \/ flat.issue = None /\ ChargebeeEvent(doc) = ValidateEvent(doc, flat)
  BY DEF ChargebeeEvent
<1>4. "missing_subscription_id" \in Issues
  BY DEF Issues
<1>5. flat.issue # None => Refusal(flat.issue).issue # None
  BY DEF Refusal
<1> HIDE DEF flat
<1> QED
  BY <1>1, <1>2, <1>3, <1>4, <1>5 DEF flat

LEMMA EventIsFaithful ==
  ASSUME NEW doc, IsRecord(doc), ChargebeeEvent(doc).issue = None
  PROVE  Faithful(doc, RewriteLabels, ChargebeeEvent(doc).properties)
<1> DEFINE N == Len(doc)
           property == ChargebeeProperties(doc)
           acc == ChargebeeFlatten(doc)
<1>1. N \in Nat /\ DOMAIN doc = 1..N
  BY DEF IsRecord
<1>2. Filling(doc, property, Passing(doc), Admitted(doc, RewriteLabels), N, acc) /\ Admitted(doc, RewriteLabels) \in BOOLEAN
  BY ChargebeeFlattenIs DEF Admitted
<1>3. acc.issue = None /\ ChargebeeEvent(doc).properties = acc.properties
  BY EventIs
<1>4. \A k \in 1..N : Holds(property[k], doc[k])
  BY <1>1 DEF ChargebeeProperties, PropertyOf, Holds
<1> HIDE DEF property, acc, N
<1>5. Keeping(doc, Admitted(doc, RewriteLabels), N, acc.properties)
  BY <1>2, <1>3, <1>4, FilledHolds
<1> USE DEF N
<1> DEFINE properties == acc.properties
<1> HIDE DEF properties
<1>6. Faithful(doc, RewriteLabels, properties)
  BY <1>5 DEF Faithful, Kept, Admitted, Keeping, Holds, properties
<1> QED
  BY <1>3, <1>6 DEF properties

(* Only a record of which an event was made is sent. *)
LEMMA SentIsFaithful == SinkInv => EventsFaithful
<1> SUFFICES ASSUME SinkInv, NEW r \in Range(batch), r.id \in events \ local
             PROVE  r.body \in FaithfulDocs
  BY DEF EventsFaithful
<1>1. events = BuildEvents(batch) /\ local = RejectedLocally(batch)
  BY DEF SinkInv, ProgressInv, Judged
<1>2. r.body \notin Unusable
  BY <1>1 DEF RejectedLocally
<1>3. r.body \in DOMAIN Docs
  <2> DEFINE R == [id : Ids, body : DOMAIN Docs]
  <2>1. batch \in Seq(R)
    BY SinkAssumption DEF SinkInv, TypeOK
  <2>2. PICK i \in DOMAIN batch : r = batch[i]
    BY DEF Range
  <2> HIDE DEF R
  <2>3. r \in R
    BY <2>1, <2>2
  <2> QED
    BY <2>3 DEF R
<1>4. IsRecord(Docs[r.body])
  BY <1>3, DocsAssumption
<1>5. Encoded[r.body] = ChargebeeEvent(Docs[r.body]) /\ Encoded[r.body].issue = None
  BY <1>2, <1>3 DEF Unusable, Encoded
<1>6. Faithful(Docs[r.body], RewriteLabels, Encoded[r.body].properties)
  <2> DEFINE doc == Docs[r.body]
  <2>1. IsRecord(doc) /\ ChargebeeEvent(doc).issue = None
    BY <1>4, <1>5
  <2> HIDE DEF doc
  <2>2. Faithful(doc, RewriteLabels, ChargebeeEvent(doc).properties)
    BY <2>1, EventIsFaithful
  <2> QED
    BY <1>5, <2>2 DEF doc
<1> QED
  BY <1>2, <1>3, <1>6 DEF FaithfulDocs

(* Whatever record the schema admits, an event of it that deliver() sends holds every field of the
   record under a name of its own (flatten.ts flattenInto, rewriteLabelKeys): two labels that
   the rewriting makes alike keep the record from being sent, a label or an extension takes
   no other field's name, whatever path its key spells, nor does an array, and so nothing is
   overwritten.  Of an object that the schema does not admit, which deliver() does not
   check for, no more is shown than that no name is there twice and every property is a field. *)
THEOREM ChargebeeEventsFaithful == Spec => []EventsFaithful
<1>1. Init => SinkInv
  BY InvInit
<1>2. SinkInv /\ [Next]_vars => SinkInv'
  BY SinkInvNext
<1>3. SinkInv => EventsFaithful
  BY SentIsFaithful
<1> QED
  BY <1>1, <1>2, <1>3, PTL DEF Spec
-----------------------------------------------------------------------------
(* Lago's events.                                                          *)

LagoProperties(doc) == [k \in DOMAIN doc |-> PropertyOf(doc[k], doc[k].path)]

(* The leaves that are no array with a value that JSON has not. *)
Sound(doc) == {k \in DOMAIN doc : doc[k].value.kind = "array" => doc[k].value.sound}


LEMMA PathIs ==
  ASSUME NEW doc, IsRecord(doc), NEW i \in DOMAIN doc
  PROVE  doc[i].path \in Seq(Keys) /\ doc[i].path # <<>> /\ Len(doc[i].path) \in Nat
<1>1. doc[i].path \in Seq(Seq(STRING)) /\ doc[i].path # <<>>
  BY DEF IsRecord
<1>2. \A S, T : S \subseteq T => Seq(S) \subseteq Seq(T)
  OBVIOUS
<1>3. Seq(STRING) \subseteq Keys
  BY <1>2 DEF Keys, Characters
<1>4. Seq(Seq(STRING)) \subseteq Seq(Keys)
  BY <1>2, <1>3
<1> QED
  BY <1>1, <1>4

LEMMA LagoNamesApart ==
  ASSUME NEW doc, IsRecord(doc), Admitted(doc, Unrenamed), NEW i \in DOMAIN doc, NEW j \in DOMAIN doc,
         LagoProperties(doc)[i].name = LagoProperties(doc)[j].name
  PROVE  i = j
<1> DEFINE p == doc[i].path
           q == doc[j].path
<1>1. /\ p \in Seq(Keys) /\ p # <<>> /\ Len(p) \in Nat /\ Admissible(doc[i], p)
      /\ q \in Seq(Keys) /\ q # <<>> /\ Len(q) \in Nat /\ Admissible(doc[j], q)
  BY PathIs DEF Admitted, Unrenamed
<1>2. PropertyOf(doc[i], p).name = PropertyOf(doc[j], q).name
  BY DEF LagoProperties
<1> HIDE DEF p, q
<1>3. /\ \A k \in 1..Len(p) : k <= Len(q) => p[k] = q[k]
      /\ \A k \in 1..Len(q) : k <= Len(p) => q[k] = p[k]
  BY <1>1, <1>2, NamesTellPaths
<1>4. CASE Len(p) <= Len(q)
  BY <1>1, <1>3, <1>4, ApartAsPaths DEF p, q
<1>5. CASE Len(q) <= Len(p)
  BY <1>1, <1>3, <1>5, ApartAsPaths DEF p, q
<1> QED
  BY <1>1, <1>4, <1>5

LEMMA LagoLeafPasses ==
  ASSUME NEW doc, IsRecord(doc), NEW n \in DOMAIN doc, NEW N, NEW acc \in Accs(doc, LagoProperties(doc), N)
  PROVE  Passes(doc, LagoProperties(doc), Sound(doc), n, acc,
                FlattenLeaf(acc, doc[n], JoinPath(doc[n].path), LagoTakes(doc[n].value)))
<1> DEFINE leaf == doc[n]
           path == leaf.path
           takes == LagoTakes(leaf.value)
           new == FlattenLeaf(acc, leaf, JoinPath(path), takes)
<1>1. path \in Seq(Keys) /\ path # <<>>
  BY PathIs
<1>2. takes \in BOOLEAN /\ (leaf.value.kind = "array" => ~takes)
  BY DEF LagoTakes
<1>3. LagoProperties(doc)[n] = PropertyOf(leaf, path)
  BY DEF LagoProperties
<1>4. Effect(acc, leaf, PropertyOf(leaf, path), new)
  <2> HIDE DEF takes, path, leaf
  <2> QED
    BY <1>1, <1>2, LeafIs
<1>5. new.issue = None => n \in Sound(doc)
  <2> SUFFICES ASSUME leaf.value.kind = "array", ~leaf.value.sound PROVE new.issue # None
    BY DEF Sound
  <2>1. new = IF acc.issue # None THEN acc ELSE [acc EXCEPT !.issue = "unencodable_field"]
    BY <1>2 DEF FlattenLeaf
  <2>2. \A issue : [acc EXCEPT !.issue = issue].issue = issue
    BY DEF Accs
  <2>3. "unencodable_field" # None
    BY NoneAssumption DEF Issues
  <2> HIDE DEF new
  <2> QED
    BY <2>1, <2>2, <2>3
<1> HIDE DEF new
<1>6. Passes(doc, LagoProperties(doc), Sound(doc), n, acc, new)
  BY <1>3, <1>4, <1>5 DEF Passes
<1> QED
  BY <1>6 DEF new

LEMMA LagoFlattenIs ==
  ASSUME NEW doc, IsRecord(doc)
  PROVE  Filling(doc, LagoProperties(doc), Sound(doc), Admitted(doc, Unrenamed), Len(doc), LagoFlatten(doc))
<1> DEFINE N == Len(doc)
           property == LagoProperties(doc)
           good == Sound(doc)
           apart == Admitted(doc, Unrenamed)
           A == Accs(doc, property, N)
           Leaf(n, acc) == FlattenLeaf(acc, doc[n], JoinPath(doc[n].path), LagoTakes(doc[n].value))
           Step(f, n) == IF n = 0 THEN Start ELSE Leaf(n, f[n - 1])
           leaf == [n \in 1..N |-> [acc \in A |-> IF Leaf(n, acc) \in A THEN Leaf(n, acc) ELSE acc]]
<1>1. N \in Nat /\ DOMAIN doc = 1..N
  BY DEF IsRecord
<1>2. apart \in BOOLEAN
  BY DEF Admitted, Unrenamed
<1>3. Naming(property, good, apart, N)
  BY <1>1, LagoNamesApart DEF Naming, LagoProperties, Sound, PropertyOf
<1>4. ASSUME NEW n \in 1..N, NEW acc, Filling(doc, property, good, apart, n - 1, acc)
      PROVE  acc \in A /\ Passes(doc, property, good, n, acc, Leaf(n, acc)) /\ Leaf(n, acc) \in A
  <2>1. n - 1 \in Nat /\ n - 1 + 1 = n /\ n - 1 \in 0..N /\ n \in 0..N
    BY <1>1
  <2>2. acc \in A
    BY <1>1, <1>4, <2>1, AmongGrows DEF Filling
  <2>3. Passes(doc, property, good, n, acc, Leaf(n, acc))
    BY <1>1, <2>2, LagoLeafPasses
  <2> HIDE DEF A, Leaf, property, good, apart
  <2>4. Filling(doc, property, good, apart, n, Leaf(n, acc))
    <3> DEFINE m == n - 1
    <3>1. m \in Nat /\ m + 1 = n
      BY <2>1
    <3>2. Filling(doc, property, good, apart, m, acc)
      BY <1>4
    <3> HIDE DEF m
    <3> QED
      BY <1>2, <1>3, <2>1, <2>3, <3>1, <3>2, LeafFills DEF Naming
  <2>5. Leaf(n, acc) \in A
    BY <1>1, <2>1, <2>4, AmongGrows DEF Filling, A
  <2> QED
    BY <2>2, <2>3, <2>5
<1> HIDE DEF Leaf, property, good, apart, A
<1>5. leaf \in [1..N -> [A -> A]]
  OBVIOUS
<1>6. \A n \in 1..N : \A acc \in A :
        Filling(doc, property, good, apart, n - 1, acc) =>
          leaf[n][acc] = Leaf(n, acc) /\ Passes(doc, property, good, n, acc, leaf[n][acc])
  BY <1>4
<1> HIDE DEF leaf
<1>7. PICK f \in [0..N -> A] :
        /\ f[0] = Start
        /\ \A n \in 1..N : f[n] = leaf[n][f[n - 1]] /\ Filling(doc, property, good, apart, n - 1, f[n - 1])
  <2>1. Leaves(doc, property, good, apart, N, leaf)
    BY <1>5, <1>6 DEF A, Leaves
  <2>2. N \in Nat
    BY <1>1
  <2> HIDE DEF N, Step
  <2>3. \E f : Folded(doc, property, good, apart, N, leaf, f)
    BY <1>2, <1>3, <2>1, <2>2, FoldIs
  <2> QED
    BY <2>3 DEF A, Folded
<1>8. f = [n \in 0..N |-> Step(f, n)]
  <2>1. f = [n \in 0..N |-> f[n]]
    BY <1>7
  <2>2. \A n \in 0..N : n = 0 \/ (n \in 1..N /\ n # 0 /\ n - 1 \in 0..N)
    BY <1>1
  <2>3. \A n \in 0..N : f[n] = Step(f, n)
    BY <1>6, <1>7, <2>2
  <2> HIDE DEF Step
  <2> QED
    BY <2>1, <2>3
<1> DEFINE flat == CHOOSE h : h = [n \in 0..N |-> Step(h, n)]
<1>9. LagoFlatten(doc) = flat[N]
  BY DEF LagoFlatten, Leaf
<1>10. flat = [n \in 0..N |-> Step(flat, n)]
  <2> HIDE DEF Step
  <2> QED
    BY <1>8
<1> HIDE DEF flat
<1>11. \A n \in 0..N : flat[n] = Step(flat, n)
  <2> HIDE DEF Step
  <2> QED
    BY <1>10
<1>12. flat[0] = Start /\ \A n \in 1..N : flat[n] = Leaf(n, flat[n - 1])
  <2>1. 0 \in 0..N /\ \A n \in 1..N : n \in 0..N /\ n # 0
    BY <1>1
  <2> QED
    BY <1>11, <2>1
<1>13. \A n \in 1..N : Filling(doc, property, good, apart, n - 1, flat[n - 1]) =>
                         Passes(doc, property, good, n, flat[n - 1], flat[n])
  BY <1>4, <1>12
<1>14. Filling(doc, property, good, apart, N, flat[N])
  <2>1. N \in 0..N
    BY <1>1
  <2> QED
    BY <1>1, <1>2, <1>3, <1>12, <1>13, <2>1, FoldFills
<1> QED
  BY <1>9, <1>14 DEF property, good, apart

(* An event that is made holds the properties that were flattened. *)
LEMMA LagoEventIs ==
  ASSUME NEW doc, LagoEvent(doc).issue = None
  PROVE  /\ LagoEvent(doc).properties = LagoFlatten(doc).properties
         /\ LagoFlatten(doc).issue = None
<1>1. \A issue \in Issues : Refusal(issue).issue # None
  BY NoneAssumption DEF Refusal
<1>2. {"missing_subscription_id", "invalid_field", "missing_metric_code", "invalid_metric_code",
       "invalid_timestamp", "unsupported_correction"} \subseteq Issues
  BY DEF Issues
<1>3. ASSUME NEW flat, CreateEvent(doc, flat).issue = None
      PROVE  CreateEvent(doc, flat) = flat
  BY <1>1, <1>2, <1>3 DEF CreateEvent
<1> DEFINE flat == LagoFlatten(doc)
<1>4. \/ LagoEvent(doc) = Refusal("unsupported_correction")
      \/ flat.issue # None /\ LagoEvent(doc) = Refusal(flat.issue)
      \/ flat.issue = None /\ LagoEvent(doc) = CreateEvent(doc, flat)
  BY DEF LagoEvent
<1>5. flat.issue # None => Refusal(flat.issue).issue # None
  BY DEF Refusal
<1> HIDE DEF flat
<1> QED
  BY <1>1, <1>2, <1>3, <1>4, <1>5 DEF flat

LEMMA LagoEventIsFaithful ==
  ASSUME NEW doc, IsRecord(doc), LagoEvent(doc).issue = None
  PROVE  Faithful(doc, Unrenamed, LagoEvent(doc).properties)
<1> DEFINE N == Len(doc)
           property == LagoProperties(doc)
           acc == LagoFlatten(doc)
<1>1. N \in Nat /\ DOMAIN doc = 1..N
  BY DEF IsRecord
<1>2. Filling(doc, property, Sound(doc), Admitted(doc, Unrenamed), N, acc) /\ Admitted(doc, Unrenamed) \in BOOLEAN
  BY LagoFlattenIs DEF Admitted, Unrenamed
<1>3. acc.issue = None /\ LagoEvent(doc).properties = acc.properties
  BY LagoEventIs
<1>4. \A k \in 1..N : Holds(property[k], doc[k])
  BY <1>1 DEF LagoProperties, PropertyOf, Holds
<1> HIDE DEF property, acc, N
<1>5. Keeping(doc, Admitted(doc, Unrenamed), N, acc.properties)
  BY <1>2, <1>3, <1>4, FilledHolds
<1> USE DEF N
<1> DEFINE properties == acc.properties
<1> HIDE DEF properties
<1>6. Faithful(doc, Unrenamed, properties)
  BY <1>5 DEF Faithful, Kept, Admitted, Unrenamed, Keeping, Holds, properties
<1> QED
  BY <1>3, <1>6 DEF properties

(* Every place among those with a value is that of a leaf. *)
LEMMA RanksAll ==
  ASSUME NEW doc, NEW N \in Nat
  PROVE  \A i \in 1..Cardinality(Kept(doc, N)) : \E k \in Kept(doc, N) : Cardinality(Kept(doc, k)) = i
<1> DEFINE All(n) == \A i \in 1..Cardinality(Kept(doc, n)) :
                       \E k \in Kept(doc, n) : Cardinality(Kept(doc, k)) = i
           Good == {n \in Nat : All(n)}
<1>1. 0 \in Good
  BY KeptIs
<1>2. ASSUME NEW n \in Nat, n \in Good
      PROVE  n + 1 \in Good
  <2>1. CASE doc[n + 1].value.kind = "undefined"
    <3>1. Kept(doc, n + 1) = Kept(doc, n)
      BY <2>1, KeptIs
    <3> QED
      BY <1>2, <3>1
  <2>2. CASE doc[n + 1].value.kind # "undefined"
    <3>1. /\ Kept(doc, n + 1) = Kept(doc, n) \cup {n + 1}
          /\ Cardinality(Kept(doc, n + 1)) = Cardinality(Kept(doc, n)) + 1
          /\ Cardinality(Kept(doc, n)) \in Nat
      BY <2>2, KeptIs
    <3>2. \A i \in 1..Cardinality(Kept(doc, n + 1)) :
            i \in 1..Cardinality(Kept(doc, n)) \/ i = Cardinality(Kept(doc, n + 1))
      BY <3>1
    <3>3. All(n + 1)
      BY <1>2, <3>1, <3>2
    <3> QED
      BY <3>3
  <2> QED
    BY <2>1, <2>2
<1>3. Nat \subseteq Good
  <2> HIDE DEF Good
  <2> QED
    BY <1>1, <1>2, SetInduction
<1> QED
  BY <1>3

(* What is placed alike is alike where the leaves are. *)
LEMMA PlacedAlike ==
  ASSUME NEW a, NEW b, NEW m \in Nat, NEW n \in Nat, NEW u, NEW v, NEW x, NEW y, NEW P, NEW S,
         NEW X \in Seq(S), NEW Y \in Seq(S),
         Placed(a, u, m, P), Placed(b, v, n, P), Placed(a, x, m, X), Placed(b, y, n, Y),
         \A k \in Kept(a, m) : \A l \in Kept(b, n) : u[k] = v[l] => x[k] = y[l]
  PROVE  X = Y
<1>1. Len(X) = Cardinality(Kept(a, m)) /\ Len(Y) = Cardinality(Kept(b, n)) /\ Len(X) = Len(Y)
  BY DEF Placed
<1>2. ASSUME NEW i \in 1..Len(X)
      PROVE  X[i] = Y[i]
  <2>1. PICK k \in Kept(a, m) : Cardinality(Kept(a, k)) = i
    BY <1>1, RanksAll
  <2>2. PICK l \in Kept(b, n) : Cardinality(Kept(b, l)) = i
    BY <1>1, RanksAll
  <2>3. P[i] = u[k] /\ P[i] = v[l] /\ X[i] = x[k] /\ Y[i] = y[l]
    BY <2>1, <2>2 DEF Placed
  <2> QED
    BY <2>3
<1>3. Len(X) \in Nat /\ DOMAIN X = 1..Len(X) /\ DOMAIN Y = 1..Len(Y)
  OBVIOUS
<1> QED
  BY <1>1, <1>2, <1>3

(* The leaves with a value are in their places among those that are defined. *)
LEMMA DefinedIs ==
  ASSUME NEW doc, IsRecord(doc)
  PROVE  Placed(doc, doc, Len(doc), Defined(doc)) /\ Defined(doc) \in Seq(Range(doc))
<1> DEFINE N == Len(doc)
           S == Seq(Range(doc))
           Step(f, n) == IF n = 0 THEN <<>>
                         ELSE IF doc[n].value.kind = "undefined" THEN f[n - 1]
                         ELSE Append(f[n - 1], doc[n])
           step == [n \in 1..N |-> [s \in S |->
                      IF doc[n].value.kind = "undefined" THEN s ELSE Append(s, doc[n])]]
           empty == <<>>
<1>1. N \in Nat /\ DOMAIN doc = 1..N /\ \A n \in 1..N : doc[n] \in Range(doc)
  BY DEF IsRecord, Range
<1>2. empty \in S /\ Len(empty) = 0
  OBVIOUS
<1>3. step \in Steps(S, N)
  <2>1. \A n \in 1..N : \A s \in S : Append(s, doc[n]) \in S
    BY <1>1
  <2> HIDE DEF S
  <2> QED
    BY <2>1 DEF Steps
<1> HIDE DEF S, empty
<1>4. PICK f : Recurs(S, empty, N, step, f)
  <2> HIDE DEF step, N
  <2> QED
    BY <1>1, <1>2, <1>3, RecursionIs
<1>5. f \in [0..N -> S] /\ f[0] = empty /\ \A n \in 1..N : f[n] = step[n][f[n - 1]]
  BY <1>4 DEF Recurs
<1>6. f = [n \in 0..N |-> Step(f, n)]
  <2>1. f = [n \in 0..N |-> f[n]]
    BY <1>5
  <2>2. \A n \in 0..N : n = 0 \/ (n \in 1..N /\ n # 0 /\ n - 1 \in 0..N)
    BY <1>1
  <2>3. \A n \in 0..N : f[n] = Step(f, n)
    BY <1>5, <2>2 DEF empty
  <2> HIDE DEF Step
  <2> QED
    BY <2>1, <2>3
<1> DEFINE having == CHOOSE h : h = [n \in 0..N |-> Step(h, n)]
<1>7. Defined(doc) = having[N]
  BY DEF Defined
<1>8. having = [n \in 0..N |-> Step(having, n)]
  <2> HIDE DEF Step
  <2> QED
    BY <1>6
<1> HIDE DEF having
<1>9. \A n \in 0..N : having[n] = Step(having, n)
  <2> HIDE DEF Step
  <2> QED
    BY <1>8
<1> DEFINE Holding(n) == having[n] \in S /\ Placed(doc, doc, n, having[n])
           Good == {n \in Nat : n \in 0..N => Holding(n)}
<1>10. 0 \in Good
  <2>1. 0 \in 0..N
    BY <1>1
  <2>2. having[0] = empty
    BY <1>9, <2>1 DEF empty
  <2>3. Placed(doc, doc, 0, empty)
    BY <1>2, KeptIs DEF Placed
  <2> QED
    BY <1>2, <2>2, <2>3
<1>11. ASSUME NEW n \in Nat, n \in Good
       PROVE  n + 1 \in Good
  <2> SUFFICES ASSUME n + 1 \in 0..N PROVE Holding(n + 1)
    OBVIOUS
  <2>1. n + 1 \in 1..N /\ n \in 0..N /\ n + 1 - 1 = n /\ n + 1 # 0
    BY <1>1
  <2>2. Holding(n)
    BY <1>11, <2>1
  <2>3. having[n + 1] = IF doc[n + 1].value.kind = "undefined" THEN having[n]
                        ELSE Append(having[n], doc[n + 1])
    BY <1>9, <2>1
  <2>4. CASE doc[n + 1].value.kind = "undefined"
    <3>1. Kept(doc, n + 1) = Kept(doc, n)
      BY <2>4, KeptIs
    <3> QED
      BY <2>2, <2>3, <2>4, <3>1 DEF Placed
  <2>5. CASE doc[n + 1].value.kind # "undefined"
    <3>1. having[n] \in Seq(Range(doc)) /\ doc[n + 1] \in Range(doc)
      BY <1>1, <2>1, <2>2 DEF S
    <3>2. Placed(doc, doc, n + 1, Append(having[n], doc[n + 1]))
      BY <2>2, <2>5, <3>1, PlacedGrows
    <3>3. Append(having[n], doc[n + 1]) \in S
      BY <3>1 DEF S
    <3> QED
      BY <2>3, <2>5, <3>2, <3>3
  <2> QED
    BY <2>4, <2>5
<1>12. Nat \subseteq Good
  <2> HIDE DEF Good
  <2> QED
    BY <1>10, <1>11, SetInduction
<1>13. N \in 0..N
  BY <1>1
<1> QED
  BY <1>1, <1>7, <1>12, <1>13 DEF S

(* A record that the schema admits, of values that can be told apart: an array by its JSON, and
   no other value from that. *)
SoundRecord(doc) ==
  /\ IsRecord(doc) /\ Admitted(doc, Unrenamed)
  /\ \A k \in DOMAIN doc :
       LET value == doc[k].value
       IN /\ doc[k] = [path |-> doc[k].path, value |-> value]
          /\ value.kind = "array" =>
               value = [kind |-> "array", is |-> value.is, sound |-> value.sound] /\ value.sound \in BOOLEAN
          /\ value.kind # "array" => "json" \notin DOMAIN value

(* Leaves have one property only if they are the same. *)
LEMMA PropertyTells ==
  ASSUME NEW a, NEW b, SoundRecord(a), SoundRecord(b), NEW k \in Sound(a), NEW l \in Sound(b)
  PROVE  LagoProperties(a)[k] = LagoProperties(b)[l] <=> a[k] = b[l]
<1> DEFINE p == a[k].path
           q == b[l].path
           v == a[k].value
           w == b[l].value
<1>0. k \in DOMAIN a /\ l \in DOMAIN b
  BY DEF Sound
<1>1. LagoProperties(a)[k] = PropertyOf(a[k], p) /\ LagoProperties(b)[l] = PropertyOf(b[l], q)
  BY <1>0 DEF LagoProperties
<1>2. a[k] = b[l] => LagoProperties(a)[k] = LagoProperties(b)[l]
  BY <1>1
<1>3. ASSUME PropertyOf(a[k], p) = PropertyOf(b[l], q)
      PROVE  a[k] = b[l]
  <2>1. /\ p \in Seq(Keys) /\ p # <<>> /\ Admissible(a[k], p)
        /\ q \in Seq(Keys) /\ q # <<>> /\ Admissible(b[l], q)
    BY <1>0, PathIs DEF SoundRecord, Admitted, Unrenamed
  <2>2. Named(a[k], p) = Named(b[l], q)
    <3> HIDE DEF p, q
    <3> QED
      BY <1>3, <2>1, NamesTellPaths
  <2>3. (IF v.kind = "array" THEN CanonicalJson(v) ELSE v) = (IF w.kind = "array" THEN CanonicalJson(w) ELSE w)
    BY <1>3 DEF PropertyOf
  <2>4. /\ v.kind = "array" => v = [kind |-> "array", is |-> v.is, sound |-> v.sound] /\ v.sound = TRUE
        /\ w.kind = "array" => w = [kind |-> "array", is |-> w.is, sound |-> w.sound] /\ w.sound = TRUE
        /\ v.kind # "array" => "json" \notin DOMAIN v
        /\ w.kind # "array" => "json" \notin DOMAIN w
    BY <1>0 DEF SoundRecord, Sound
  <2>5. \A z : "json" \in DOMAIN CanonicalJson(z) /\ CanonicalJson(z).json = z.is
    BY DEF CanonicalJson
  <2>6. (v.kind = "array") <=> (w.kind = "array")
    BY <2>3, <2>4, <2>5
  <2>7. v = w
    <3>1. CASE v.kind = "array"
      <4>1. v.is = w.is /\ w.kind = "array"
        BY <2>3, <2>5, <2>6, <3>1
      <4> QED
        BY <2>4, <3>1, <4>1
    <3>2. CASE v.kind # "array"
      BY <2>3, <2>6, <3>2
    <3> QED
      BY <3>1, <3>2
  <2>8. p = q
    <3>1. Append(p, Json) = Append(q, Json) => p = q
      <4> HIDE DEF p, q
      <4> QED
        BY <2>1, JsonIsPlain
    <3> QED
      BY <2>2, <2>6, <3>1 DEF Named
  <2>9. a[k] = [path |-> p, value |-> v] /\ b[l] = [path |-> q, value |-> w]
    BY <1>0 DEF SoundRecord
  <2> HIDE DEF p, q, v, w
  <2> QED
    BY <2>7, <2>8, <2>9
<1> QED
  BY <1>1, <1>2, <1>3

LEMMA LagoPlaced ==
  ASSUME NEW doc, SoundRecord(doc), LagoEvent(doc).issue = None
  PROVE  /\ Len(doc) \in Nat
         /\ LagoEvent(doc).properties \in Seq(Among(doc, LagoProperties(doc), Len(doc)))
         /\ Placed(doc, LagoProperties(doc), Len(doc), LagoEvent(doc).properties)
         /\ \A k \in Kept(doc, Len(doc)) : k \in Sound(doc)
<1>1. IsRecord(doc) /\ Admitted(doc, Unrenamed) /\ Len(doc) \in Nat
  BY DEF SoundRecord, IsRecord
<1>2. Filling(doc, LagoProperties(doc), Sound(doc), Admitted(doc, Unrenamed), Len(doc), LagoFlatten(doc))
  BY <1>1, LagoFlattenIs
<1>3. LagoFlatten(doc).issue = None /\ LagoEvent(doc).properties = LagoFlatten(doc).properties
  BY LagoEventIs
<1> QED
  BY <1>1, <1>2, <1>3 DEF Filling, Accs, Kept

(* Events tell records apart. *)
LEMMA EventsTell ==
  ASSUME NEW a, NEW b, SoundRecord(a), SoundRecord(b),
         LagoEvent(a).issue = None, LagoEvent(b).issue = None
  PROVE  LagoEvent(a).properties = LagoEvent(b).properties <=> Defined(a) = Defined(b)
<1> DEFINE P == LagoEvent(a).properties
           Q == LagoEvent(b).properties
           m == Len(a)
           n == Len(b)
           u == LagoProperties(a)
           v == LagoProperties(b)
           X == Defined(a)
           Y == Defined(b)
           S == Range(a) \cup Range(b)
           T == Among(a, u, m) \cup Among(b, v, n)
<1>1. /\ m \in Nat /\ P \in Seq(Among(a, u, m)) /\ Placed(a, u, m, P) /\ (\A k \in Kept(a, m) : k \in Sound(a))
      /\ n \in Nat /\ Q \in Seq(Among(b, v, n)) /\ Placed(b, v, n, Q) /\ (\A k \in Kept(b, n) : k \in Sound(b))
  BY LagoPlaced
<1>2. Placed(a, a, m, X) /\ X \in Seq(Range(a)) /\ Placed(b, b, n, Y) /\ Y \in Seq(Range(b))
  BY DefinedIs DEF SoundRecord
<1>3. \A k \in Kept(a, m) : \A l \in Kept(b, n) : u[k] = v[l] <=> a[k] = b[l]
  BY <1>1, PropertyTells
<1> HIDE DEF P, Q, m, n, u, v, X, Y
<1>4. \A U, V, W, s : U \subseteq V /\ s \in Seq(U) => s \in Seq(V)
  OBVIOUS
<1>5. X \in Seq(S) /\ Y \in Seq(S) /\ P \in Seq(T) /\ Q \in Seq(T)
  <2>1. Range(a) \subseteq S /\ Range(b) \subseteq S /\ Among(a, u, m) \subseteq T /\ Among(b, v, n) \subseteq T
    OBVIOUS
  <2> HIDE DEF S, T
  <2> QED
    BY <1>1, <1>2, <1>4, <2>1
<1> HIDE DEF S, T
<1>6. P = Q => X = Y
  BY <1>1, <1>2, <1>3, <1>5, PlacedAlike
<1>7. X = Y => P = Q
  BY <1>1, <1>2, <1>3, <1>5, PlacedAlike
<1> QED
  BY <1>6, <1>7 DEF P, Q, X, Y

(* For all records that the schema admits: an event that Lago is sent holds every field of its record, and
   two records have the same event just if they have the same fields in the same order
   (preflight.ts compares the events of one id by their canonical JSON).  It is what preflight is
   supposed to rest on, LagoSink's EncodingExact. *)
THEOREM LagoEncodingExact ==
  \A a, b : SoundRecord(a) /\ SoundRecord(b) /\ LagoEvent(a).issue = None /\ LagoEvent(b).issue = None =>
    /\ Faithful(a, Unrenamed, LagoEvent(a).properties)
    /\ LagoEvent(a).properties = LagoEvent(b).properties <=> Defined(a) = Defined(b)
<1> TAKE a, b
<1> HAVE SoundRecord(a) /\ SoundRecord(b) /\ LagoEvent(a).issue = None /\ LagoEvent(b).issue = None
<1>1. LagoEvent(a).properties = LagoEvent(b).properties <=> Defined(a) = Defined(b)
  BY EventsTell
<1>2. Faithful(a, Unrenamed, LagoEvent(a).properties)
  BY LagoEventIsFaithful DEF SoundRecord
<1> QED
  BY <1>1, <1>2
=============================================================================
