--------------------------- MODULE PipelineProofs ---------------------------
(***************************************************************************)
(* What TLAPS proves of the TypeScript core.  Of Pipeline, for every       *)
(* number of submissions and flushes and all valid options: its types, its *)
(* safety properties, that it implements DeliveryContract, and what it     *)
(* promises in numbers; and of FileSink that what it answers is true of    *)
(* the file.                                                               *)
(***************************************************************************)
EXTENDS Pipeline, FileSink, FiniteSetTheorems, SequenceTheorems, TLAPS

(* The synchronous start of #run leaves well-typed state behind. *)
LEMMA StartRunType ==
  ASSUME NEW q \in Seq(Records), NEW st \in [Records -> RecordStates], StartRun(q, st)
  PROVE  /\ queue' \in Seq(Records)
         /\ inFlight' \in Seq(Records)
         /\ state' \in [Records -> RecordStates]
         /\ run' = "awaiting"
         /\ linger' = FALSE
         /\ Len(queue') + Len(inFlight') = Len(q)
<1>1. BatchSize(q) \in 0..Len(q)
  BY OptionsAssumption DEF ValidOptions, BatchSize
<1>2. /\ queue' \in Seq(Records)
      /\ inFlight' \in Seq(Records)
      /\ Len(queue') + Len(inFlight') = Len(q)
  BY <1>1 DEF StartRun
<1>3. state' \in [Records -> RecordStates]
  BY DEF StartRun, RecordStates, Outstanding
<1> QED
  BY <1>2, <1>3 DEF StartRun

(* #schedule does too. *)
LEMMA ScheduleType ==
  ASSUME TypeOK,
         NEW q \in Seq(Records), NEW st \in [Records -> RecordStates],
         NEW d \in Nat, NEW b \in BOOLEAN, Schedule(q, st, d, b)
  PROVE  /\ queue' \in Seq(Records)
         /\ inFlight' \in Seq(Records)
         /\ state' \in [Records -> RecordStates]
         /\ run' \in RunStates
         /\ linger' \in BOOLEAN
<1>1. CASE MayRun(q) /\ BatchDue(q, d, b)
  BY <1>1, StartRunType DEF Schedule, RunStates
<1>2. CASE ~(MayRun(q) /\ BatchDue(q, d, b))
  BY <1>2 DEF Schedule, ArmLinger, MayRun, TypeOK
<1> QED
  BY <1>1, <1>2

(* onFailure is called for a submission. *)
LEMMA NotifyFailureType ==
  ASSUME TypeOK, NEW r \in Records, NotifyFailure(r)
  PROVE  notifying' \in SUBSET Records /\ notified' \in SUBSET Records
BY DEF NotifyFailure, TypeOK, invokeVars
(* The names the control variables take. *)
LEMMA NamesType ==
  /\ {"idle", "awaiting", "applying", "settling", "resuming"} \subseteq RunStates
  /\ {"no", "draining", "drained", "abandoning", "callbacks", "closing", "done"}
       \subseteq StopStates
  /\ {"none", "waiting", "resolved", "expired", "joining", "true", "false"}
       \subseteq FlushStates
BY DEF RunStates, StopStates, FlushStates
-----------------------------------------------------------------------------
(* Type correctness.  That #drainers stays a natural number needs to know  *)
(* what it counts, so the two are proved together.                         *)

TypeInv == TypeOK /\ DrainersExact

(* The number of drains changes with one flush at a time. *)
LEMMA DrainingCount ==
  ASSUME TypeOK, NEW c \in Flushes,
         NEW s \in FlushStates, flush' = [flush EXCEPT ![c] = s]
  PROVE  /\ IsFiniteSet(Draining)
         /\ Cardinality(Draining) \in Nat
         /\ c \notin Draining /\ s \in {"waiting", "resolved", "expired"} =>
              Cardinality(Draining') = Cardinality(Draining) + 1
         /\ c \in Draining /\ s \notin {"waiting", "resolved", "expired"} =>
              Cardinality(Draining') = Cardinality(Draining) - 1 /\ Cardinality(Draining) > 0
         /\ (c \in Draining <=> s \in {"waiting", "resolved", "expired"}) =>
              Cardinality(Draining') = Cardinality(Draining)
<1>1. IsFiniteSet(Draining) /\ Cardinality(Draining) \in Nat
  BY FinitenessAssumption, FS_Subset, FS_CardinalityType DEF Draining
<1>2. CASE c \notin Draining /\ s \in {"waiting", "resolved", "expired"}
  <2>1. Draining' = Draining \cup {c}
    BY <1>2 DEF Draining, TypeOK
  <2> QED
    BY <1>1, <1>2, <2>1, FS_AddElement
<1>3. CASE c \in Draining /\ s \notin {"waiting", "resolved", "expired"}
  <2>1. Draining' = Draining \ {c}
    BY <1>3 DEF Draining, TypeOK
  <2>2. Cardinality(Draining) # 0
    BY <1>1, <1>3, FS_EmptySet
  <2> QED
    BY <1>1, <1>3, <2>1, <2>2, FS_RemoveElement
<1>4. CASE c \in Draining <=> s \in {"waiting", "resolved", "expired"}
  <2>1. Draining' = Draining
    BY <1>4 DEF Draining, TypeOK
  <2> QED
    BY <1>1, <1>4, <2>1
<1> QED
  BY <1>1, <1>2, <1>3, <1>4

(* DrainersExact survives a step that changes neither side of it. *)
LEMMA DrainersKept ==
  ASSUME DrainersExact, UNCHANGED <<drainers, flush>>,
         stop' \in {"draining", "drained"} <=> stop \in {"draining", "drained"}
  PROVE  DrainersExact'
BY DEF DrainersExact, Draining

(* The three ways a step treats the variables that the callbacks own. *)
LEMMA CallbackTypes ==
  ASSUME TypeOK, UNCHANGED callbackVars
  PROVE  /\ notifying' \in SUBSET Records
         /\ delivered' \in SUBSET Records
         /\ callbacks' \in SUBSET (SUBSET Records)
         /\ awaited' \in SUBSET (SUBSET Records)
         /\ notified' \in SUBSET Records
         /\ failedAtOnce' \in SUBSET Records
BY DEF TypeOK, callbackVars, invokeVars, promiseVars

LEMMA TypeUserCall == TypeInv /\ UserCall => TypeInv'
<1> SUFFICES ASSUME TypeOK, DrainersExact, UserCall PROVE TypeOK' /\ DrainersExact'
  BY DEF TypeInv
<1> USE NamesType DEF scheduleVars, flushVars, invokeVars, promiseVars, callbackVars
<1>1. ASSUME NEW r \in Records, RecordValid(r) PROVE TypeOK' /\ DrainersExact'
  <2>1. /\ queue' \in Seq(Records) /\ inFlight' \in Seq(Records)
        /\ state' \in [Records -> RecordStates]
        /\ run' \in RunStates /\ linger' \in BOOLEAN
    <3>1. [state EXCEPT ![r] = "dropped"] \in [Records -> RecordStates]
      BY DEF TypeOK, RecordStates, Terminal
    <3>2. [state EXCEPT ![r] = "queued"] \in [Records -> RecordStates]
      BY DEF TypeOK, RecordStates, Outstanding
    <3>3. Append(queue, r) \in Seq(Records)
      BY DEF TypeOK
    <3>4. CASE Depth >= MaxQueueSize
      BY <1>1, <3>1, <3>4 DEF RecordValid, Submit, TypeOK
    <3>5. CASE ~(Depth >= MaxQueueSize)
      <4>1. Schedule(Append(queue, r), [state EXCEPT ![r] = "queued"], drainers, stop # "no")
        BY <1>1, <3>5 DEF RecordValid, Submit
      <4>2. drainers \in Nat
        BY DEF TypeOK
      <4> QED
        BY <3>2, <3>3, <4>1, <4>2, ScheduleType
    <3> QED
      BY <3>4, <3>5
  <2>2. notifying' \in SUBSET Records /\ notified' \in SUBSET Records
    BY <1>1, NotifyFailureType DEF RecordValid, Submit, TypeOK
  <2>3. counts' \in [CounterNames -> Nat]
    <3>1. counts \in [CounterNames -> Nat]
      BY DEF TypeOK
    <3>2. \/ counts' = [counts EXCEPT !["submitted"] = @ + 1, !["dropped"] = @ + 1]
          \/ counts' = [counts EXCEPT !["submitted"] = @ + 1]
      BY <1>1 DEF RecordValid, Submit
    <3> QED
      BY <3>1, <3>2 DEF CounterNames
  <2>4. DrainersExact'
    BY <1>1, DrainersKept DEF RecordValid
  <2> QED
    BY <1>1, <2>1, <2>2, <2>3, <2>4 DEF RecordValid, NoteFailedAtOnce, TypeOK
<1>2. ASSUME NEW r \in Records, RecordInvalid(r) PROVE TypeOK' /\ DrainersExact'
  <2>1. notifying' \in SUBSET Records /\ notified' \in SUBSET Records
    BY <1>2, NotifyFailureType DEF RecordInvalid
  <2>2. DrainersExact'
    BY <1>2, DrainersKept DEF RecordInvalid
  <2> QED
    BY <1>2, <2>1, <2>2 DEF RecordInvalid, TypeOK, RecordStates
<1>3. ASSUME NEW r \in Records, RecordOpaque(r) PROVE TypeOK' /\ DrainersExact'
  <2>1. DrainersExact'
    BY <1>3, DrainersKept DEF RecordOpaque
  <2> QED
    BY <1>3, <2>1 DEF RecordOpaque, TypeOK, RecordStates
<1>4. ASSUME NEW r \in Records, RecordRefused(r) PROVE TypeOK' /\ DrainersExact'
  <2>1. DrainersExact'
    BY <1>4, DrainersKept DEF RecordRefused
  <2> QED
    BY <1>4, <2>1 DEF RecordRefused, TypeOK, RecordStates
<1>5. ASSUME NEW c \in Flushes, FlushDrains(c) PROVE TypeOK' /\ DrainersExact'
  <2>1. /\ queue' \in Seq(Records) /\ inFlight' \in Seq(Records)
        /\ state' \in [Records -> RecordStates]
        /\ run' \in RunStates /\ linger' \in BOOLEAN
    <3>1. queue \in Seq(Records) /\ state \in [Records -> RecordStates] /\ drainers + 1 \in Nat
      BY DEF TypeOK
    <3>2. Schedule(queue, state, drainers + 1, FALSE)
      BY <1>5 DEF FlushDrains
    <3> QED
      BY <3>1, <3>2, ScheduleType
  <2>2. drainers' = drainers + 1 /\ Cardinality(Draining') = Cardinality(Draining) + 1
    BY <1>5, DrainingCount DEF FlushDrains, Draining
  <2>3. DrainersExact'
    <3>1. Cardinality(Draining) \in Nat
      BY FinitenessAssumption, FS_Subset, FS_CardinalityType DEF Draining
    <3> QED
      BY <1>5, <2>2, <3>1 DEF DrainersExact, FlushDrains
  <2> QED
    BY <1>5, <2>1, <2>3 DEF FlushDrains, NoteWanted, TypeOK
<1>6. ASSUME NEW c \in Flushes, FlushJoins(c) PROVE TypeOK' /\ DrainersExact'
  <2>1. Cardinality(Draining') = Cardinality(Draining)
    BY <1>6, DrainingCount DEF FlushJoins, Draining
  <2> QED
    BY <1>6, <2>1 DEF FlushJoins, NoteWanted, TypeOK, DrainersExact
<1>7. CASE Shutdown
  <2>1. /\ queue' \in Seq(Records) /\ inFlight' \in Seq(Records)
        /\ state' \in [Records -> RecordStates]
        /\ run' \in RunStates /\ linger' \in BOOLEAN
    <3>1. queue \in Seq(Records) /\ state \in [Records -> RecordStates] /\ drainers + 1 \in Nat
      BY DEF TypeOK
    <3>2. Schedule(queue, state, drainers + 1, TRUE)
      BY <1>7 DEF Shutdown
    <3> QED
      BY <3>1, <3>2, ScheduleType
  <2>2. Draining' = Draining
    BY <1>7 DEF Shutdown, Draining
  <2>3. Cardinality(Draining) \in Nat
    BY FinitenessAssumption, FS_Subset, FS_CardinalityType DEF Draining
  <2> QED
    BY <1>7, <2>1, <2>2, <2>3 DEF Shutdown, TypeOK, DrainersExact
<1> QED
  BY <1>1, <1>2, <1>3, <1>4, <1>5, <1>6, <1>7 DEF UserCall

(* The sink's answer leaves one verdict per record of the batch. *)
LEMMA JudgeType ==
  ASSUME TypeOK, NEW v \in [Records -> Terminal], Judge(v)
  PROVE  work' \in Seq(Verdicts)
BY DEF Judge, TypeOK, Verdicts

LEMMA TypeSinkAnswers == TypeInv /\ SinkAnswers => TypeInv'
<1> SUFFICES ASSUME TypeOK, DrainersExact, SinkAnswers PROVE TypeOK' /\ DrainersExact'
  BY DEF TypeInv
<1> USE NamesType DEF scheduleVars, flushVars, invokeVars, promiseVars, callbackVars
<1>1. DrainersExact'
  BY DrainersKept DEF SinkAnswers, SinkAccepts, SinkFails, SinkInconclusive
<1>2. work' \in Seq(Verdicts)
  <2>1. work \in Seq(Verdicts)
    BY DEF TypeOK
  <2>2. ASSUME NEW R \in SUBSET Range(inFlight), NEW U \in SUBSET Range(inFlight),
               SinkAccepts(R, U)
        PROVE  work' \in Seq(Verdicts)
    <3>1. [r \in Records |-> IF r \in R THEN "dropped"
                             ELSE IF r \in U THEN "unknown" ELSE "sent"] \in [Records -> Terminal]
      BY DEF Terminal
    <3> QED
      BY <2>1, <2>2, <3>1, JudgeType DEF SinkAccepts
  <2>3. [r \in Records |-> "dropped"] \in [Records -> Terminal]
        /\ [r \in Records |-> "unknown"] \in [Records -> Terminal]
    BY DEF Terminal
  <2>4. CASE SinkFails
    BY <2>1, <2>3, <2>4, JudgeType DEF SinkFails
  <2>5. CASE SinkInconclusive
    BY <2>3, <2>5, JudgeType DEF SinkInconclusive
  <2> QED
    BY <2>2, <2>4, <2>5 DEF SinkAnswers
<1>3. counts' \in [CounterNames -> Nat]
  <2>1. counts \in [CounterNames -> Nat]
    BY DEF TypeOK
  <2>2. counts' = counts \/ CountBatch
    BY DEF SinkAnswers, SinkAccepts, SinkFails, SinkInconclusive
  <2> QED
    BY <2>1, <2>2 DEF CountBatch, CounterNames
<1>4. run' \in {"applying", "settling"}
  BY DEF SinkAnswers, SinkAccepts, SinkFails, SinkInconclusive
<1>5. UNCHANGED <<state, queue, inFlight, linger, flushVars, stop, callbackVars>>
  BY DEF SinkAnswers, SinkAccepts, SinkFails, SinkInconclusive
<1> QED
  BY <1>1, <1>2, <1>3, <1>4, <1>5 DEF TypeOK

LEMMA TypeLoopStep == TypeInv /\ LoopStep => TypeInv'
<1> SUFFICES ASSUME TypeOK, DrainersExact, LoopStep PROVE TypeOK' /\ DrainersExact'
  BY DEF TypeInv
<1> USE NamesType DEF scheduleVars, flushVars, invokeVars, promiseVars, callbackVars
<1>1. CASE Settle
  <2> DEFINE v == Head(work)
  <2>1. v \in Verdicts /\ work' \in Seq(Verdicts)
    BY <1>1 DEF Settle, TypeOK
  <2>2. v.rec \in Records /\ v.to \in Terminal
    BY <2>1 DEF Verdicts
  <2>3. state' \in [Records -> RecordStates]
    BY <1>1, <2>2 DEF Settle, TypeOK, RecordStates, Terminal
  <2>4. counts' \in [CounterNames -> Nat]
    <3>1. counts \in [CounterNames -> Nat] /\ v.to \in CounterNames
      BY <2>2 DEF TypeOK, CounterNames, Terminal
    <3>2. counts' = counts \/ counts' = [counts EXCEPT ![v.to] = @ + 1]
      BY <1>1 DEF Settle
    <3> QED
      BY <3>1, <3>2
  <2>5. notifying' \in SUBSET Records /\ notified' \in SUBSET Records
    <3>1. NotifyFailure(v.rec) \/ UNCHANGED invokeVars
      BY <1>1 DEF Settle
    <3>2. notifying \in SUBSET Records /\ notified \in SUBSET Records
      BY DEF TypeOK
    <3> QED
      BY <2>2, <3>1, <3>2, NotifyFailureType
  <2>6. DrainersExact'
    BY <1>1, DrainersKept DEF Settle
  <2> QED
    BY <1>1, <2>1, <2>3, <2>4, <2>5, <2>6 DEF Settle, TypeOK
<1>2. CASE NotifyDelivered
  <2>1. DrainersExact'
    BY <1>2, DrainersKept DEF NotifyDelivered
  <2>2. Range(inFlight) \subseteq Records
    BY DEF TypeOK, Range
  <2> QED
    BY <1>2, <2>1, <2>2 DEF NotifyDelivered, TypeOK
<1>3. CASE EndDeliver
  <2>1. DrainersExact'
    BY <1>3, DrainersKept DEF EndDeliver
  <2> QED
    BY <1>3, <2>1 DEF EndDeliver, TypeOK
<1>4. CASE RunResumes
  <2>1. /\ queue' \in Seq(Records) /\ inFlight' \in Seq(Records)
        /\ state' \in [Records -> RecordStates]
        /\ run' \in RunStates /\ linger' \in BOOLEAN
    <3>1. queue \in Seq(Records) /\ state \in [Records -> RecordStates]
      BY DEF TypeOK
    <3>2. CASE StartRun(queue, state)
      BY <3>1, <3>2, StartRunType
    <3>3. CASE run' = "idle" /\ UNCHANGED <<state, queue, inFlight>> /\ linger' \in {TRUE, linger}
      BY <3>3 DEF TypeOK
    <3> QED
      BY <1>4, <3>2, <3>3 DEF RunResumes
  <2>2. flush' \in [Flushes -> FlushStates] /\ stop' \in StopStates
    BY <1>4 DEF RunResumes, ResolveIdle, TypeOK
  <2>3. Draining' = Draining
    BY <1>4 DEF RunResumes, ResolveIdle, TypeOK, Draining
  <2>4. stop' \in {"draining", "drained"} <=> stop \in {"draining", "drained"}
    BY <1>4 DEF RunResumes, ResolveIdle
  <2>5. drainers' = drainers
    BY <1>4 DEF RunResumes
  <2> QED
    BY <1>4, <2>1, <2>2, <2>3, <2>4, <2>5 DEF RunResumes, TypeOK, DrainersExact
<1>5. ASSUME NEW c \in Flushes, FlushReturns(c) PROVE TypeOK' /\ DrainersExact'
  <2>1. /\ Cardinality(Draining') = Cardinality(Draining) - 1
        /\ Cardinality(Draining) > 0 /\ Cardinality(Draining) \in Nat
    BY <1>5, DrainingCount DEF FlushReturns, Draining
  <2>2. drainers' \in Nat /\ DrainersExact'
    BY <1>5, <2>1 DEF FlushReturns, DrainEnds, DrainersExact
  <2> QED
    BY <1>5, <2>2 DEF FlushReturns, TypeOK
<1>6. ASSUME NEW c \in Flushes, FlushJoined(c) PROVE TypeOK' /\ DrainersExact'
  <2>1. Cardinality(Draining') = Cardinality(Draining)
    BY <1>6, DrainingCount DEF FlushJoined, Draining
  <2> QED
    BY <1>6, <2>1 DEF FlushJoined, TypeOK, DrainersExact
<1>7. CASE StopAbandons
  <2>1. AbandonOutstanding \in Seq(Verdicts)
    <3>1. Abandoned(queue, "dropped") \in Seq(Verdicts)
      BY DEF Abandoned, TypeOK, Verdicts, Terminal
    <3>2. Abandoned(inFlight, "unknown") \in Seq(Verdicts)
      BY DEF Abandoned, TypeOK, Verdicts, Terminal
    <3> QED
      BY <3>1, <3>2, ConcatProperties DEF AbandonOutstanding
  <2>2. Draining' = Draining
    BY <1>7 DEF StopAbandons, Draining
  <2>3. Cardinality(Draining) \in Nat
    BY FinitenessAssumption, FS_Subset, FS_CardinalityType DEF Draining
  <2>4. drainers' \in Nat /\ DrainersExact'
    BY <1>7, <2>2, <2>3 DEF StopAbandons, DrainEnds, DrainersExact
  <2>5. queue' \in Seq(Records) /\ work' \in Seq(Verdicts)
    BY <1>7, <2>1 DEF StopAbandons
  <2>7. linger' \in BOOLEAN
    BY <1>7 DEF StopAbandons
  <2>8. stop' \in StopStates
    BY <1>7 DEF StopAbandons
  <2>6. UNCHANGED <<state, inFlight, run, counts, flush, wanted, callbackVars>>
    BY <1>7 DEF StopAbandons
  <2> QED
    BY <2>4, <2>5, <2>6, <2>7, <2>8 DEF TypeOK
<1>8. CASE StopAwaitsCallbacks
  <2>1. DrainersExact'
    BY <1>8, DrainersKept DEF StopAwaitsCallbacks
  <2> QED
    BY <1>8, <2>1 DEF StopAwaitsCallbacks, TypeOK
<1> QED
  BY <1>1, <1>2, <1>3, <1>4, <1>5, <1>6, <1>7, <1>8 DEF LoopStep

LEMMA TypeNext == TypeInv /\ [Next]_vars => TypeInv'
<1> SUFFICES ASSUME TypeOK, DrainersExact, [Next]_vars PROVE TypeOK' /\ DrainersExact'
  BY DEF TypeInv
<1> USE NamesType DEF scheduleVars, flushVars, invokeVars, promiseVars, callbackVars
<1>1. CASE UserCall \/ SinkAnswers \/ LoopStep
  BY <1>1, TypeUserCall, TypeSinkAnswers, TypeLoopStep DEF TypeInv
<1>2. CASE CallbackReturns
  <2>1. DrainersExact'
    BY <1>2, DrainersKept DEF CallbackReturns
  <2> QED
    BY <1>2, <2>1 DEF CallbackReturns, TypeOK
<1>3. CASE CallbackSettles
  <2>1. DrainersExact'
    BY <1>3, DrainersKept DEF CallbackSettles
  <2> QED
    BY <1>3, <2>1 DEF CallbackSettles, TypeOK
<1>4. CASE LingerFires
  <2>1. DrainersExact'
    BY <1>4, DrainersKept DEF LingerFires
  <2>2. queue \in Seq(Records) /\ state \in [Records -> RecordStates]
    BY DEF TypeOK
  <2>3. StartRun(queue, state)
    BY <1>4 DEF LingerFires
  <2> QED
    BY <1>4, <2>1, <2>2, <2>3, StartRunType DEF LingerFires, TypeOK
<1>5. ASSUME NEW c \in Flushes, FlushExpires(c) PROVE TypeOK' /\ DrainersExact'
  <2>1. Cardinality(Draining') = Cardinality(Draining)
    BY <1>5, DrainingCount DEF FlushExpires, Draining
  <2> QED
    BY <1>5, <2>1 DEF FlushExpires, TypeOK, DrainersExact
<1>6. CASE StopExpires
  <2>1. DrainersExact'
    BY <1>6, DrainersKept DEF StopExpires
  <2> QED
    BY <1>6, <2>1 DEF StopExpires, TypeOK
<1>7. CASE StopCloses
  <2>1. DrainersExact'
    BY <1>7, DrainersKept DEF StopCloses
  <2> QED
    BY <1>7, <2>1 DEF StopCloses, TypeOK
<1>8. CASE StopEnds
  <2>1. DrainersExact'
    BY <1>8, DrainersKept DEF StopEnds
  <2> QED
    BY <1>8, <2>1 DEF StopEnds, TypeOK
<1>9. CASE UNCHANGED vars
  <2>1. DrainersExact'
    BY <1>9, DrainersKept DEF vars
  <2> QED
    BY <1>9, <2>1 DEF vars, TypeOK
<1> QED
  BY <1>1, <1>2, <1>3, <1>4, <1>5, <1>6, <1>7, <1>8, <1>9 DEF Next

(* Initially no flush drains. *)
LEMMA TypeInit == Init => TypeInv
<1> SUFFICES ASSUME Init PROVE TypeOK /\ DrainersExact
  BY DEF TypeInv
<1>1. TypeOK
  <2>1. queue \in Seq(Records) /\ inFlight \in Seq(Records) /\ work \in Seq(Verdicts)
    BY DEF Init
  <2>2. run \in RunStates /\ stop \in StopStates
    BY NamesType DEF Init
  <2>3. flush \in [Flushes -> FlushStates] /\ state \in [Records -> RecordStates]
    BY DEF Init, FlushStates, RecordStates
  <2> QED
    BY <2>1, <2>2, <2>3 DEF Init, TypeOK
<1>2. Draining = {}
  BY DEF Init, Draining
<1> QED
  BY <1>1, <1>2, FS_EmptySet DEF Init, DrainersExact

(* Every reachable state of the client is well typed, #drainers included,  *)
(* and #drainers counts the drains in progress exactly, whatever the order *)
(* in which flushes and the shutdown begin, expire and end.                *)
THEOREM TypeCorrect == Spec => [](TypeOK /\ DrainersExact)
<1>1. TypeInv => TypeOK /\ DrainersExact
  BY DEF TypeInv
<1> QED
  BY <1>1, TypeInit, TypeNext, PTL DEF Spec

-----------------------------------------------------------------------------
(***************************************************************************)
(* The safety properties: no record is lost between #queue, #inFlight and  *)
(* its verdict, a flush tells the truth, shutdown accounts for everything. *)
(***************************************************************************)

(* Queue q and states st fit together: what is queued is in q, once. *)
Fits(q, st) ==
  /\ \A i, j \in DOMAIN q : q[i] = q[j] => i = j
  /\ \A i \in DOMAIN q : st[q[i]] = "queued"
  /\ \A r \in Records : st[r] = "queued" => \E i \in DOMAIN q : q[i] = r

(* The inductive invariant: where every record is, and what that tells the *)
(* callers of flush() and shutdown().                                      *)
PlaceInv == Placement /\ FlushTruthful /\ ShutdownAccounts

(* Splicing the batch off a queue that fits leaves a queue that fits; the  *)
(* records of the batch, and only these, change from queued to in_flight.  *)
LEMMA StartRunFits ==
  ASSUME NEW q \in Seq(Records), NEW st \in [Records -> RecordStates],
         Fits(q, st), StartRun(q, st)
  PROVE  /\ Fits(queue', state')
         /\ \A r \in Records : state'[r] = "in_flight" =>
              st[r] = "in_flight" \/ \E i \in DOMAIN inFlight' : inFlight'[i] = r
         /\ \A i \in DOMAIN inFlight' : state'[inFlight'[i]] = "in_flight"
         /\ \A r \in Records : state'[r] # st[r] =>
              st[r] = "queued" /\ state'[r] = "in_flight"
<1> DEFINE n == BatchSize(q)
<1>1. n \in 0..Len(q)
  BY OptionsAssumption DEF ValidOptions, BatchSize
<1>2. /\ queue' \in Seq(Records) /\ Len(queue') = Len(q) - n
      /\ \A i \in 1..(Len(q) - n) : queue'[i] = q[n + i]
      /\ inFlight' \in Seq(Records) /\ Len(inFlight') = n
      /\ \A i \in 1..n : inFlight'[i] = q[i]
  BY <1>1 DEF StartRun
<1>3. \A r \in Records : state'[r] = IF \E i \in 1..n : q[i] = r THEN "in_flight" ELSE st[r]
  BY DEF StartRun
<1> HIDE DEF n
<1>4. \A i, j \in DOMAIN queue' : queue'[i] = queue'[j] => i = j
  <2> SUFFICES ASSUME NEW i \in DOMAIN queue', NEW j \in DOMAIN queue', queue'[i] = queue'[j]
               PROVE  i = j
    OBVIOUS
  <2>1. /\ i \in 1..(Len(q) - n) /\ j \in 1..(Len(q) - n)
        /\ n + i \in DOMAIN q /\ n + j \in DOMAIN q
    BY <1>1, <1>2
  <2>2. q[n + i] = q[n + j]
    BY <1>2, <2>1
  <2>3. n + i = n + j
    BY <2>1, <2>2 DEF Fits
  <2> QED
    BY <1>1, <2>1, <2>3
<1>5. \A i \in DOMAIN queue' : state'[queue'[i]] = "queued"
  <2> SUFFICES ASSUME NEW i \in DOMAIN queue' PROVE state'[queue'[i]] = "queued"
    OBVIOUS
  <2>1. i \in 1..(Len(q) - n) /\ n + i \in DOMAIN q /\ queue'[i] = q[n + i]
    BY <1>1, <1>2
  <2>2. ~ \E j \in 1..n : q[j] = q[n + i]
    BY <1>1, <2>1 DEF Fits
  <2>3. st[q[n + i]] = "queued" /\ q[n + i] \in Records
    BY <2>1 DEF Fits
  <2> QED
    BY <1>3, <2>1, <2>2, <2>3
<1>6. \A r \in Records : state'[r] = "queued" => \E i \in DOMAIN queue' : queue'[i] = r
  <2> SUFFICES ASSUME NEW r \in Records, state'[r] = "queued"
               PROVE  \E i \in DOMAIN queue' : queue'[i] = r
    OBVIOUS
  <2>1. st[r] = "queued" /\ ~ \E i \in 1..n : q[i] = r
    BY <1>3
  <2>2. PICK k \in DOMAIN q : q[k] = r
    BY <2>1 DEF Fits
  <2>3. k \in (n + 1)..Len(q)
    BY <1>1, <2>1, <2>2
  <2>4. k - n \in 1..(Len(q) - n) /\ n + (k - n) = k
    BY <1>1, <2>3
  <2> QED
    BY <1>2, <2>2, <2>4
<1>7. \A r \in Records : state'[r] = "in_flight" =>
        st[r] = "in_flight" \/ \E i \in DOMAIN inFlight' : inFlight'[i] = r
  <2> SUFFICES ASSUME NEW r \in Records, state'[r] = "in_flight", st[r] # "in_flight"
               PROVE  \E i \in DOMAIN inFlight' : inFlight'[i] = r
    OBVIOUS
  <2>1. PICK k \in 1..n : q[k] = r
    BY <1>3
  <2>2. DOMAIN inFlight' = 1..n
    BY <1>1, <1>2
  <2> QED
    BY <1>2, <2>1, <2>2
<1>8. \A r \in Records : state'[r] # st[r] => st[r] = "queued" /\ state'[r] = "in_flight"
  BY <1>1, <1>3 DEF Fits
<1>9. \A i \in DOMAIN inFlight' : state'[inFlight'[i]] = "in_flight"
  BY <1>1, <1>2, <1>3
<1> QED
  BY <1>4, <1>5, <1>6, <1>7, <1>8, <1>9 DEF Fits

(* While #stop has not begun, #schedule keeps every record in its place.   *)
LEMMA SchedulePlaced ==
  ASSUME TypeOK, Placement, stop = "no",
         NEW q \in Seq(Records), NEW st \in [Records -> RecordStates],
         NEW d \in Nat, NEW b \in BOOLEAN,
         Fits(q, st), queue # <<>> => q # <<>>,
         \A r \in Records : st[r] = "in_flight" => state[r] = "in_flight",
         \A r \in Records : state[r] # "new" => st[r] = state[r],
         Schedule(q, st, d, b), work' = work,
         stop' = "no" \/ (b /\ q = queue /\ stop' \in {"draining", "drained"})
  PROVE  /\ Placement'
         /\ \A r \in Records : state'[r] # st[r] =>
              st[r] = "queued" /\ state'[r] = "in_flight"
<1>1. CASE MayRun(q) /\ BatchDue(q, d, b)
  <2>1. StartRun(q, st)
    BY <1>1 DEF Schedule
  <2>2. /\ Fits(queue', state')
        /\ \A r \in Records : state'[r] = "in_flight" =>
             st[r] = "in_flight" \/ \E i \in DOMAIN inFlight' : inFlight'[i] = r
        /\ \A i \in DOMAIN inFlight' : state'[inFlight'[i]] = "in_flight"
        /\ \A r \in Records : state'[r] # st[r] => st[r] = "queued" /\ state'[r] = "in_flight"
    BY <2>1, StartRunFits
  <2>3. run = "idle" /\ inFlight = <<>> /\ work = <<>>
    BY <1>1 DEF MayRun, Placement, InSection
  <2>4. \A r \in Records : st[r] # "in_flight"
    BY <2>3 DEF Placement
  <2>5. run' = "awaiting" /\ linger' = FALSE
    BY <2>1 DEF StartRun
  <2> QED
    BY <2>2, <2>3, <2>4, <2>5 DEF Placement, Fits, InSection
<1>2. CASE ~(MayRun(q) /\ BatchDue(q, d, b))
  <2>1. /\ queue' = q /\ state' = st /\ inFlight' = inFlight /\ run' = run
        /\ linger' = (linger \/ MayRun(q))
    BY <1>2 DEF Schedule, ArmLinger
  <2>2. linger' => run' = "idle" /\ queue' # <<>> /\ stop' = "no"
    BY <1>2, <2>1 DEF Placement, MayRun, BatchDue
  <2>3. InSection' <=> InSection
    BY <2>1 DEF InSection
  <2>4. \A r \in Records : InWork(r)' <=> InWork(r)
    BY DEF InWork
  <2>5. \A r \in Records : state'[r] = "in_flight" =>
          /\ \E i \in DOMAIN inFlight' : inFlight'[i] = r
          /\ InSection' => InWork(r)'
    BY <2>1, <2>3, <2>4 DEF Placement
  <2>6. \A i \in DOMAIN inFlight' : state'[inFlight'[i]] \in {"in_flight"} \cup Terminal
    <3> SUFFICES ASSUME NEW i \in DOMAIN inFlight
                 PROVE  st[inFlight[i]] \in {"in_flight"} \cup Terminal
      BY <2>1
    <3>1. inFlight[i] \in Records
      BY DEF TypeOK
    <3>2. state[inFlight[i]] \in {"in_flight"} \cup Terminal
      BY DEF Placement
    <3>3. state[inFlight[i]] # "new"
      BY <3>2 DEF Terminal
    <3> QED
      BY <3>1, <3>2, <3>3
  <2>7. \A i \in DOMAIN work' : state'[work'[i].rec] \in {"in_flight"} \cup Terminal
    <3> SUFFICES ASSUME NEW i \in DOMAIN work
                 PROVE  st[work[i].rec] \in {"in_flight"} \cup Terminal
      BY <2>1
    <3>1. work[i].rec \in Records
      <4>1. work \in Seq(Verdicts)
        BY DEF TypeOK
      <4>2. work[i] \in Verdicts
        BY <4>1
      <4> QED
        BY <4>2 DEF Verdicts
    <3>2. state[work[i].rec] \in {"in_flight"} \cup Terminal
      BY DEF Placement
    <3>3. state[work[i].rec] # "new"
      BY <3>2 DEF Terminal
    <3> QED
      BY <3>1, <3>2, <3>3
  <2> QED
    BY <2>1, <2>2, <2>3, <2>5, <2>6, <2>7 DEF Placement, Fits
<1> QED
  BY <1>1, <1>2
-----------------------------------------------------------------------------
(* How a step may change what became of a record. *)
Advances ==
  \A r \in Records :
    \/ state'[r] = state[r]
    \/ state[r] = "new"
    \/ state[r] \in Outstanding /\ state'[r] \in Outstanding \cup Terminal

(* A flush that has not answered stays truthful when records only advance. *)
LEMMA TruthKept ==
  ASSUME TypeOK, FlushTruthful, Advances, wanted' = wanted,
         \A c \in Flushes : flush'[c] \in {"resolved", "true"} => flush[c] \in {"resolved", "true"}
  PROVE  FlushTruthful'
<1> SUFFICES ASSUME NEW c \in Flushes, NEW r \in wanted[c]
             PROVE  state'[r] \in (IF flush'[c] \in {"resolved", "true"} THEN Terminal
                                   ELSE Terminal \cup Outstanding)
  BY DEF FlushTruthful
<1>1. r \in Records
  BY DEF TypeOK
<1>2. state[r] \in (IF flush[c] \in {"resolved", "true"} THEN Terminal
                    ELSE Terminal \cup Outstanding)
  BY DEF FlushTruthful
<1> QED
  BY <1>1, <1>2 DEF Advances, Terminal, Outstanding

(* What depends on none of the variables a step changes is kept. *)
LEMMA PlaceKept ==
  ASSUME TypeOK, PlaceInv, UNCHANGED <<scheduleVars, work, flush, wanted, stop>>
  PROVE  PlaceInv'
BY DEF PlaceInv, Placement, FlushTruthful, ShutdownAccounts, scheduleVars, InSection, InWork, In

(* A step that only decides records that were new keeps every record in    *)
(* its place.                                                              *)
LEMMA PlacementKept ==
  ASSUME TypeOK, Placement, UNCHANGED <<queue, inFlight, run, linger, work, stop>>,
         \A x \in Records : state[x] # "new" => state'[x] = state[x],
         \A x \in Records : state'[x] \in Outstanding => state[x] \in Outstanding
  PROVE  Placement'
<1>1. \A x \in Records : state[x] \in Outstanding \cup Terminal => state'[x] = state[x]
  BY DEF Outstanding, Terminal
<1>2. \A i \in DOMAIN queue : queue[i] \in Records
  BY DEF TypeOK
<1>3. \A i \in DOMAIN inFlight : inFlight[i] \in Records
  BY DEF TypeOK
<1>4. \A i \in DOMAIN work : work[i].rec \in Records
  <2>1. work \in Seq(Verdicts)
    BY DEF TypeOK
  <2>2. \A i \in DOMAIN work : work[i] \in Verdicts
    BY <2>1
  <2> QED
    BY <2>2 DEF Verdicts
<1>5. \A i \in DOMAIN queue' : state'[queue'[i]] = "queued"
  BY <1>1, <1>2 DEF Placement, Outstanding
<1>6. \A i \in DOMAIN inFlight' : state'[inFlight'[i]] \in {"in_flight"} \cup Terminal
  BY <1>1, <1>3 DEF Placement, Outstanding
<1>7. stop' # "abandoning" =>
        \A i \in DOMAIN work' : state'[work'[i].rec] \in {"in_flight"} \cup Terminal
  BY <1>1, <1>4 DEF Placement, Outstanding
<1>8. \A x \in Records : state'[x] \in Outstanding => state[x] = state'[x]
  BY <1>1
<1>9. \A x \in Records : (InWork(x)' <=> InWork(x)) /\ (InSection' <=> InSection)
  BY DEF InWork, InSection
<1>10. \A r \in Records : state'[r] = "queued" =>
         \/ \E i \in DOMAIN queue' : queue'[i] = r
         \/ stop' = "abandoning" /\ InWork(r)'
  BY <1>8, <1>9 DEF Placement, Outstanding
<1>11. \A r \in Records : state'[r] = "in_flight" =>
         /\ \E i \in DOMAIN inFlight' : inFlight'[i] = r
         /\ InSection' => InWork(r)'
  BY <1>8, <1>9 DEF Placement, Outstanding
<1> QED
  BY <1>5, <1>6, <1>7, <1>9, <1>10, <1>11 DEF Placement, InSection

(* record(), flush() and shutdown(), called from a task or from a callback. *)
LEMMA PlaceUserCall ==
  ASSUME TypeOK, PlaceInv, UserCall
  PROVE  PlaceInv'
<1> USE DEF scheduleVars, flushVars, invokeVars, promiseVars, callbackVars
<1>0. Placement /\ FlushTruthful /\ ShutdownAccounts
  BY DEF PlaceInv
<1>1. ASSUME NEW r \in Records, RecordValid(r) PROVE PlaceInv'
  <2>1. stop = "no" /\ stop' = "no" /\ work' = work /\ state[r] = "new"
        /\ flush' = flush /\ wanted' = wanted
    BY <1>1 DEF RecordValid, Accepting
  <2>2. CASE Depth >= MaxQueueSize
    <3>1. state' = [state EXCEPT ![r] = "dropped"] /\ UNCHANGED <<queue, inFlight, run, linger>>
      BY <1>1, <2>2 DEF RecordValid, Submit
    <3>2. \A x \in Records : state'[x] \in Outstanding <=> state[x] \in Outstanding
      BY <2>1, <3>1 DEF TypeOK, Outstanding
    <3>3. \A x \in Records : state[x] \in Outstanding => state'[x] = state[x]
      BY <2>1, <3>1 DEF TypeOK, Outstanding
    <3>4. Placement'
      <4>1. \A x \in Records : state[x] # "new" => state'[x] = state[x]
        BY <2>1, <3>1 DEF TypeOK
      <4> QED
        BY <1>0, <2>1, <3>1, <3>2, <4>1, PlacementKept
    <3>5. Advances
      BY <2>1, <3>1 DEF Advances, TypeOK
    <3> QED
      BY <1>0, <2>1, <3>4, <3>5, TruthKept DEF PlaceInv, ShutdownAccounts
  <2>3. CASE ~(Depth >= MaxQueueSize)
    <3> DEFINE q == Append(queue, r)
               st == [state EXCEPT ![r] = "queued"]
    <3>1. Schedule(q, st, drainers, stop # "no")
      BY <1>1, <2>3 DEF RecordValid, Submit
    <3>2. q \in Seq(Records) /\ st \in [Records -> RecordStates] /\ drainers \in Nat
      BY DEF TypeOK, RecordStates, Outstanding
    <3>3. Fits(q, st)
      <4>1. \A i \in DOMAIN queue : queue[i] # r
        BY <1>0, <2>1 DEF Placement
      <4>2. /\ Len(q) = Len(queue) + 1 /\ q[Len(queue) + 1] = r
            /\ \A i \in 1..Len(queue) : q[i] = queue[i]
        BY DEF TypeOK
      <4>3. \A i, j \in DOMAIN q : q[i] = q[j] => i = j
        BY <1>0, <3>2, <4>1, <4>2 DEF Placement, TypeOK
      <4>4. \A i \in DOMAIN q : st[q[i]] = "queued"
        BY <1>0, <3>2, <4>2 DEF Placement, TypeOK
      <4>5. ASSUME NEW x \in Records, st[x] = "queued"
            PROVE  \E i \in DOMAIN q : q[i] = x
        <5>1. CASE x = r
          BY <3>2, <4>2, <5>1 DEF TypeOK
        <5>2. CASE x # r
          <6>1. PICK i \in DOMAIN queue : queue[i] = x
            BY <1>0, <2>1, <4>5, <5>2 DEF Placement, TypeOK
          <6>2. i \in 1..Len(queue) /\ i \in 1..Len(q)
            BY <3>2, <4>2, <6>1 DEF TypeOK
          <6>3. i \in DOMAIN q /\ q[i] = x
            BY <3>2, <4>2, <6>1, <6>2
          <6> QED
            BY <6>3
        <5> QED
          BY <5>1, <5>2
      <4> QED
        BY <4>3, <4>4, <4>5 DEF Fits
    <3>4. queue # <<>> => q # <<>>
      <4>1. queue \in Seq(Records)
        BY DEF TypeOK
      <4>2. Len(q) = Len(queue) + 1 /\ Len(queue) \in Nat
        BY <4>1
      <4> QED
        BY <3>2, <4>2
    <3>5. \A x \in Records : st[x] = "in_flight" => state[x] = "in_flight"
      BY DEF TypeOK
    <3>8. \A x \in Records : state[x] # "new" => st[x] = state[x]
      BY <2>1 DEF TypeOK
    <3>6. /\ Placement'
          /\ \A x \in Records : state'[x] # st[x] => st[x] = "queued" /\ state'[x] = "in_flight"
      BY <1>0, <2>1, <3>1, <3>2, <3>3, <3>4, <3>5, <3>8, SchedulePlaced
    <3>7. Advances
      BY <2>1, <3>6 DEF Advances, TypeOK, Outstanding
    <3> QED
      BY <1>0, <2>1, <3>6, <3>7, TruthKept DEF PlaceInv, ShutdownAccounts
  <2> QED
    BY <2>2, <2>3
<1>2. ASSUME NEW r \in Records, NEW s \in {"invalid", "refused"}, state[r] = "new",
             state' = [state EXCEPT ![r] = s],
             UNCHANGED <<queue, inFlight, run, linger, work, flush, wanted, stop>>
      PROVE  PlaceInv'
  <2>1. \A x \in Records : state[x] \in Outstanding => state'[x] = state[x]
    BY <1>2 DEF TypeOK, Outstanding
  <2>2. \A x \in Records : state'[x] \in Outstanding <=> state[x] \in Outstanding
    BY <1>2 DEF TypeOK, Outstanding
  <2>3. Placement'
    <3>1. \A x \in Records : state[x] # "new" => state'[x] = state[x]
      BY <1>2 DEF TypeOK
    <3> QED
      BY <1>0, <1>2, <2>2, <3>1, PlacementKept
  <2>4. Advances
    BY <1>2 DEF Advances, TypeOK
  <2>5. FlushTruthful'
    BY <1>0, <1>2, <2>4, TruthKept
  <2>6. ShutdownAccounts'
    BY <1>0, <1>2, <2>2 DEF ShutdownAccounts, In
  <2> QED
    BY <2>3, <2>5, <2>6 DEF PlaceInv
<1>3. ASSUME NEW r \in Records, RecordInvalid(r) \/ RecordOpaque(r) \/ RecordRefused(r)
      PROVE  PlaceInv'
  BY <1>2, <1>3 DEF RecordInvalid, RecordOpaque, RecordRefused
<1>4. ASSUME NEW c \in Flushes, FlushDrains(c) PROVE PlaceInv'
  <2>1. stop = "no" /\ stop' = "no" /\ work' = work /\ NoteWanted(c)
        /\ flush' = [flush EXCEPT ![c] = IF Idle THEN "resolved" ELSE "waiting"]
        /\ Schedule(queue, state, drainers + 1, FALSE)
    BY <1>4 DEF FlushDrains
  <2>2. queue \in Seq(Records) /\ state \in [Records -> RecordStates] /\ drainers + 1 \in Nat
    BY DEF TypeOK
  <2>3. Fits(queue, state)
    BY <1>0, <2>1 DEF Fits, Placement
  <2>4. /\ Placement'
        /\ \A x \in Records : state'[x] # state[x] =>
             state[x] = "queued" /\ state'[x] = "in_flight"
    BY <1>0, <2>1, <2>2, <2>3, SchedulePlaced
  <2>5. Advances
    BY <2>4 DEF Advances, Outstanding
  <2>6. Idle => In(Outstanding) = {}
    BY <1>0, <2>1 DEF Idle, In, Outstanding, Placement
  <2>7. FlushTruthful'
    <3> SUFFICES ASSUME NEW k \in Flushes, NEW r \in wanted'[k]
                 PROVE  state'[r] \in (IF flush'[k] \in {"resolved", "true"} THEN Terminal
                                       ELSE Terminal \cup Outstanding)
      BY DEF FlushTruthful
    <3>1. CASE k # c
      <4>1. r \in wanted[k] /\ r \in Records /\ flush'[k] = flush[k]
        BY <2>1, <3>1 DEF NoteWanted, TypeOK
      <4> QED
        BY <1>0, <2>5, <4>1 DEF FlushTruthful, Advances, Outstanding, Terminal
    <3>2. CASE k = c
      <4>1. r \in Records /\ state[r] \in Outstanding
        BY <2>1, <3>2 DEF NoteWanted, TypeOK
      <4>2. ~Idle
        BY <2>6, <4>1 DEF In
      <4>3. flush'[k] = "waiting"
        BY <2>1, <3>2, <4>2 DEF TypeOK
      <4>4. state'[r] \in Outstanding
        BY <2>4, <4>1 DEF Outstanding
      <4> QED
        BY <4>3, <4>4
    <3> QED
      BY <3>1, <3>2
  <2> QED
    BY <2>1, <2>4, <2>7 DEF PlaceInv, ShutdownAccounts
<1>5. ASSUME NEW c \in Flushes, FlushJoins(c) PROVE PlaceInv'
  <2>1. UNCHANGED <<scheduleVars, work, stop>> /\ NoteWanted(c)
        /\ flush' = [flush EXCEPT ![c] = "joining"]
    BY <1>5 DEF FlushJoins
  <2>2. FlushTruthful'
    <3> SUFFICES ASSUME NEW k \in Flushes, NEW r \in wanted'[k]
                 PROVE  state'[r] \in (IF flush'[k] \in {"resolved", "true"} THEN Terminal
                                       ELSE Terminal \cup Outstanding)
      BY DEF FlushTruthful
    <3>1. CASE k # c
      <4>1. r \in wanted[k] /\ flush'[k] = flush[k]
        BY <2>1, <3>1 DEF NoteWanted, TypeOK
      <4> QED
        BY <1>0, <2>1, <4>1 DEF FlushTruthful
    <3>2. CASE k = c
      BY <2>1, <3>2 DEF NoteWanted, TypeOK
    <3> QED
      BY <3>1, <3>2
  <2>3. Placement' /\ ShutdownAccounts'
    BY <1>0, <2>1 DEF Placement, ShutdownAccounts, InSection, InWork, In
  <2> QED
    BY <2>2, <2>3 DEF PlaceInv
<1>6. CASE Shutdown
  <2>1. stop = "no" /\ stop' \in {"draining", "drained"} /\ work' = work
        /\ flush' = flush /\ wanted' = wanted
        /\ Schedule(queue, state, drainers + 1, TRUE)
    BY <1>6 DEF Shutdown
  <2>2. queue \in Seq(Records) /\ state \in [Records -> RecordStates] /\ drainers + 1 \in Nat
    BY DEF TypeOK
  <2>3. Fits(queue, state)
    BY <1>0, <2>1 DEF Fits, Placement
  <2>4. /\ Placement'
        /\ \A x \in Records : state'[x] # state[x] =>
             state[x] = "queued" /\ state'[x] = "in_flight"
    BY <1>0, <2>1, <2>2, <2>3, SchedulePlaced
  <2>5. Advances
    BY <2>4 DEF Advances, Outstanding
  <2> QED
    BY <1>0, <2>1, <2>4, <2>5, TruthKept DEF PlaceInv, ShutdownAccounts
<1> QED
  BY <1>1, <1>3, <1>4, <1>5, <1>6 DEF UserCall

(* The sink answers: every record of the batch that is still in flight     *)
(* gets a verdict.                                                         *)
LEMMA PlaceSinkAnswers ==
  ASSUME TypeOK, PlaceInv, SinkAnswers
  PROVE  PlaceInv'
<1> USE DEF scheduleVars, flushVars, invokeVars, promiseVars, callbackVars
<1>0. Placement /\ FlushTruthful /\ ShutdownAccounts
  BY DEF PlaceInv
<1>1. /\ run = "awaiting" /\ run' \in {"applying", "settling"}
      /\ stop # "abandoning" /\ work = <<>> /\ ~linger
      /\ UNCHANGED <<state, queue, inFlight, linger, flush, wanted, stop>>
  BY <1>0 DEF SinkAnswers, SinkAccepts, SinkFails, SinkInconclusive, AtLoop, InSection, Placement
<1>2. \/ work' = <<>> /\ ~Unresolved
      \/ \E v : Judge(v)
  BY <1>1 DEF SinkAnswers, SinkAccepts, SinkFails, SinkInconclusive
<1>3. Placement'
  <2>1. ASSUME NEW r \in Records, state'[r] = "in_flight"
        PROVE  (\E i \in DOMAIN inFlight' : inFlight'[i] = r) /\ InWork(r)'
    <3>1. PICK i \in DOMAIN inFlight : inFlight[i] = r
      BY <1>0, <1>1, <2>1 DEF Placement
    <3>2. Unresolved
      BY <1>1, <2>1, <3>1 DEF Unresolved
    <3>3. PICK v : Judge(v)
      BY <1>2, <3>2
    <3>4. i \in 1..Len(inFlight)
      BY DEF TypeOK
    <3>5. i \in DOMAIN work' /\ work'[i].rec = r
      BY <3>1, <3>3, <3>4 DEF Judge
    <3> QED
      BY <1>1, <3>1, <3>5 DEF InWork
  <2>2. \A i \in DOMAIN work' : state'[work'[i].rec] \in {"in_flight"} \cup Terminal
    <3>1. CASE work' = <<>>
      BY <3>1
    <3>2. ASSUME NEW v, Judge(v), NEW i \in DOMAIN work'
          PROVE  state'[work'[i].rec] \in {"in_flight"} \cup Terminal
      <4>1. i \in DOMAIN inFlight /\ work'[i].rec = inFlight[i]
        BY <3>2 DEF Judge, TypeOK
      <4> QED
        BY <1>0, <1>1, <4>1 DEF Placement
    <3> QED
      BY <1>2, <3>1, <3>2
  <2> QED
    BY <1>0, <1>1, <2>1, <2>2 DEF Placement, InSection
<1>4. FlushTruthful' /\ ShutdownAccounts'
  BY <1>0, <1>1 DEF FlushTruthful, ShutdownAccounts, In
<1> QED
  BY <1>3, <1>4 DEF PlaceInv

(* One verdict is applied, in a batch or while the outstanding records are *)
(* abandoned.                                                              *)
LEMMA PlaceSettle ==
  ASSUME TypeOK, PlaceInv, Settle
  PROVE  PlaceInv' /\ Advances
<1> USE DEF scheduleVars, flushVars, invokeVars, promiseVars, callbackVars
<1> DEFINE v == Head(work)
<1>0. Placement /\ FlushTruthful /\ ShutdownAccounts
  BY DEF PlaceInv
<1>1. /\ work # <<>> /\ work' = Tail(work)
      /\ UNCHANGED <<queue, inFlight, run, linger, flush, wanted, stop>>
      /\ state' = IF Applies(v) THEN [state EXCEPT ![v.rec] = v.to] ELSE state
  BY DEF Settle
<1>2. v \in Verdicts /\ work \in Seq(Verdicts)
  BY <1>1 DEF TypeOK
<1>3. v.rec \in Records /\ v.to \in Terminal
  BY <1>2 DEF Verdicts
<1>4. \A x \in Records : x # v.rec => state'[x] = state[x]
  BY <1>1, <1>3 DEF TypeOK
<1>5. state'[v.rec] \notin Outstanding
  BY <1>1, <1>3 DEF Applies, TypeOK, Terminal, Outstanding
<1>6. state[v.rec] \in Terminal => state'[v.rec] = state[v.rec]
  BY <1>1 DEF Applies, Terminal, Outstanding
<1>7. \A x \in Records : x # v.rec /\ InWork(x) => InWork(x)'
  <2> SUFFICES ASSUME NEW x \in Records, x # v.rec, InWork(x) PROVE InWork(x)'
    OBVIOUS
  <2>1. PICK i \in DOMAIN work : work[i].rec = x
    BY DEF InWork
  <2>2. i # 1 /\ i \in 1..Len(work)
    BY <1>2, <2>1
  <2>3. i - 1 \in DOMAIN work' /\ work'[i - 1] = work[i]
    BY <1>1, <1>2, <2>2
  <2> QED
    BY <2>1, <2>3 DEF InWork
<1>8. InSection /\ InSection'
  BY <1>0, <1>1 DEF Placement, InSection
<1>9. \A x \in Records : state'[x] \in Outstanding => state'[x] = state[x] /\ x # v.rec
  BY <1>4, <1>5
<1>10. Placement'
  <2>1. \A i \in DOMAIN queue' : state'[queue'[i]] = "queued"
    <3> SUFFICES ASSUME NEW i \in DOMAIN queue PROVE state'[queue[i]] = "queued"
      BY <1>1
    <3>1. queue[i] \in Records /\ state[queue[i]] = "queued"
      BY <1>0 DEF Placement, TypeOK
    <3>2. stop # "abandoning"
      BY <1>0 DEF Placement
    <3>3. 1 \in DOMAIN work /\ work[1] = v
      BY <1>1, <1>2
    <3>4. state[v.rec] \in {"in_flight"} \cup Terminal
      BY <1>0, <3>2, <3>3 DEF Placement
    <3>5. queue[i] # v.rec
      BY <3>1, <3>4 DEF Terminal
    <3> QED
      BY <1>4, <3>1, <3>5
  <2>2. \A r \in Records : state'[r] = "queued" =>
          \/ \E i \in DOMAIN queue' : queue'[i] = r
          \/ stop' = "abandoning" /\ InWork(r)'
    BY <1>0, <1>1, <1>7, <1>9 DEF Placement, Outstanding
  <2>3. \A r \in Records : state'[r] = "in_flight" =>
          /\ \E i \in DOMAIN inFlight' : inFlight'[i] = r
          /\ InWork(r)'
    BY <1>0, <1>1, <1>7, <1>8, <1>9 DEF Placement, Outstanding
  <2>4. \A x \in Records : state[x] \in {"in_flight"} \cup Terminal =>
          state'[x] \in {"in_flight"} \cup Terminal
    BY <1>1, <1>3, <1>4, <1>6 DEF TypeOK, Terminal
  <2>5. \A i \in DOMAIN inFlight' : state'[inFlight'[i]] \in {"in_flight"} \cup Terminal
    BY <1>0, <1>1, <2>4 DEF Placement, TypeOK
  <2>6. stop' # "abandoning" =>
          \A i \in DOMAIN work' : state'[work'[i].rec] \in {"in_flight"} \cup Terminal
    <3> SUFFICES ASSUME stop # "abandoning", NEW i \in DOMAIN work'
                 PROVE  state'[work'[i].rec] \in {"in_flight"} \cup Terminal
      BY <1>1
    <3>1. i + 1 \in DOMAIN work /\ work'[i] = work[i + 1]
      BY <1>1, <1>2
    <3>2. work[i + 1] \in Verdicts
      BY <1>2, <3>1
    <3>3. work[i + 1].rec \in Records
      BY <3>2 DEF Verdicts
    <3>4. state[work[i + 1].rec] \in {"in_flight"} \cup Terminal
      BY <1>0, <3>1 DEF Placement
    <3> QED
      BY <2>4, <3>1, <3>3, <3>4
  <2> QED
    BY <1>0, <1>1, <1>8, <2>1, <2>2, <2>3, <2>5, <2>6 DEF Placement
<1>11. Advances
  BY <1>1, <1>3, <1>4 DEF Advances, Applies, TypeOK
<1>12. FlushTruthful'
  BY <1>0, <1>1, <1>11, TruthKept
<1>13. ShutdownAccounts'
  BY <1>0, <1>1, <1>9 DEF ShutdownAccounts, In
<1> QED
  BY <1>10, <1>11, <1>12, <1>13 DEF PlaceInv

(* #run resumes after a batch. *)
LEMMA PlaceRunResumes ==
  ASSUME TypeOK, PlaceInv, RunResumes
  PROVE  PlaceInv' /\ Advances
<1> USE DEF scheduleVars, flushVars, invokeVars, promiseVars, callbackVars
<1>0. Placement /\ FlushTruthful /\ ShutdownAccounts
  BY DEF PlaceInv
<1>1. /\ run = "resuming" /\ inFlight = <<>> /\ work = <<>> /\ work' = work
      /\ stop # "abandoning" /\ wanted' = wanted /\ ~linger
  BY <1>0 DEF RunResumes, AtLoop, InSection, Placement
<1>2. \A r \in Records : state[r] # "in_flight"
  BY <1>0, <1>1 DEF Placement
<1>3. CASE queue # <<>> /\ StartRun(queue, state) /\ UNCHANGED <<flush, stop>>
  <2>1. queue \in Seq(Records) /\ state \in [Records -> RecordStates]
    BY DEF TypeOK
  <2>2. Fits(queue, state)
    BY <1>0, <1>1 DEF Fits, Placement
  <2>3. /\ Fits(queue', state')
        /\ \A r \in Records : state'[r] = "in_flight" =>
             state[r] = "in_flight" \/ \E i \in DOMAIN inFlight' : inFlight'[i] = r
        /\ \A i \in DOMAIN inFlight' : state'[inFlight'[i]] = "in_flight"
        /\ \A r \in Records : state'[r] # state[r] =>
             state[r] = "queued" /\ state'[r] = "in_flight"
    BY <1>3, <2>1, <2>2, StartRunFits
  <2>4. run' = "awaiting" /\ linger' = FALSE
    BY <1>3 DEF StartRun
  <2>5. Placement'
    BY <1>1, <1>2, <1>3, <2>3, <2>4 DEF Placement, Fits, InSection
  <2>6. Advances
    BY <2>3 DEF Advances, Outstanding
  <2>7. FlushTruthful'
    BY <1>0, <1>1, <1>3, <2>6, TruthKept
  <2>8. ShutdownAccounts'
    BY <1>0, <1>3 DEF ShutdownAccounts
  <2> QED
    BY <2>5, <2>6, <2>7, <2>8 DEF PlaceInv
<1>4. CASE queue # <<>> /\ run' = "idle" /\ linger' = TRUE /\ stop = "no"
           /\ UNCHANGED <<state, queue, inFlight, flush, stop>>
  <2>1. Placement'
    BY <1>0, <1>1, <1>2, <1>4 DEF Placement, InSection
  <2> QED
    BY <1>0, <1>1, <1>4, <2>1 DEF PlaceInv, FlushTruthful, ShutdownAccounts, In, Advances
<1>5. CASE queue = <<>> /\ run' = "idle" /\ ResolveIdle
           /\ UNCHANGED <<state, queue, inFlight, linger>>
  <2>1. \A r \in Records : state[r] \notin Outstanding
    BY <1>0, <1>1, <1>2, <1>5 DEF Placement, Outstanding
  <2>2. stop' # "abandoning" /\ (stop' = stop \/ stop' = "drained")
    BY <1>1, <1>5 DEF ResolveIdle
  <2>3. Placement'
    BY <1>0, <1>1, <1>2, <1>5, <2>1, <2>2 DEF Placement, InSection, Outstanding
  <2>4. FlushTruthful'
    BY <1>0, <1>1, <1>5, <2>1 DEF FlushTruthful, TypeOK
  <2>5. ShutdownAccounts'
    BY <1>5, <2>1 DEF ShutdownAccounts, In
  <2> QED
    BY <1>5, <2>3, <2>4, <2>5 DEF PlaceInv, Advances
<1>6. stop \in StopStates /\ (~BatchDue(queue, drainers, stop # "no") => stop = "no")
  BY DEF TypeOK, BatchDue
<1> QED
  BY <1>3, <1>4, <1>5, <1>6 DEF RunResumes

(* The linger timer fires: the pipeline is idle and has records queued. *)
LEMMA PlaceLingerFires ==
  ASSUME TypeOK, PlaceInv, LingerFires
  PROVE  PlaceInv' /\ Advances
<1> USE DEF scheduleVars, flushVars, invokeVars, promiseVars, callbackVars
<1>0. Placement /\ FlushTruthful /\ ShutdownAccounts
  BY DEF PlaceInv
<1>1. /\ linger /\ StartRun(queue, state)
      /\ UNCHANGED <<work, flush, wanted, stop>>
  BY DEF LingerFires
<1>2. run = "idle" /\ inFlight = <<>> /\ work = <<>> /\ stop = "no"
  BY <1>0, <1>1 DEF Placement, InSection
<1>3. \A r \in Records : state[r] # "in_flight"
  BY <1>0, <1>2 DEF Placement
<1>4. queue \in Seq(Records) /\ state \in [Records -> RecordStates]
  BY DEF TypeOK
<1>5. Fits(queue, state)
  BY <1>0, <1>2 DEF Fits, Placement
<1>6. /\ Fits(queue', state')
      /\ \A r \in Records : state'[r] = "in_flight" =>
           state[r] = "in_flight" \/ \E i \in DOMAIN inFlight' : inFlight'[i] = r
      /\ \A i \in DOMAIN inFlight' : state'[inFlight'[i]] = "in_flight"
      /\ \A r \in Records : state'[r] # state[r] =>
           state[r] = "queued" /\ state'[r] = "in_flight"
  BY <1>1, <1>4, <1>5, StartRunFits
<1>7. run' = "awaiting" /\ linger' = FALSE
  BY <1>1 DEF StartRun
<1>8. Placement'
  BY <1>1, <1>2, <1>3, <1>6, <1>7 DEF Placement, Fits, InSection
<1>9. Advances
  BY <1>6 DEF Advances, Outstanding
<1>10. FlushTruthful'
  BY <1>0, <1>1, <1>9, TruthKept
<1>11. ShutdownAccounts'
  BY <1>1, <1>2 DEF ShutdownAccounts
<1> QED
  BY <1>8, <1>9, <1>10, <1>11 DEF PlaceInv

(* #stop abandons what is outstanding: every such record is on its way to  *)
(* a verdict.                                                              *)
LEMMA PlaceStopAbandons ==
  ASSUME TypeOK, PlaceInv, StopAbandons
  PROVE  PlaceInv'
<1> USE DEF scheduleVars, flushVars, invokeVars, promiseVars, callbackVars
<1> DEFINE a == Abandoned(queue, "dropped")
           b == Abandoned(inFlight, "unknown")
<1>0. Placement /\ FlushTruthful /\ ShutdownAccounts
  BY DEF PlaceInv
<1>1. /\ stop = "drained" /\ stop' = "abandoning" /\ queue' = <<>> /\ work' = a \o b
      /\ ~linger' /\ UNCHANGED <<state, inFlight, run, flush, wanted>>
      /\ run \notin {"applying", "settling"}
  BY DEF StopAbandons, AbandonOutstanding, AtLoop, InSection
<1>2. queue \in Seq(Records) /\ inFlight \in Seq(Records)
  BY DEF TypeOK
<1>3. /\ a \in Seq(Verdicts) /\ Len(a) = Len(queue)
      /\ \A i \in 1..Len(queue) : a[i].rec = queue[i]
      /\ b \in Seq(Verdicts) /\ Len(b) = Len(inFlight)
      /\ \A i \in 1..Len(inFlight) : b[i].rec = inFlight[i]
  BY <1>2 DEF Abandoned, Verdicts, Terminal
<1>4. /\ Len(a \o b) = Len(a) + Len(b)
      /\ a \o b \in Seq(Verdicts)
      /\ \A i \in 1..Len(a) : (a \o b)[i] = a[i]
      /\ \A i \in 1..Len(b) : (a \o b)[Len(a) + i] = b[i]
  BY <1>3
<1> HIDE DEF a, b
<1>5. ASSUME NEW r \in Records, state[r] = "queued" PROVE InWork(r)'
  <2>1. PICK i \in DOMAIN queue : queue[i] = r
    BY <1>0, <1>1, <1>5 DEF Placement
  <2>2. i \in 1..Len(a) /\ i \in 1..Len(a \o b)
    BY <1>2, <1>3, <1>4, <2>1
  <2>3. i \in DOMAIN work' /\ work'[i].rec = r
    BY <1>1, <1>2, <1>3, <1>4, <2>1, <2>2
  <2> QED
    BY <2>3 DEF InWork
<1>6. ASSUME NEW r \in Records, state[r] = "in_flight"
      PROVE  (\E i \in DOMAIN inFlight : inFlight[i] = r) /\ InWork(r)'
  <2>1. PICK i \in DOMAIN inFlight : inFlight[i] = r
    BY <1>0, <1>1, <1>6 DEF Placement
  <2>2. i \in 1..Len(b) /\ Len(a) + i \in 1..Len(a \o b)
    BY <1>2, <1>3, <1>4, <2>1
  <2>3. Len(a) + i \in DOMAIN work' /\ work'[Len(a) + i].rec = r
    BY <1>1, <1>2, <1>3, <1>4, <2>1, <2>2
  <2> QED
    BY <2>1, <2>3 DEF InWork
<1>7. Placement'
  BY <1>0, <1>1, <1>5, <1>6 DEF Placement, InSection
<1>8. FlushTruthful' /\ ShutdownAccounts'
  BY <1>0, <1>1 DEF FlushTruthful, ShutdownAccounts
<1> QED
  BY <1>7, <1>8 DEF PlaceInv

(* The steps of a shutdown and of a flush that move no record. *)
LEMMA PlaceWaiters ==
  ASSUME TypeOK, PlaceInv, UNCHANGED <<scheduleVars, work, wanted>>,
         \/ /\ UNCHANGED flush
            /\ \/ stop = "draining" /\ stop' = "drained"
               \/ stop = "abandoning" /\ stop' = "callbacks" /\ work = <<>>
               \/ stop = "callbacks" /\ stop' \in {"closing", "done"}
               \/ stop = "closing" /\ stop' = "done"
         \/ /\ UNCHANGED stop
            /\ \A c \in Flushes : flush'[c] \in {"resolved", "true"} =>
                 flush[c] \in {"resolved", "true"} \/ stop = "done"
  PROVE  PlaceInv'
<1> USE DEF scheduleVars
<1>0. Placement /\ FlushTruthful /\ ShutdownAccounts
  BY DEF PlaceInv
<1>1. stop = "abandoning" /\ work = <<>> => \A r \in Records : state[r] \notin Outstanding
  BY <1>0 DEF Placement, InSection, InWork, Outstanding
<1>2. stop = "done" => \A r \in Records : state[r] \notin Outstanding
  BY <1>0 DEF ShutdownAccounts, In
<1>3. Placement'
  <2>1. \A r \in Records : InWork(r)' <=> InWork(r)
    BY DEF InWork
  <2>2. CASE stop = "abandoning" /\ stop' = "callbacks" /\ work = <<>>
    BY <1>0, <1>1, <2>2 DEF Placement, InSection, Outstanding
  <2>3. CASE stop # "abandoning" /\ stop' # "abandoning" /\ (stop' = "no" <=> stop = "no")
    BY <1>0, <2>1, <2>3 DEF Placement, InSection
  <2>4. CASE UNCHANGED stop
    BY <1>0, <2>1, <2>4 DEF Placement, InSection
  <2> QED
    BY <2>2, <2>3, <2>4
<1>4. FlushTruthful'
  <2>1. CASE UNCHANGED flush
    BY <1>0, <2>1 DEF FlushTruthful
  <2>2. CASE ~UNCHANGED flush
    <3> SUFFICES ASSUME NEW c \in Flushes, NEW r \in wanted[c]
                 PROVE  state[r] \in (IF flush'[c] \in {"resolved", "true"} THEN Terminal
                                      ELSE Terminal \cup Outstanding)
      BY DEF FlushTruthful
    <3>1. r \in Records
      BY DEF TypeOK
    <3>2. state[r] \in (IF flush[c] \in {"resolved", "true"} THEN Terminal
                        ELSE Terminal \cup Outstanding)
      BY <1>0 DEF FlushTruthful
    <3> QED
      BY <1>2, <2>2, <3>1, <3>2
  <2> QED
    BY <2>1, <2>2
<1>5. ShutdownAccounts'
  <2>1. stop \in {"callbacks", "closing", "done"} => queue = <<>> /\ In(Outstanding) = {}
    BY <1>0 DEF ShutdownAccounts
  <2>2. stop = "abandoning" => queue = <<>>
    BY <1>0 DEF Placement
  <2> QED
    BY <1>1, <2>1, <2>2 DEF ShutdownAccounts, In
<1> QED
  BY <1>3, <1>4, <1>5 DEF PlaceInv

(* A batch ends: onDelivered is called, then the batch leaves #inFlight. *)
LEMMA PlaceBatchEnds ==
  ASSUME TypeOK, PlaceInv, NotifyDelivered \/ EndDeliver
  PROVE  PlaceInv'
<1> USE DEF scheduleVars, flushVars, invokeVars, promiseVars, callbackVars
<1>0. Placement /\ FlushTruthful /\ ShutdownAccounts
  BY DEF PlaceInv
<1>1. /\ run \in {"applying", "settling"} /\ work = <<>> /\ work' = <<>>
      /\ UNCHANGED <<state, queue, linger, flush, wanted, stop>>
      /\ \/ run' = "settling" /\ inFlight' = inFlight
         \/ run' = "resuming" /\ inFlight' = <<>>
  BY DEF NotifyDelivered, EndDeliver
<1>2. \A r \in Records : state[r] # "in_flight"
  BY <1>0, <1>1 DEF Placement, InSection, InWork
<1>3. Placement'
  BY <1>0, <1>1, <1>2 DEF Placement, InSection
<1>4. FlushTruthful' /\ ShutdownAccounts'
  BY <1>0, <1>1 DEF FlushTruthful, ShutdownAccounts, In
<1> QED
  BY <1>3, <1>4 DEF PlaceInv

(* Every step keeps every record in its place. *)
LEMMA PlaceNext ==
  ASSUME TypeOK, PlaceInv, [Next]_vars
  PROVE  PlaceInv'
<1> USE DEF scheduleVars, flushVars, invokeVars, promiseVars, callbackVars
<1>1. CASE UserCall
  BY <1>1, PlaceUserCall
<1>2. CASE SinkAnswers
  BY <1>2, PlaceSinkAnswers
<1>3. CASE CallbackReturns \/ CallbackSettles \/ UNCHANGED vars
  BY <1>3, PlaceKept DEF CallbackReturns, CallbackSettles, vars
<1>4. CASE Settle
  BY <1>4, PlaceSettle
<1>5. CASE NotifyDelivered \/ EndDeliver
  BY <1>5, PlaceBatchEnds
<1>6. CASE RunResumes
  BY <1>6, PlaceRunResumes
<1>7. CASE LingerFires
  BY <1>7, PlaceLingerFires
<1>8. CASE StopAbandons
  BY <1>8, PlaceStopAbandons
<1>9. ASSUME NEW c \in Flushes, FlushReturns(c) \/ FlushJoined(c) \/ FlushExpires(c)
      PROVE  PlaceInv'
  <2>1. UNCHANGED <<scheduleVars, work, wanted, stop>>
    BY <1>9 DEF FlushReturns, FlushJoined, FlushExpires
  <2>2. flush \in [Flushes -> FlushStates]
    BY DEF TypeOK
  <2>3. \A k \in Flushes : flush'[k] \in {"resolved", "true"} =>
          flush[k] \in {"resolved", "true"} \/ stop = "done"
    BY <1>9, <2>2 DEF FlushReturns, FlushJoined, FlushExpires
  <2> QED
    BY <2>1, <2>3, PlaceWaiters
<1>10. CASE StopAwaitsCallbacks \/ StopExpires \/ StopCloses \/ StopEnds
  <2>1. UNCHANGED <<scheduleVars, work, wanted, flush>>
    BY <1>10 DEF StopAwaitsCallbacks, StopExpires, StopCloses, StopEnds
  <2>2. \/ stop = "draining" /\ stop' = "drained"
        \/ stop = "abandoning" /\ stop' = "callbacks" /\ work = <<>>
        \/ stop = "callbacks" /\ stop' \in {"closing", "done"}
        \/ stop = "closing" /\ stop' = "done"
    BY <1>10 DEF StopAwaitsCallbacks, StopExpires, StopCloses, StopEnds
  <2> QED
    BY <2>1, <2>2, PlaceWaiters
<1> QED
  BY <1>1, <1>2, <1>3, <1>4, <1>5, <1>6, <1>7, <1>8, <1>9, <1>10 DEF Next, LoopStep

(* Initially there is no record anywhere. *)
LEMMA PlaceInit == Init => PlaceInv
BY DEF Init, PlaceInv, Placement, FlushTruthful, ShutdownAccounts, InSection, InWork,
       Outstanding, Terminal

(* Every outstanding record is in exactly the place its state names, a     *)
(* flush never answers true too early, and a shutdown leaves nothing       *)
(* outstanding, for any number of records and flushes and any limits.      *)
THEOREM RecordsPlaced == Spec => [](Placement /\ FlushTruthful /\ ShutdownAccounts)
<1>1. PlaceInv => Placement /\ FlushTruthful /\ ShutdownAccounts
  BY DEF PlaceInv
<1>2. Spec => []TypeOK
  BY TypeCorrect, PTL
<1> QED
  BY <1>1, <1>2, PlaceInit, PlaceNext, PTL DEF Spec

(* flush() never answers true for a record that was outstanding at the     *)
(* call and is not yet terminal, also when it joined a shutdown.           *)
THEOREM FlushesTrue == Spec => []FlushTruthful
BY RecordsPlaced, PTL

(* Once #stop goes on to the callbacks and the sink nothing is queued or   *)
(* outstanding, and no late answer of a hung batch changes that.           *)
THEOREM ShutdownComplete == Spec => []ShutdownAccounts
BY RecordsPlaced, PTL
-----------------------------------------------------------------------------
(* No wake-up is lost.                                                     *)

(* An idle pipeline with records queued lingers, and no drain is under way. *)
WakeInv ==
  queue # <<>> /\ run = "idle" => linger /\ drainers = 0

(* #schedule leaves the pipeline delivering, lingering, or with an empty   *)
(* queue.                                                                  *)
LEMMA ScheduleWakes ==
  ASSUME TypeOK, WakeInv, NEW q \in Seq(Records), NEW st \in [Records -> RecordStates],
         NEW d \in Nat, NEW b \in BOOLEAN, Schedule(q, st, d, b)
  PROVE  queue' # <<>> /\ run' = "idle" => linger' /\ d = 0
<1>1. CASE MayRun(q) /\ BatchDue(q, d, b)
  BY <1>1 DEF Schedule, StartRun
<1>2. CASE ~(MayRun(q) /\ BatchDue(q, d, b))
  <2>1. queue' = q /\ run' = run /\ linger' = (linger \/ MayRun(q))
    BY <1>2 DEF Schedule, ArmLinger
  <2>2. q # <<>> /\ run = "idle" => MayRun(q) /\ ~BatchDue(q, d, b)
    BY <1>2 DEF MayRun
  <2>3. ~BatchDue(q, d, b) => d = 0
    BY DEF BatchDue
  <2> QED
    BY <2>1, <2>2, <2>3
<1> QED
  BY <1>1, <1>2

(* Every step leaves the pipeline awake. *)
LEMMA WakeNext ==
  ASSUME TypeOK, DrainersExact, PlaceInv, WakeInv, [Next]_vars
  PROVE  WakeInv'
<1> USE DEF scheduleVars, flushVars, invokeVars, promiseVars, callbackVars
<1>t. queue \in Seq(Records) /\ state \in [Records -> RecordStates] /\ drainers \in Nat
  BY DEF TypeOK
<1>1. ASSUME NEW r \in Records, RecordValid(r) PROVE WakeInv'
  <2>1. CASE Depth >= MaxQueueSize
    BY <1>1, <2>1 DEF RecordValid, Submit, WakeInv
  <2>2. CASE ~(Depth >= MaxQueueSize)
    <3> DEFINE q == Append(queue, r)
               st == [state EXCEPT ![r] = "queued"]
    <3>1. q \in Seq(Records) /\ st \in [Records -> RecordStates]
      BY DEF TypeOK, RecordStates, Outstanding
    <3>2. Schedule(q, st, drainers, stop # "no") /\ drainers' = drainers
      BY <1>1, <2>2 DEF RecordValid, Submit
    <3> HIDE DEF q, st
    <3> QED
      BY <1>t, <3>1, <3>2, ScheduleWakes DEF WakeInv
  <2> QED
    BY <2>1, <2>2
<1>2. ASSUME NEW c \in Flushes, FlushDrains(c) PROVE WakeInv'
  <2>1. Schedule(queue, state, drainers + 1, FALSE)
    BY <1>2 DEF FlushDrains
  <2>2. drainers + 1 \in Nat /\ drainers + 1 # 0
    BY <1>t
  <2>3. ~(queue' # <<>> /\ run' = "idle")
    <3>1. FALSE \in BOOLEAN
      OBVIOUS
    <3>2. queue' # <<>> /\ run' = "idle" => linger' /\ drainers + 1 = 0
      BY <1>t, <2>1, <2>2, <3>1, ScheduleWakes
    <3> QED
      BY <2>2, <3>2
  <2> QED
    BY <2>3 DEF WakeInv
<1>3. CASE Shutdown
  <2>1. Schedule(queue, state, drainers + 1, TRUE)
    BY <1>3 DEF Shutdown
  <2>2. drainers + 1 \in Nat /\ drainers + 1 # 0
    BY <1>t
  <2>3. ~(queue' # <<>> /\ run' = "idle")
    <3>1. TRUE \in BOOLEAN
      OBVIOUS
    <3>2. queue' # <<>> /\ run' = "idle" => linger' /\ drainers + 1 = 0
      BY <1>t, <2>1, <2>2, <3>1, ScheduleWakes
    <3> QED
      BY <2>2, <3>2
  <2> QED
    BY <2>3 DEF WakeInv
<1>4. CASE RunResumes
  <2>1. CASE BatchDue(queue, drainers, stop # "no") /\ queue # <<>>
    BY <1>4, <2>1 DEF RunResumes, StartRun, WakeInv
  <2>2. CASE ~BatchDue(queue, drainers, stop # "no") /\ queue # <<>>
    <3>1. drainers = 0 /\ drainers' = 0 /\ linger'
      BY <1>t, <1>4, <2>2 DEF RunResumes, BatchDue
    <3> QED
      BY <3>1 DEF WakeInv
  <2>3. CASE queue = <<>>
    BY <1>4, <2>3 DEF RunResumes, WakeInv
  <2> QED
    BY <2>1, <2>2, <2>3
<1>5. CASE LingerFires
  BY <1>5 DEF LingerFires, StartRun, WakeInv
<1>6. CASE StopAbandons
  BY <1>6 DEF StopAbandons, WakeInv
<1>7. ASSUME NEW c \in Flushes, FlushReturns(c) PROVE WakeInv'
  <2>1. c \in Draining /\ IsFiniteSet(Draining)
    BY <1>7, FinitenessAssumption, FS_Subset DEF FlushReturns, Draining
  <2>2. Cardinality(Draining) # 0 /\ Cardinality(Draining) \in Nat
    BY <2>1, FS_EmptySet, FS_CardinalityType
  <2>3. drainers # 0
    BY <2>2 DEF DrainersExact
  <2> QED
    BY <1>7, <2>3 DEF FlushReturns, WakeInv
<1>8. CASE UNCHANGED <<queue, linger, run, drainers>>
  BY <1>8 DEF WakeInv
<1>9. CASE run' # "idle"
  BY <1>9 DEF WakeInv
<1>10. \/ \E r \in Records : RecordValid(r)
       \/ \E c \in Flushes : FlushDrains(c) \/ FlushReturns(c)
       \/ Shutdown \/ RunResumes \/ LingerFires \/ StopAbandons
       \/ UNCHANGED <<queue, linger, run, drainers>>
       \/ run' # "idle"
  <2>1. CASE UserCall
    BY <2>1 DEF UserCall, RecordInvalid, RecordOpaque, RecordRefused, FlushJoins
  <2>2. CASE SinkAnswers
    BY <2>2 DEF SinkAnswers, SinkAccepts, SinkFails, SinkInconclusive
  <2>3. CASE LoopStep
    BY <2>3 DEF LoopStep, Settle, NotifyDelivered, EndDeliver, FlushJoined, StopAwaitsCallbacks
  <2>4. CASE CallbackReturns \/ CallbackSettles \/ LingerFires \/ UNCHANGED vars
    BY <2>4 DEF CallbackReturns, CallbackSettles, vars
  <2>5. CASE StopExpires \/ StopCloses \/ StopEnds \/ \E c \in Flushes : FlushExpires(c)
    BY <2>5 DEF StopExpires, StopCloses, StopEnds, FlushExpires
  <2> QED
    BY <2>1, <2>2, <2>3, <2>4, <2>5 DEF Next
<1> QED
  BY <1>1, <1>2, <1>3, <1>4, <1>5, <1>6, <1>7, <1>8, <1>9, <1>10

(* No queued record is forgotten: an idle pipeline with records queued     *)
(* lingers, and it never lingers while a flush or a shutdown drains.       *)
THEOREM NoLostWakeup == Spec => []NeverStalled
<1>1. ASSUME TypeOK, DrainersExact, PlaceInv, WakeInv PROVE NeverStalled
  <2> SUFFICES ASSUME queue # <<>>, run = "idle", NEW c \in Flushes
               PROVE  linger /\ stop = "no" /\ flush[c] # "waiting"
    BY <1>1 DEF NeverStalled, WakeInv, PlaceInv, Placement
  <2>1. linger /\ drainers = 0
    BY <1>1 DEF WakeInv
  <2>2. stop = "no"
    BY <1>1, <2>1 DEF PlaceInv, Placement
  <2>3. IsFiniteSet(Draining)
    BY FinitenessAssumption, FS_Subset DEF Draining
  <2>4. Cardinality(Draining) = 0
    <3>1. Cardinality(Draining) \in Nat
      BY <2>3, FS_CardinalityType
    <3>2. drainers = Cardinality(Draining) + 0
      BY <1>1, <2>2 DEF DrainersExact
    <3> QED
      BY <2>1, <3>1, <3>2
  <2>5. Draining = {}
    BY <2>3, <2>4, FS_EmptySet
  <2> QED
    BY <2>1, <2>2, <2>5 DEF Draining
<1>2. Init => WakeInv
  BY DEF Init, WakeInv
<1>3. Spec => [](TypeOK /\ DrainersExact)
  BY TypeCorrect
<1>4. Spec => []PlaceInv
  <2>1. Placement /\ FlushTruthful /\ ShutdownAccounts => PlaceInv
    BY DEF PlaceInv
  <2> QED
    BY <2>1, RecordsPlaced, PTL
<1> QED
  BY <1>1, <1>2, <1>3, <1>4, WakeNext, PTL DEF Spec
-----------------------------------------------------------------------------
(* Failures reach onFailure.                                               *)

Failed == {"dropped", "unknown"}

(* A step that fails no submission forgets no notification either. *)
LEMMA ReportsKept ==
  ASSUME FailuresReported,
         \A r \in Records : state'[r] \in Failed => state[r] \in Failed,
         notified \subseteq notified', failedAtOnce \subseteq failedAtOnce'
  PROVE  FailuresReported'
BY DEF FailuresReported, Failed

(* Splicing off a batch fails nothing, and neither does #schedule. *)
LEMMA ScheduleFailsNothing ==
  ASSUME NEW q \in Seq(Records), NEW st \in [Records -> RecordStates], NEW d, NEW b,
         Schedule(q, st, d, b) \/ StartRun(q, st)
  PROVE  \A r \in Records : state'[r] \in Failed => st[r] \in Failed
<1>1. CASE StartRun(q, st)
  BY <1>1 DEF StartRun, Failed
<1>2. CASE Schedule(q, st, d, b)
  BY <1>1, <1>2 DEF Schedule
<1> QED
  BY <1>1, <1>2

(* #notifyFailure reports a submission unless onFailure is running, and    *)
(* withdraws no report.                                                    *)
LEMMA NotifyReports ==
  ASSUME NEW r \in Records, NotifyFailure(r)
  PROVE  /\ notified \subseteq notified'
         /\ HasOnFailure /\ notifying = {} => r \in notified'
BY DEF NotifyFailure, invokeVars

LEMMA ReportsNext == TypeOK /\ FailuresReported /\ [Next]_vars => FailuresReported'
<1> SUFFICES ASSUME TypeOK, FailuresReported, [Next]_vars PROVE FailuresReported'
  OBVIOUS
<1> USE DEF scheduleVars, flushVars, invokeVars, promiseVars, callbackVars
<1>t. queue \in Seq(Records) /\ state \in [Records -> RecordStates]
  BY DEF TypeOK
<1>1. ASSUME NEW r \in Records, RecordValid(r) PROVE FailuresReported'
  <2>1. /\ failedAtOnce \subseteq failedAtOnce'
        /\ notifying # {} /\ state'[r] = "dropped" => r \in failedAtOnce'
    BY <1>1 DEF RecordValid, NoteFailedAtOnce
  <2>2. CASE Depth >= MaxQueueSize
    <3>1. state' = [state EXCEPT ![r] = "dropped"] /\ NotifyFailure(r)
      BY <1>1, <2>2 DEF RecordValid, Submit
    <3>2. notified \subseteq notified' /\ (HasOnFailure /\ notifying = {} => r \in notified')
      BY <3>1, NotifyReports
    <3> QED
      BY <1>t, <2>1, <3>1, <3>2 DEF FailuresReported
  <2>3. CASE ~(Depth >= MaxQueueSize)
    <3> DEFINE q == Append(queue, r)
               st == [state EXCEPT ![r] = "queued"]
    <3>1. q \in Seq(Records) /\ st \in [Records -> RecordStates]
      BY <1>t DEF RecordStates, Outstanding
    <3>2. Schedule(q, st, drainers, stop # "no") /\ notified' = notified
      BY <1>1, <2>3 DEF RecordValid, Submit
    <3>3. \A s \in Records : st[s] \in Failed => state[s] \in Failed
      BY <1>t DEF Failed
    <3> HIDE DEF q, st
    <3>4. \A s \in Records : state'[s] \in Failed => state[s] \in Failed
      BY <3>1, <3>2, <3>3, ScheduleFailsNothing
    <3> QED
      BY <2>1, <3>2, <3>4, ReportsKept
  <2> QED
    BY <2>2, <2>3
<1>2. ASSUME NEW r \in Records, RecordInvalid(r) PROVE FailuresReported'
  <2>1. notified \subseteq notified' /\ failedAtOnce \subseteq failedAtOnce'
    BY <1>2, NotifyReports DEF RecordInvalid
  <2>2. \A s \in Records : state'[s] \in Failed => state[s] \in Failed
    BY <1>2, <1>t DEF RecordInvalid, Failed
  <2> QED
    BY <2>1, <2>2, ReportsKept
<1>3. ASSUME NEW r \in Records, RecordOpaque(r) \/ RecordRefused(r) PROVE FailuresReported'
  <2>1. notified \subseteq notified' /\ failedAtOnce \subseteq failedAtOnce'
    BY <1>3 DEF RecordOpaque, RecordRefused
  <2>2. \A s \in Records : state'[s] \in Failed => state[s] \in Failed
    BY <1>3, <1>t DEF RecordOpaque, RecordRefused, Failed
  <2> QED
    BY <2>1, <2>2, ReportsKept
<1>4. CASE Settle
  <2> DEFINE v == Head(work)
  <2>w. work # <<>> /\ work \in Seq(Verdicts)
    BY <1>4 DEF Settle, TypeOK
  <2>v. v \in Verdicts
    BY <2>w
  <2>1. v \in Verdicts /\ v.rec \in Records /\ v.to \in Terminal
    BY <2>v DEF Verdicts
  <2>2. notifying = {} /\ failedAtOnce' = failedAtOnce
    BY <1>4 DEF Settle, InCallback
  <2>3. CASE Applies(v) /\ v.to # "sent"
    <3>1. state' = [state EXCEPT ![v.rec] = v.to] /\ NotifyFailure(v.rec)
      BY <1>4, <2>3 DEF Settle
    <3>2. notified \subseteq notified' /\ (HasOnFailure => v.rec \in notified')
      BY <2>1, <2>2, <3>1, NotifyReports
    <3> HIDE DEF v
    <3> QED
      BY <1>t, <2>1, <2>2, <3>1, <3>2 DEF FailuresReported
  <2>4. CASE Applies(v) /\ v.to = "sent"
    <3>1. state' = [state EXCEPT ![v.rec] = "sent"] /\ notified' = notified
      BY <1>4, <2>4 DEF Settle
    <3>2. \A s \in Records : state'[s] \in Failed => state[s] \in Failed
      BY <1>t, <2>1, <3>1 DEF Failed
    <3> QED
      BY <2>2, <3>1, <3>2, ReportsKept
  <2>5. CASE ~Applies(v)
    BY <1>4, <2>2, <2>5, ReportsKept DEF Settle
  <2> QED
    BY <2>3, <2>4, <2>5
<1>5. ASSUME UNCHANGED <<notified, failedAtOnce>>,
             \/ \E d, b : Schedule(queue, state, d, b)
             \/ StartRun(queue, state)
             \/ UNCHANGED state
      PROVE  FailuresReported'
  <2>1. \A s \in Records : state'[s] \in Failed => state[s] \in Failed
    BY <1>5, <1>t, ScheduleFailsNothing
  <2> QED
    BY <1>5, <2>1, ReportsKept
<1>6. ASSUME NEW c \in Flushes, FlushDrains(c) PROVE FailuresReported'
  BY <1>5, <1>6 DEF FlushDrains
<1>7. CASE Shutdown
  BY <1>5, <1>7 DEF Shutdown
<1>8. CASE RunResumes \/ LingerFires
  BY <1>5, <1>8 DEF RunResumes, LingerFires
<1>9. CASE SinkAnswers
  BY <1>5, <1>9 DEF SinkAnswers, SinkAccepts, SinkFails, SinkInconclusive
<1>10. CASE CallbackReturns \/ CallbackSettles \/ UNCHANGED vars
  BY <1>5, <1>10 DEF CallbackReturns, CallbackSettles, vars
<1>11. CASE NotifyDelivered \/ EndDeliver \/ StopAbandons \/ StopAwaitsCallbacks
  BY <1>5, <1>11 DEF NotifyDelivered, EndDeliver, StopAbandons, StopAwaitsCallbacks
<1>12. CASE StopExpires \/ StopCloses \/ StopEnds
  BY <1>5, <1>12 DEF StopExpires, StopCloses, StopEnds
<1>13. ASSUME NEW c \in Flushes,
              FlushJoins(c) \/ FlushExpires(c) \/ FlushReturns(c) \/ FlushJoined(c)
       PROVE  FailuresReported'
  BY <1>5, <1>13 DEF FlushJoins, FlushExpires, FlushReturns, FlushJoined
<1> QED
  BY <1>1, <1>2, <1>3, <1>4, <1>6, <1>7, <1>8, <1>9, <1>10, <1>11, <1>12, <1>13
     DEF Next, UserCall, LoopStep

(* onFailure hears of every submission that ends dropped or unknown, save  *)
(* one it submitted itself that was dropped at once: the verdict loops run *)
(* outside every callback, so #notifying never silences them.              *)
THEOREM FailuresHeard == Spec => []FailuresReported
<1>1. Init => FailuresReported
  BY DEF Init, FailuresReported
<1>2. Spec => []TypeOK
  BY TypeCorrect, PTL
<1> QED
  BY <1>1, <1>2, ReportsNext, PTL DEF Spec

-----------------------------------------------------------------------------
(***************************************************************************)
(* Pipeline implements DeliveryContract: every step of the detailed        *)
(* specification is a step of the contract, or leaves the mapped state as  *)
(* it was.                                                                 *)
(***************************************************************************)

(* What a step shows of a record: nothing, when it stays outstanding. *)
SameStatus ==
  \A r \in Records : state'[r] = state[r]
                     \/ (state[r] \in Outstanding /\ state'[r] \in Outstanding)

(* A record that stays as it is, or stays outstanding, is promised the same. *)
LEMMA StatusKept ==
  ASSUME SameStatus
  PROVE  PromisedStatus' = PromisedStatus
BY DEF SameStatus, PromisedStatus

(* One record whose state changes changes its promised status alone. *)
LEMMA StatusChanged ==
  ASSUME NEW x \in Records,
         \A r \in Records : r # x =>
           state'[r] = state[r] \/ (state[r] \in Outstanding /\ state'[r] \in Outstanding)
  PROVE  PromisedStatus' = [PromisedStatus EXCEPT ![x] = PromisedStatus'[x]]
BY DEF PromisedStatus

(* What a flush shows: nothing, while it only waits in another way. *)
LEMMA AnswerChanged ==
  ASSUME TypeOK, NEW c \in Flushes, \A k \in Flushes : k # c => flush'[k] = flush[k]
  PROVE  PromisedAnswer' = [PromisedAnswer EXCEPT ![c] = PromisedAnswer'[c]]
BY DEF PromisedAnswer

(* What #schedule does to the records is not visible: it moves queued ones  *)
(* into the batch.                                                          *)
LEMMA ScheduleStates ==
  ASSUME NEW q \in Seq(Records), NEW st \in [Records -> RecordStates],
         NEW d, NEW b, Schedule(q, st, d, b) \/ StartRun(q, st),
         \A i \in DOMAIN q : st[q[i]] = "queued"
  PROVE  \A r \in Records : state'[r] = st[r] \/ (st[r] = "queued" /\ state'[r] = "in_flight")
<1>1. CASE StartRun(q, st)
  <2> DEFINE n == BatchSize(q)
  <2>1. n \in 0..Len(q)
    BY OptionsAssumption DEF ValidOptions, BatchSize
  <2>2. \A r \in Records : state'[r] = IF \E i \in 1..n : q[i] = r THEN "in_flight" ELSE st[r]
    BY <1>1 DEF StartRun
  <2>3. \A i \in 1..n : i \in DOMAIN q
    BY <2>1
  <2> HIDE DEF n
  <2> QED
    BY <2>2, <2>3
<1>2. CASE Schedule(q, st, d, b) /\ ~StartRun(q, st)
  BY <1>2 DEF Schedule
<1> QED
  BY <1>1, <1>2
-----------------------------------------------------------------------------
(* The steps of the contract. *)

(* record() submits, is refused, or drops at once. *)
LEMMA RefinesSubmit ==
  ASSUME TypeOK, NEW r \in Records, state[r] = "new",
         NEW s \in {"refused", "pending", "dropped"}, s = "refused" \/ stop = "no",
         PromisedStatus'[r] = s,
         \A x \in Records : x # r =>
           state'[x] = state[x] \/ (state[x] \in Outstanding /\ state'[x] \in Outstanding),
         UNCHANGED <<wanted, flush, stop>>
  PROVE  Contract!Next
<1>1. PromisedStatus' = [PromisedStatus EXCEPT ![r] = s]
  BY StatusChanged
<1>2. PromisedStatus[r] = "new"
  BY DEF PromisedStatus, Outstanding
<1>3. UNCHANGED <<wanted, PromisedAnswer, SinkClosed>> /\ (s = "refused" \/ ~SinkClosed)
  BY DEF PromisedAnswer, SinkClosed
<1>4. Contract!Submit(r, s)
  BY <1>1, <1>2, <1>3 DEF Contract!Submit
<1> QED
  BY <1>4 DEF Contract!Next

(* A step that shows nothing of the records. *)
LEMMA RefinesStutter ==
  ASSUME SameStatus, UNCHANGED wanted, PromisedAnswer' = PromisedAnswer,
         SinkClosed' = SinkClosed
  PROVE  UNCHANGED Contract!contractVars
BY StatusKept DEF Contract!contractVars

(* flush() is called. *)
LEMMA RefinesFlush ==
  ASSUME TypeOK, NEW c \in Flushes, flush[c] = "none", SameStatus, NoteWanted(c),
         NEW a \in {"waiting", "resolved", "joining"}, flush' = [flush EXCEPT ![c] = a],
         UNCHANGED stop
  PROVE  Contract!Next
<1>1. PromisedStatus' = PromisedStatus
  BY StatusKept
<1>2. PromisedAnswer[c] = "none" /\ PromisedAnswer'[c] = "waiting"
  BY DEF PromisedAnswer, TypeOK
<1>3. PromisedAnswer' = [PromisedAnswer EXCEPT ![c] = "waiting"]
  BY <1>2, AnswerChanged DEF TypeOK
<1>4. \A r \in Records : PromisedStatus[r] = "pending" <=> state[r] \in Outstanding
  BY DEF PromisedStatus, TypeOK, RecordStates, Terminal, Outstanding
<1>5. {r \in Records : PromisedStatus[r] = "pending"} = {r \in Records : state[r] \in Outstanding}
  BY <1>4
<1>6. UNCHANGED SinkClosed
  BY DEF SinkClosed
<1>7. Contract!Flush(c)
  BY <1>1, <1>2, <1>3, <1>5, <1>6 DEF Contract!Flush, NoteWanted
<1> QED
  BY <1>7 DEF Contract!Next

(* flush() answers: true only when FlushTruthful says so. *)
LEMMA RefinesAnswer ==
  ASSUME TypeOK, FlushTruthful', NEW c \in Flushes, NEW a \in {"true", "false"},
         flush[c] \in {"resolved", "expired", "joining", "waiting"},
         flush' = [flush EXCEPT ![c] = a], UNCHANGED <<state, wanted, stop>>
  PROVE  Contract!Next
<1>1. PromisedAnswer[c] = "waiting" /\ PromisedAnswer'[c] = a
  BY DEF PromisedAnswer, TypeOK
<1>2. PromisedAnswer' = [PromisedAnswer EXCEPT ![c] = a]
  BY <1>1, AnswerChanged DEF TypeOK
<1>3. UNCHANGED <<PromisedStatus, SinkClosed>>
  BY DEF PromisedStatus, SinkClosed
<1>4. a = "true" => \A r \in wanted[c] : PromisedStatus[r] \in Contract!Terminal
  <2> SUFFICES ASSUME a = "true", NEW r \in wanted[c]
               PROVE  PromisedStatus[r] \in Contract!Terminal
    OBVIOUS
  <2>1. flush'[c] = "true"
    BY DEF TypeOK
  <2>2. state[r] \in Terminal /\ r \in Records
    BY <2>1 DEF FlushTruthful, TypeOK
  <2> QED
    BY <2>2 DEF PromisedStatus, Terminal, Outstanding, Contract!Terminal
<1>5. Contract!FlushAnswer(c, a)
  BY <1>1, <1>2, <1>3, <1>4 DEF Contract!FlushAnswer
<1> QED
  BY <1>5 DEF Contract!Next

(* One record reaches its terminal state. *)
LEMMA RefinesSettle ==
  ASSUME TypeOK, Settle
  PROVE  Contract!Next \/ UNCHANGED Contract!contractVars
<1> USE DEF scheduleVars, flushVars, invokeVars, promiseVars, callbackVars
<1> DEFINE v == Head(work)
<1>1. /\ work # <<>> /\ UNCHANGED <<flush, wanted, stop>>
      /\ state' = IF Applies(v) THEN [state EXCEPT ![v.rec] = v.to] ELSE state
  BY DEF Settle
<1>2. v \in Verdicts
  BY <1>1 DEF TypeOK
<1>3. v.rec \in Records /\ v.to \in Terminal
  BY <1>2 DEF Verdicts
<1>4. UNCHANGED <<wanted, PromisedAnswer, SinkClosed>>
  BY <1>1 DEF PromisedAnswer, SinkClosed
<1>5. CASE ~Applies(v)
  BY <1>1, <1>4, <1>5, RefinesStutter DEF SameStatus
<1>6. CASE Applies(v)
  <2>1. PromisedStatus[v.rec] = "pending"
    BY <1>3, <1>6 DEF PromisedStatus, Applies
  <2>2. state'[v.rec] = v.to /\ \A x \in Records : x # v.rec => state'[x] = state[x]
    BY <1>1, <1>3, <1>6 DEF TypeOK
  <2>3. PromisedStatus'[v.rec] = v.to
    BY <1>3, <2>2 DEF PromisedStatus, Terminal, Outstanding
  <2>4. PromisedStatus' = [PromisedStatus EXCEPT ![v.rec] = v.to]
    BY <1>3, <2>2, <2>3, StatusChanged
  <2>5. Contract!Settle(v.rec, v.to)
    BY <1>4, <2>1, <2>4 DEF Contract!Settle
  <2>6. v.to \in Contract!Terminal
    BY <1>3 DEF Terminal, Contract!Terminal
  <2> QED
    BY <1>3, <2>5, <2>6 DEF Contract!Next
<1> QED
  BY <1>5, <1>6

(* An owned sink is told to close when nothing is pending. *)
LEMMA RefinesClose ==
  ASSUME TypeOK, ShutdownAccounts, StopCloses
  PROVE  Contract!Next \/ UNCHANGED Contract!contractVars
<1> USE DEF scheduleVars, flushVars, invokeVars, promiseVars, callbackVars
<1>1. stop = "callbacks" /\ UNCHANGED <<state, flush, wanted>>
      /\ stop' = IF OwnsSink THEN "closing" ELSE "done"
  BY DEF StopCloses
<1>2. UNCHANGED <<PromisedStatus, PromisedAnswer, wanted>>
  BY <1>1 DEF PromisedStatus, PromisedAnswer
<1>3. CASE OwnsSink
  <2>1. ~SinkClosed /\ SinkClosed'
    BY <1>1, <1>3 DEF SinkClosed
  <2>2. \A r \in Records : PromisedStatus[r] # "pending"
    <3>1. \A r \in Records : state[r] \notin Outstanding /\ state[r] \in RecordStates
      BY <1>1 DEF ShutdownAccounts, In, TypeOK
    <3> QED
      BY <3>1 DEF PromisedStatus, RecordStates, Terminal, Outstanding
  <2>3. SinkClosed' = TRUE
    BY <2>1 DEF SinkClosed
  <2>4. Contract!Close
    BY <1>2, <2>1, <2>2, <2>3 DEF Contract!Close
  <2> QED
    BY <2>4 DEF Contract!Next
<1>4. CASE ~OwnsSink
  <2>1. SinkClosed' = SinkClosed
    BY <1>4 DEF SinkClosed
  <2> QED
    BY <1>1, <1>2, <2>1, RefinesStutter DEF SameStatus
<1> QED
  BY <1>3, <1>4

(* record(), flush() and shutdown(). *)
LEMMA RefinesUserCall ==
  ASSUME TypeOK, PlaceInv, UserCall
  PROVE  Contract!Next \/ UNCHANGED Contract!contractVars
<1> USE DEF scheduleVars, flushVars, invokeVars, promiseVars, callbackVars
<1>0. /\ queue \in Seq(Records) /\ state \in [Records -> RecordStates] /\ drainers \in Nat
      /\ \A i \in DOMAIN queue : queue[i] \in Records /\ state[queue[i]] = "queued"
  BY DEF TypeOK, PlaceInv, Placement
<1>1. ASSUME NEW r \in Records, RecordValid(r) PROVE Contract!Next
  <2>1. stop = "no" /\ state[r] = "new" /\ UNCHANGED <<wanted, flush, stop>>
    BY <1>1 DEF RecordValid, Accepting
  <2>2. CASE Depth >= MaxQueueSize
    <3>1. state' = [state EXCEPT ![r] = "dropped"]
      BY <1>1, <2>2 DEF RecordValid, Submit
    <3>2. PromisedStatus'[r] = "dropped" /\ \A x \in Records : x # r => state'[x] = state[x]
      BY <1>0, <3>1 DEF PromisedStatus, Outstanding
    <3> QED
      BY <2>1, <3>2, RefinesSubmit
  <2>3. CASE ~(Depth >= MaxQueueSize)
    <3> DEFINE q == Append(queue, r)
               st == [state EXCEPT ![r] = "queued"]
    <3>1. Schedule(q, st, drainers, stop # "no")
      BY <1>1, <2>3 DEF RecordValid, Submit
    <3>2. q \in Seq(Records) /\ st \in [Records -> RecordStates]
      BY <1>0 DEF RecordStates, Outstanding
    <3>3. \A i \in DOMAIN q : st[q[i]] = "queued"
      <4>1. \A i \in DOMAIN q : q[i] = r \/ (i \in DOMAIN queue /\ q[i] = queue[i])
        BY <1>0
      <4>2. st[r] = "queued" /\ \A i \in DOMAIN queue : st[queue[i]] = "queued"
        BY <1>0
      <4> QED
        BY <4>1, <4>2
    <3>4. \A x \in Records : st[x] = IF x = r THEN "queued" ELSE state[x]
      BY <1>0
    <3> HIDE DEF q, st
    <3>5. \A x \in Records : state'[x] = st[x] \/ (st[x] = "queued" /\ state'[x] = "in_flight")
      BY <3>1, <3>2, <3>3, ScheduleStates
    <3>6. PromisedStatus'[r] = "pending"
      BY <3>4, <3>5 DEF PromisedStatus, Outstanding
    <3>7. \A x \in Records : x # r =>
            state'[x] = state[x] \/ (state[x] \in Outstanding /\ state'[x] \in Outstanding)
      BY <3>4, <3>5 DEF Outstanding
    <3> QED
      BY <2>1, <3>6, <3>7, RefinesSubmit
  <2> QED
    BY <2>2, <2>3
<1>2. ASSUME NEW r \in Records, RecordInvalid(r) \/ RecordOpaque(r) \/ RecordRefused(r)
      PROVE  Contract!Next
  <2>1. state[r] = "new" /\ UNCHANGED <<wanted, flush, stop>>
        /\ \E s \in {"invalid", "refused"} : state' = [state EXCEPT ![r] = s]
    BY <1>2 DEF RecordInvalid, RecordOpaque, RecordRefused
  <2>2. PromisedStatus'[r] = "refused" /\ \A x \in Records : x # r => state'[x] = state[x]
    BY <1>0, <2>1 DEF PromisedStatus, Outstanding
  <2> QED
    BY <2>1, <2>2, RefinesSubmit
<1>3. ASSUME NEW d, NEW b, Schedule(queue, state, d, b) PROVE SameStatus
  <2>1. \A r \in Records : state'[r] = state[r] \/ (state[r] = "queued" /\ state'[r] = "in_flight")
    BY <1>0, <1>3, ScheduleStates
  <2> QED
    BY <2>1 DEF SameStatus, Outstanding
<1>4. ASSUME NEW c \in Flushes, FlushDrains(c) PROVE Contract!Next
  <2>1. /\ flush[c] = "none" /\ NoteWanted(c) /\ UNCHANGED stop
        /\ Schedule(queue, state, drainers + 1, FALSE)
        /\ \E a \in {"waiting", "resolved"} : flush' = [flush EXCEPT ![c] = a]
    BY <1>4 DEF FlushDrains
  <2>2. SameStatus
    BY <1>0, <1>3, <2>1
  <2> QED
    BY <2>1, <2>2, RefinesFlush
<1>5. ASSUME NEW c \in Flushes, FlushJoins(c) PROVE Contract!Next
  <2>1. /\ flush[c] = "none" /\ NoteWanted(c) /\ UNCHANGED <<state, stop>>
        /\ flush' = [flush EXCEPT ![c] = "joining"]
    BY <1>5 DEF FlushJoins
  <2>2. SameStatus
    BY <2>1 DEF SameStatus
  <2> QED
    BY <2>1, <2>2, RefinesFlush
<1>6. ASSUME Shutdown PROVE UNCHANGED Contract!contractVars
  <2>1. /\ Schedule(queue, state, drainers + 1, TRUE) /\ UNCHANGED <<flush, wanted>>
        /\ stop = "no" /\ stop' \in {"draining", "drained"}
    BY <1>6 DEF Shutdown
  <2>2. SameStatus
    BY <1>0, <1>3, <2>1
  <2>3. PromisedAnswer' = PromisedAnswer /\ SinkClosed' = SinkClosed
    BY <2>1 DEF PromisedAnswer, SinkClosed
  <2> QED
    BY <2>1, <2>2, <2>3, RefinesStutter
<1> QED
  BY <1>1, <1>2, <1>4, <1>5, <1>6 DEF UserCall

(* Every step of the pipeline is a step of the contract or shows nothing. *)
LEMMA RefinesNext ==
  ASSUME TypeOK, PlaceInv, PlaceInv', [Next]_vars
  PROVE  Contract!Next \/ UNCHANGED Contract!contractVars
<1> USE DEF scheduleVars, flushVars, invokeVars, promiseVars, callbackVars
<1>1. CASE UserCall
  BY <1>1, RefinesUserCall
<1>2. CASE Settle
  BY <1>2, RefinesSettle
<1>3. CASE StopCloses
  BY <1>3, RefinesClose DEF PlaceInv
<1>4. CASE UNCHANGED <<state, flush, wanted, stop>>
  <2>1. SameStatus /\ PromisedAnswer' = PromisedAnswer /\ SinkClosed' = SinkClosed
    BY <1>4 DEF SameStatus, PromisedAnswer, SinkClosed
  <2> QED
    BY <1>4, <2>1, RefinesStutter
<1>5. CASE UNCHANGED <<state, flush, wanted>>
           /\ (stop' = stop \/ <<stop, stop'>> \in {<<"draining", "drained">>,
                 <<"drained", "abandoning">>, <<"abandoning", "callbacks">>})
  <2>1. SameStatus /\ PromisedAnswer' = PromisedAnswer /\ SinkClosed' = SinkClosed
    BY <1>5 DEF SameStatus, PromisedAnswer, SinkClosed
  <2> QED
    BY <1>5, <2>1, RefinesStutter
<1>6. CASE StopEnds
  <2>1. SinkClosed' = SinkClosed
    BY <1>6 DEF StopEnds, SinkClosed
  <2>2. SameStatus /\ PromisedAnswer' = PromisedAnswer /\ wanted' = wanted
    BY <1>6 DEF StopEnds, SameStatus, PromisedAnswer
  <2> QED
    BY <2>1, <2>2, RefinesStutter
<1>7. CASE RunResumes \/ LingerFires
  <2>1. /\ StartRun(queue, state) \/ state' = state
        /\ UNCHANGED wanted
        /\ stop' = stop \/ (stop = "draining" /\ stop' = "drained")
        /\ UNCHANGED flush \/ ResolveIdle
    BY <1>7 DEF RunResumes, LingerFires, ResolveIdle
  <2>2. /\ queue \in Seq(Records) /\ state \in [Records -> RecordStates]
        /\ \A i \in DOMAIN queue : state[queue[i]] = "queued"
    BY DEF TypeOK, PlaceInv, Placement
  <2>3. StartRun(queue, state) =>
          \A r \in Records : state'[r] = state[r] \/ (state[r] = "queued" /\ state'[r] = "in_flight")
    BY <2>2, ScheduleStates
  <2>4. SameStatus
    BY <2>1, <2>3 DEF SameStatus, Outstanding
  <2>5. PromisedAnswer' = PromisedAnswer
    BY <2>1 DEF PromisedAnswer, ResolveIdle
  <2>6. SinkClosed' = SinkClosed
    BY <2>1 DEF SinkClosed
  <2> QED
    BY <2>1, <2>4, <2>5, <2>6, RefinesStutter
<1>8. ASSUME NEW c \in Flushes, FlushReturns(c) \/ FlushJoined(c) \/ FlushExpires(c)
      PROVE  Contract!Next \/ UNCHANGED Contract!contractVars
  <2>1. /\ UNCHANGED <<state, wanted, stop>>
        /\ flush[c] \in {"resolved", "expired", "joining", "waiting"}
        /\ \E a \in {"true", "false", "expired"} :
             (a = "expired" => flush[c] = "waiting") /\ flush' = [flush EXCEPT ![c] = a]
    BY <1>8 DEF FlushReturns, FlushJoined, FlushExpires
  <2>2. CASE flush[c] = "waiting" /\ flush' = [flush EXCEPT ![c] = "expired"]
    <3>1. PromisedAnswer' = PromisedAnswer
      BY <2>2 DEF PromisedAnswer, TypeOK
    <3>2. SameStatus /\ SinkClosed' = SinkClosed
      BY <2>1 DEF SameStatus, SinkClosed
    <3> QED
      BY <2>1, <3>1, <3>2, RefinesStutter
  <2>3. ASSUME NEW a \in {"true", "false"}, flush' = [flush EXCEPT ![c] = a] PROVE Contract!Next
    <3>1. FlushTruthful'
      BY DEF PlaceInv
    <3> QED
      BY <2>1, <2>3, <3>1, RefinesAnswer
  <2> QED
    BY <2>1, <2>2, <2>3
<1>9. \/ UserCall \/ Settle \/ StopCloses \/ StopEnds \/ RunResumes \/ LingerFires
      \/ \E c \in Flushes : FlushReturns(c) \/ FlushJoined(c) \/ FlushExpires(c)
      \/ UNCHANGED <<state, flush, wanted, stop>>
      \/ UNCHANGED <<state, flush, wanted>>
         /\ <<stop, stop'>> \in {<<"draining", "drained">>,
              <<"drained", "abandoning">>, <<"abandoning", "callbacks">>}
  <2>1. CASE SinkAnswers
    BY <2>1 DEF SinkAnswers, SinkAccepts, SinkFails, SinkInconclusive
  <2>2. CASE LoopStep
    BY <2>2 DEF LoopStep, NotifyDelivered, EndDeliver, StopAbandons, StopAwaitsCallbacks
  <2>3. CASE CallbackReturns \/ CallbackSettles \/ UNCHANGED vars
    BY <2>3 DEF CallbackReturns, CallbackSettles, vars
  <2>4. CASE StopExpires
    BY <2>4 DEF StopExpires
  <2> QED
    BY <2>1, <2>2, <2>3, <2>4 DEF Next
<1> QED
  BY <1>1, <1>2, <1>3, <1>4, <1>5, <1>6, <1>7, <1>8, <1>9

(* Initially nothing is promised. *)
LEMMA RefinesInit == Init => Contract!Init
BY DEF Init, Contract!Init, PromisedStatus, PromisedAnswer, SinkClosed, Outstanding

(* The pipeline implements the contract of the delivery core: a record is  *)
(* never relabelled, whatever answers late or is abandoned, a flush never  *)
(* answers true too early, and the sink is closed when nothing is pending. *)
THEOREM ContractImplemented == Spec => ImplementsContract
<1>1. Spec => []TypeOK
  BY TypeCorrect, PTL
<1>2. Spec => []PlaceInv
  <2>1. Placement /\ FlushTruthful /\ ShutdownAccounts => PlaceInv
    BY DEF PlaceInv
  <2> QED
    BY <2>1, RecordsPlaced, PTL
<1>3. TypeOK /\ PlaceInv /\ PlaceInv' /\ [Next]_vars => [Contract!Next]_Contract!contractVars
  BY RefinesNext
<1> QED
  BY <1>1, <1>2, <1>3, RefinesInit, PTL DEF Spec, ImplementsContract, Contract!Spec

-----------------------------------------------------------------------------
(***************************************************************************)
(* What Pipeline promises in numbers: the bound on the records it holds,   *)
(* what it hands to the sink, and the counters of DeliveryStats.           *)
(***************************************************************************)

(* A batch is handed to the sink out of a queue of at most n records. *)
Starts(n) ==
  /\ inFlight = <<>>
  /\ stop \notin {"closing", "done"}
  /\ \E q \in Seq(Records), st \in [Records -> RecordStates] : Len(q) <= n /\ StartRun(q, st)

(* No batch is handed to the sink, and at most n records are held. *)
Holds(n) ==
  /\ inFlight' \in {inFlight, <<>>}
  /\ Len(queue') + Len(inFlight') <= n

(* #schedule hands over a batch only when none is in flight. *)
LEMMA ScheduleLimits ==
  ASSUME TypeOK, Placement, stop = "no",
         NEW q \in Seq(Records), NEW st \in [Records -> RecordStates],
         NEW d, NEW b, Schedule(q, st, d, b)
  PROVE  Starts(Len(q) + Len(inFlight)) \/ Holds(Len(q) + Len(inFlight))
<1>0. inFlight \in Seq(Records) /\ Len(inFlight) \in Nat /\ Len(q) \in Nat
  BY DEF TypeOK
<1>1. CASE MayRun(q) /\ BatchDue(q, d, b)
  <2>1. StartRun(q, st) /\ inFlight = <<>>
    BY <1>1 DEF Schedule, MayRun, Placement
  <2>2. Len(q) <= Len(q) + Len(inFlight)
    BY <1>0
  <2> QED
    BY <2>1, <2>2 DEF Starts
<1>2. CASE ~(MayRun(q) /\ BatchDue(q, d, b))
  <2>1. queue' = q /\ inFlight' = inFlight
    BY <1>2 DEF Schedule
  <2>2. Len(q) + Len(inFlight) <= Len(q) + Len(inFlight)
    BY <1>0
  <2> QED
    BY <2>1, <2>2 DEF Holds
<1> QED
  BY <1>1, <1>2

(* Every step either starts a batch out of what is held, or holds no more; *)
(* only record() below the limit adds a record.                            *)
LEMMA LimitsNext ==
  ASSUME TypeOK, PlaceInv, DepthBounded, [Next]_vars
  PROVE  Starts(MaxQueueSize) \/ Holds(MaxQueueSize)
<1> USE DEF scheduleVars, flushVars, invokeVars, promiseVars, callbackVars
<1>0. /\ queue \in Seq(Records) /\ inFlight \in Seq(Records)
      /\ state \in [Records -> RecordStates] /\ drainers \in Nat
      /\ Len(queue) \in Nat /\ Len(inFlight) \in Nat /\ MaxQueueSize \in Nat
  BY OptionsAssumption DEF TypeOK, ValidOptions
<1>1. Placement /\ ShutdownAccounts /\ Len(queue) + Len(inFlight) <= MaxQueueSize
  BY DEF PlaceInv, DepthBounded
<1>2. ASSUME NEW n \in Nat, n <= MaxQueueSize, Starts(n) \/ Holds(n)
      PROVE  Starts(MaxQueueSize) \/ Holds(MaxQueueSize)
  <2>1. CASE Starts(n)
    <3>1. PICK q \in Seq(Records), st \in [Records -> RecordStates] :
            Len(q) <= n /\ StartRun(q, st)
      BY <2>1 DEF Starts
    <3>2. Len(q) <= MaxQueueSize
      BY <1>0, <1>2, <3>1
    <3> QED
      BY <2>1, <3>1, <3>2 DEF Starts
  <2>2. CASE Holds(n) /\ ~Starts(n)
    <3>1. inFlight' \in Seq(Records) \/ inFlight' = <<>>
      BY <1>0, <2>2 DEF Holds
    <3> QED
      BY <1>0, <1>2, <2>2 DEF Holds
  <2> QED
    BY <1>2, <2>1, <2>2
<1>3. ASSUME NEW r \in Records, RecordValid(r)
      PROVE  Starts(MaxQueueSize) \/ Holds(MaxQueueSize)
  <2>1. stop = "no"
    BY <1>3 DEF RecordValid, Accepting
  <2>2. CASE Depth >= MaxQueueSize
    BY <1>1, <1>3, <2>2 DEF RecordValid, Submit, Holds
  <2>3. CASE ~(Depth >= MaxQueueSize)
    <3> DEFINE q == Append(queue, r)
               st == [state EXCEPT ![r] = "queued"]
    <3>1. Schedule(q, st, drainers, stop # "no")
      BY <1>3, <2>3 DEF RecordValid, Submit
    <3>2. q \in Seq(Records) /\ st \in [Records -> RecordStates] /\ Len(q) = Len(queue) + 1
      BY <1>0 DEF RecordStates, Outstanding
    <3> HIDE DEF q, st
    <3>3. Starts(Len(q) + Len(inFlight)) \/ Holds(Len(q) + Len(inFlight))
      BY <1>1, <2>1, <3>1, <3>2, ScheduleLimits
    <3>4. Len(q) + Len(inFlight) \in Nat /\ Len(q) + Len(inFlight) <= MaxQueueSize
      BY <1>0, <2>3, <3>2 DEF Depth
    <3> QED
      BY <1>2, <3>3, <3>4
  <2> QED
    BY <2>2, <2>3
<1>4. ASSUME NEW d, NEW b, stop = "no", Schedule(queue, state, d, b)
      PROVE  Starts(MaxQueueSize) \/ Holds(MaxQueueSize)
  <2>1. Starts(Len(queue) + Len(inFlight)) \/ Holds(Len(queue) + Len(inFlight))
    BY <1>0, <1>1, <1>4, ScheduleLimits
  <2>2. Len(queue) + Len(inFlight) \in Nat
    BY <1>0
  <2> QED
    BY <1>1, <1>2, <2>1, <2>2
<1>5. CASE UserCall
  <2>1. \/ \E r \in Records : RecordValid(r)
        \/ stop = "no" /\ \E d, b : Schedule(queue, state, d, b)
        \/ UNCHANGED <<queue, inFlight>>
    BY <1>5 DEF UserCall, RecordInvalid, RecordOpaque, RecordRefused, FlushDrains, FlushJoins,
                Shutdown
  <2>2. CASE UNCHANGED <<queue, inFlight>>
    BY <1>1, <2>2 DEF Holds
  <2> QED
    BY <1>3, <1>4, <2>1, <2>2
<1>6. CASE StartRun(queue, state) /\ run \in {"idle", "resuming"} /\ queue # <<>>
  <2>1. inFlight = <<>> /\ stop \notin {"closing", "done"}
    BY <1>1, <1>6 DEF Placement, ShutdownAccounts
  <2>2. Len(queue) <= MaxQueueSize
    BY <1>0, <1>1
  <2> QED
    BY <1>0, <1>6, <2>1, <2>2 DEF Starts
<1>7. CASE UNCHANGED <<queue, inFlight>>
  BY <1>1, <1>7 DEF Holds
<1>8. CASE EndDeliver \/ StopAbandons
  <2>1. \/ queue' = queue /\ inFlight' = <<>>
        \/ queue' = <<>> /\ inFlight' = inFlight
    BY <1>8 DEF EndDeliver, StopAbandons
  <2>2. Len(<<>>) = 0
    OBVIOUS
  <2>3. Len(queue) <= MaxQueueSize /\ Len(inFlight) <= MaxQueueSize
    BY <1>0, <1>1
  <2> QED
    BY <1>0, <2>1, <2>2, <2>3 DEF Holds
<1>9. \/ UserCall \/ EndDeliver \/ StopAbandons \/ UNCHANGED <<queue, inFlight>>
      \/ StartRun(queue, state) /\ run \in {"idle", "resuming"} /\ queue # <<>>
  <2>1. CASE SinkAnswers
    BY <2>1 DEF SinkAnswers, SinkAccepts, SinkFails, SinkInconclusive
  <2>2. CASE RunResumes
    BY <2>2 DEF RunResumes
  <2>3. CASE LingerFires
    BY <1>1, <2>3 DEF LingerFires, Placement
  <2>4. CASE LoopStep
    BY <2>2, <2>4 DEF LoopStep, Settle, NotifyDelivered, FlushReturns, FlushJoined,
                      StopAwaitsCallbacks
  <2>5. CASE CallbackReturns \/ CallbackSettles \/ UNCHANGED vars
    BY <2>5 DEF CallbackReturns, CallbackSettles, vars
  <2>6. CASE StopExpires \/ StopCloses \/ StopEnds \/ \E c \in Flushes : FlushExpires(c)
    BY <2>6 DEF StopExpires, StopCloses, StopEnds, FlushExpires
  <2> QED
    BY <2>1, <2>3, <2>4, <2>5, <2>6 DEF Next
<1> QED
  BY <1>5, <1>6, <1>7, <1>8, <1>9

(* The records queued and in flight never exceed maxQueueSize, whatever a  *)
(* callback submits in the middle of a batch.                              *)
THEOREM QueueBounded == Spec => []DepthBounded
<1>1. Init => DepthBounded
  BY OptionsAssumption DEF Init, DepthBounded, ValidOptions
<1>2. ASSUME TypeOK, PlaceInv, DepthBounded, [Next]_vars PROVE DepthBounded'
  <2>1. CASE Starts(MaxQueueSize)
    <3>1. PICK q \in Seq(Records), st \in [Records -> RecordStates] :
            Len(q) <= MaxQueueSize /\ StartRun(q, st)
      BY <2>1 DEF Starts
    <3>2. Len(queue') + Len(inFlight') = Len(q)
      BY <3>1, StartRunType
    <3> QED
      BY <3>1, <3>2 DEF DepthBounded
  <2> QED
    BY <1>2, <2>1, LimitsNext DEF Holds, DepthBounded
<1>3. Spec => [](TypeOK /\ PlaceInv)
  <2>1. Placement /\ FlushTruthful /\ ShutdownAccounts => PlaceInv
    BY DEF PlaceInv
  <2> QED
    BY <2>1, TypeCorrect, RecordsPlaced, PTL
<1> QED
  BY <1>1, <1>2, <1>3, PTL DEF Spec

(* What sink.ts promises a sink: batches of at most batchMaxSize records,  *)
(* one at a time, none after close().                                      *)
THEOREM SinkContractKept == Spec => SinkContract
<1>1. ASSUME TypeOK, PlaceInv, DepthBounded, [Next]_vars
      PROVE  [inFlight' # inFlight /\ inFlight' # <<>> =>
                inFlight = <<>> /\ Len(inFlight') <= BatchMaxSize /\ ~SinkClosed]_vars
  <2> SUFFICES ASSUME inFlight' # inFlight, inFlight' # <<>>
               PROVE  inFlight = <<>> /\ Len(inFlight') <= BatchMaxSize /\ ~SinkClosed
    OBVIOUS
  <2>1. Starts(MaxQueueSize)
    BY <1>1, LimitsNext DEF Holds
  <2>2. PICK q \in Seq(Records), st \in [Records -> RecordStates] : StartRun(q, st)
    BY <2>1 DEF Starts
  <2>3. BatchSize(q) \in 0..Len(q) /\ BatchSize(q) <= BatchMaxSize
    BY OptionsAssumption DEF ValidOptions, BatchSize
  <2>4. Len(inFlight') = BatchSize(q)
    BY <2>2, <2>3 DEF StartRun
  <2> QED
    BY <2>1, <2>3, <2>4 DEF Starts, SinkClosed
<1>2. Spec => [](TypeOK /\ PlaceInv /\ DepthBounded)
  <2>1. Placement /\ FlushTruthful /\ ShutdownAccounts => PlaceInv
    BY DEF PlaceInv
  <2> QED
    BY <2>1, TypeCorrect, RecordsPlaced, QueueBounded, PTL
<1> QED
  BY <1>1, <1>2, PTL DEF Spec, SinkContract
-----------------------------------------------------------------------------
(* The counters.                                                           *)

One(p) == IF p THEN 1 ELSE 0

(* When one record moves, a count of records changes by that record. *)
LEMMA CountMoved ==
  ASSUME NEW r \in Records, NEW S,
         \A x \in Records : x # r => (state'[x] \in S <=> state[x] \in S)
  PROVE  /\ Cardinality(In(S)') = Cardinality(In(S)) + One(state'[r] \in S) - One(state[r] \in S)
         /\ Cardinality(In(S)) \in Nat
<1> DEFINE T == In(S) \ {r}
<1>1. IsFiniteSet(In(S)) /\ IsFiniteSet(T)
  BY FinitenessAssumption, FS_Subset DEF In
<1>2. /\ Cardinality(T) \in Nat /\ Cardinality(In(S)) \in Nat
      /\ Cardinality(In(S)) = Cardinality(T) + One(state[r] \in S)
  <2>1. CASE state[r] \in S
    <3>1. r \in In(S)
      BY <2>1 DEF In
    <3>2. Cardinality(T) = Cardinality(In(S)) - 1
      BY <1>1, <3>1, FS_RemoveElement
    <3>3. Cardinality(T) \in Nat /\ Cardinality(In(S)) \in Nat
      BY <1>1, FS_CardinalityType
    <3>4. One(state[r] \in S) = 1
      BY <2>1 DEF One
    <3> QED
      BY <3>2, <3>3, <3>4
  <2>2. CASE state[r] \notin S
    <3>1. T = In(S)
      BY <2>2 DEF In
    <3>2. Cardinality(In(S)) \in Nat
      BY <1>1, FS_CardinalityType
    <3>3. One(state[r] \in S) = 0
      BY <2>2 DEF One
    <3>4. Cardinality(T) = Cardinality(In(S))
      BY <3>1
    <3> HIDE DEF T
    <3> QED
      BY <3>2, <3>3, <3>4
  <2> QED
    BY <2>1, <2>2
<1>3. Cardinality(In(S)') = Cardinality(T) + One(state'[r] \in S)
  <2>1. CASE state'[r] \in S
    <3>1. In(S)' = T \cup {r}
      BY <2>1 DEF In
    <3>2. Cardinality(T \cup {r}) = Cardinality(T) + 1
      BY <1>1, FS_AddElement
    <3>3. One(state'[r] \in S) = 1
      BY <2>1 DEF One
    <3> QED
      BY <3>1, <3>2, <3>3
  <2>2. CASE state'[r] \notin S
    <3>1. In(S)' = T
      BY <2>2 DEF In
    <3>2. One(state'[r] \in S) = 0
      BY <2>2 DEF One
    <3> QED
      BY <1>2, <3>1, <3>2
  <2> QED
    BY <2>1, <2>2
<1>4. One(state[r] \in S) \in {0, 1} /\ One(state'[r] \in S) \in {0, 1}
  BY DEF One
<1> HIDE DEF T
<1> QED
  BY <1>2, <1>3, <1>4

(* The counters stay right when one record is submitted or decided and its *)
(* counters move with it.                                                  *)
LEMMA AccountingMoved ==
  ASSUME TypeOK, Accounting, NEW r \in Records,
         \A x \in Records : x # r =>
           state'[x] = state[x] \/ (state[x] \in Outstanding /\ state'[x] \in Outstanding),
         state[r] \notin Terminal,
         state[r] \in Outstanding => state'[r] \in Outstanding \cup Terminal,
         \A n \in Terminal : counts'[n] = counts[n] + One(state'[r] = n),
         counts'["submitted"] = counts["submitted"]
           + One(state[r] \notin Outstanding /\ state'[r] \in Outstanding \cup Terminal)
  PROVE  Accounting'
<1>0. counts \in [CounterNames -> Nat]
  BY DEF TypeOK
<1>1. ASSUME NEW n \in Terminal
      PROVE  /\ Cardinality(In({n})') = Cardinality(In({n})) + One(state'[r] = n)
             /\ Cardinality(In({n})) \in Nat
  <2>1. \A x \in Records : x # r => (state'[x] \in {n} <=> state[x] \in {n})
    BY <1>1 DEF Terminal, Outstanding
  <2>2. Cardinality(In({n})') =
          Cardinality(In({n})) + One(state'[r] \in {n}) - One(state[r] \in {n})
    BY <2>1, CountMoved
  <2>3. Cardinality(In({n})) \in Nat
    BY <2>1, CountMoved
  <2>4. One(state[r] \in {n}) = 0 /\ One(state'[r] \in {n}) = One(state'[r] = n)
    BY <1>1 DEF One
  <2>5. One(state'[r] = n) \in {0, 1}
    BY DEF One
  <2> QED
    BY <2>2, <2>3, <2>4, <2>5
<1>2. /\ Cardinality(In(Outstanding)') =
           Cardinality(In(Outstanding)) + One(state'[r] \in Outstanding)
             - One(state[r] \in Outstanding)
      /\ Cardinality(In(Outstanding)) \in Nat
  BY CountMoved
<1>3. "sent" \in Terminal /\ "dropped" \in Terminal /\ "unknown" \in Terminal
  BY DEF Terminal
<1>4. One(state[r] \notin Outstanding /\ state'[r] \in Outstanding \cup Terminal) =
        One(state'[r] = "sent") + One(state'[r] = "dropped") + One(state'[r] = "unknown")
          + One(state'[r] \in Outstanding) - One(state[r] \in Outstanding)
  BY DEF One, Terminal, Outstanding
<1>5. /\ counts'["sent"] = Cardinality(In({"sent"})')
      /\ counts'["dropped"] = Cardinality(In({"dropped"})')
      /\ counts'["unknown"] = Cardinality(In({"unknown"})')
  BY <1>1, <1>3 DEF Accounting
<1>6. /\ counts["submitted"] \in Nat /\ counts["sent"] \in Nat
      /\ counts["dropped"] \in Nat /\ counts["unknown"] \in Nat
  BY <1>0 DEF CounterNames
<1>7. /\ One(state'[r] = "sent") \in {0, 1} /\ One(state'[r] = "dropped") \in {0, 1}
      /\ One(state'[r] = "unknown") \in {0, 1}
      /\ One(state'[r] \in Outstanding) \in {0, 1} /\ One(state[r] \in Outstanding) \in {0, 1}
  BY DEF One
<1>8. /\ counts'["sent"] = counts["sent"] + One(state'[r] = "sent")
      /\ counts'["dropped"] = counts["dropped"] + One(state'[r] = "dropped")
      /\ counts'["unknown"] = counts["unknown"] + One(state'[r] = "unknown")
  BY <1>3
<1>9. counts["submitted"] = counts["sent"] + counts["dropped"] + counts["unknown"]
                              + Cardinality(In(Outstanding))
  BY DEF Accounting
<1>10. counts'["submitted"] = counts'["sent"] + counts'["dropped"] + counts'["unknown"]
                                + Cardinality(In(Outstanding)')
  BY <1>2, <1>4, <1>6, <1>7, <1>8, <1>9
<1> QED
  BY <1>5, <1>10 DEF Accounting

(* The counters stay right when no record leaves or enters a count. *)
LEMMA AccountingKept ==
  ASSUME Accounting, SameStatus, \A n \in CounterNames \ {"batches"} : counts'[n] = counts[n]
  PROVE  Accounting'
<1>1. \A r \in Records :
        /\ state'[r] = "sent" <=> state[r] = "sent"
        /\ state'[r] = "dropped" <=> state[r] = "dropped"
        /\ state'[r] = "unknown" <=> state[r] = "unknown"
        /\ state'[r] \in Outstanding <=> state[r] \in Outstanding
  BY DEF SameStatus, Outstanding
<1>2. /\ In({"sent"})' = In({"sent"}) /\ In({"dropped"})' = In({"dropped"})
      /\ In({"unknown"})' = In({"unknown"}) /\ In(Outstanding)' = In(Outstanding)
  BY <1>1 DEF In
<1>3. /\ counts'["sent"] = counts["sent"] /\ counts'["dropped"] = counts["dropped"]
      /\ counts'["unknown"] = counts["unknown"] /\ counts'["submitted"] = counts["submitted"]
  BY DEF CounterNames
<1> QED
  BY <1>2, <1>3 DEF Accounting

(* Every step keeps the counters right. *)
LEMMA AccountingNext ==
  ASSUME TypeOK, PlaceInv, Accounting, [Next]_vars
  PROVE  Accounting'
<1> USE DEF scheduleVars, flushVars, invokeVars, promiseVars, callbackVars
<1>0. /\ queue \in Seq(Records) /\ state \in [Records -> RecordStates]
      /\ counts \in [CounterNames -> Nat]
      /\ \A i \in DOMAIN queue : queue[i] \in Records /\ state[queue[i]] = "queued"
  BY DEF TypeOK, PlaceInv, Placement
<1>1. \A n \in Terminal : n \in CounterNames /\ n # "submitted" /\ n # "batches"
  BY DEF Terminal, CounterNames
<1>2. ASSUME NEW r \in Records, RecordValid(r) PROVE Accounting'
  <2>1. state[r] = "new" /\ state[r] \notin Terminal /\ state[r] \notin Outstanding
    BY <1>2 DEF RecordValid, Terminal, Outstanding
  <2>2. CASE Depth >= MaxQueueSize
    <3>1. /\ state' = [state EXCEPT ![r] = "dropped"]
          /\ counts' = [counts EXCEPT !["submitted"] = @ + 1, !["dropped"] = @ + 1]
      BY <1>2, <2>2 DEF RecordValid, Submit
    <3>2. state'[r] = "dropped" /\ \A x \in Records : x # r => state'[x] = state[x]
      BY <1>0, <3>1
    <3>3. \A n \in Terminal : counts'[n] = counts[n] + One(state'[r] = n)
      BY <1>0, <1>1, <3>1, <3>2 DEF One, Terminal, CounterNames
    <3>4. counts'["submitted"] = counts["submitted"] + 1
      BY <1>0, <3>1 DEF CounterNames
    <3>5. One(state[r] \notin Outstanding /\ state'[r] \in Outstanding \cup Terminal) = 1
      BY <2>1, <3>2 DEF One, Terminal
    <3> QED
      BY <2>1, <3>2, <3>3, <3>4, <3>5, AccountingMoved
  <2>3. CASE ~(Depth >= MaxQueueSize)
    <3> DEFINE q == Append(queue, r)
               st == [state EXCEPT ![r] = "queued"]
    <3>1. /\ Schedule(q, st, drainers, stop # "no")
          /\ counts' = [counts EXCEPT !["submitted"] = @ + 1]
      BY <1>2, <2>3 DEF RecordValid, Submit
    <3>2. q \in Seq(Records) /\ st \in [Records -> RecordStates]
      BY <1>0 DEF RecordStates, Outstanding
    <3>3. \A i \in DOMAIN q : st[q[i]] = "queued"
      <4>1. \A i \in DOMAIN q : q[i] = r \/ (i \in DOMAIN queue /\ q[i] = queue[i])
        BY <1>0
      <4>2. st[r] = "queued" /\ \A i \in DOMAIN queue : st[queue[i]] = "queued"
        BY <1>0
      <4> QED
        BY <4>1, <4>2
    <3>4. \A x \in Records : st[x] = IF x = r THEN "queued" ELSE state[x]
      BY <1>0
    <3> HIDE DEF q, st
    <3>5. \A x \in Records : state'[x] = st[x] \/ (st[x] = "queued" /\ state'[x] = "in_flight")
      BY <3>1, <3>2, <3>3, ScheduleStates
    <3>6. state'[r] \in Outstanding /\ state'[r] \notin Terminal
      BY <3>4, <3>5 DEF Outstanding, Terminal
    <3>7. \A x \in Records : x # r =>
            state'[x] = state[x] \/ (state[x] \in Outstanding /\ state'[x] \in Outstanding)
      BY <3>4, <3>5 DEF Outstanding
    <3>8. \A n \in Terminal : counts'[n] = counts[n] + One(state'[r] = n)
      BY <1>0, <1>1, <3>1, <3>6 DEF One
    <3>9. counts'["submitted"] = counts["submitted"] + 1
      BY <1>0, <3>1 DEF CounterNames
    <3>10. One(state[r] \notin Outstanding /\ state'[r] \in Outstanding \cup Terminal) = 1
      BY <2>1, <3>6 DEF One
    <3> QED
      BY <2>1, <3>6, <3>7, <3>8, <3>9, <3>10, AccountingMoved
  <2> QED
    BY <2>2, <2>3
<1>3. ASSUME NEW r \in Records, RecordInvalid(r) \/ RecordOpaque(r) \/ RecordRefused(r)
      PROVE  Accounting'
  <2>1. state[r] = "new" /\ counts' = counts
        /\ \E s \in {"invalid", "refused"} : state' = [state EXCEPT ![r] = s]
    BY <1>3 DEF RecordInvalid, RecordOpaque, RecordRefused
  <2>2. /\ state'[r] \notin Outstanding \cup Terminal
        /\ state[r] \notin Outstanding \cup Terminal
        /\ \A x \in Records : x # r => state'[x] = state[x]
    BY <1>0, <2>1 DEF Outstanding, Terminal
  <2>3. \A n \in Terminal : counts'[n] = counts[n] + One(state'[r] = n)
    BY <1>0, <1>1, <2>1, <2>2 DEF One
  <2>4. counts["submitted"] \in Nat
    BY <1>0 DEF CounterNames
  <2>5. One(state[r] \notin Outstanding /\ state'[r] \in Outstanding \cup Terminal) = 0
    BY <2>2 DEF One
  <2>6. counts'["submitted"] = counts["submitted"] + 0
    BY <2>1, <2>4
  <2> QED
    BY <2>2, <2>3, <2>5, <2>6, AccountingMoved
<1>4. CASE Settle
  <2> DEFINE v == Head(work)
  <2>1. /\ work # <<>>
        /\ IF Applies(v) THEN /\ state' = [state EXCEPT ![v.rec] = v.to]
                              /\ counts' = [counts EXCEPT ![v.to] = @ + 1]
                         ELSE UNCHANGED <<state, counts>>
    BY <1>4 DEF Settle
  <2>2. v \in Verdicts
    BY <2>1 DEF TypeOK
  <2>3. v.rec \in Records /\ v.to \in Terminal
    BY <2>2 DEF Verdicts
  <2>4. CASE ~Applies(v)
    <3>1. UNCHANGED <<state, counts>>
      BY <2>1, <2>4
    <3> QED
      BY <3>1, AccountingKept DEF SameStatus
  <2>5. CASE Applies(v)
    <3>1. /\ state' = [state EXCEPT ![v.rec] = v.to]
          /\ counts' = [counts EXCEPT ![v.to] = @ + 1]
          /\ state[v.rec] \in Outstanding
      BY <2>1, <2>5 DEF Applies
    <3>2. state'[v.rec] = v.to /\ \A x \in Records : x # v.rec => state'[x] = state[x]
      BY <1>0, <2>3, <3>1
    <3>3. \A n \in Terminal : counts'[n] = counts[n] + One(state'[v.rec] = n)
      BY <1>0, <1>1, <2>3, <3>1, <3>2 DEF One
    <3>4. counts'["submitted"] = counts["submitted"] /\ counts["submitted"] \in Nat
      BY <1>0, <1>1, <2>3, <3>1 DEF CounterNames
    <3>5. One(state[v.rec] \notin Outstanding /\ state'[v.rec] \in Outstanding \cup Terminal) = 0
      BY <3>1 DEF One
    <3>6. counts'["submitted"] = counts["submitted"] + 0
      BY <3>4
    <3>7. state[v.rec] \notin Terminal
      BY <3>1 DEF Outstanding, Terminal
    <3> HIDE DEF v
    <3> QED
      BY <2>3, <3>1, <3>2, <3>3, <3>5, <3>6, <3>7, AccountingMoved
  <2> QED
    BY <2>4, <2>5
<1>5. CASE SinkAnswers
  <2>1. state' = state /\ (counts' = counts \/ CountBatch)
    BY <1>5 DEF SinkAnswers, SinkAccepts, SinkFails, SinkInconclusive
  <2>2. \A n \in CounterNames \ {"batches"} : counts'[n] = counts[n]
    BY <1>0, <2>1 DEF CountBatch
  <2> QED
    BY <2>1, <2>2, AccountingKept DEF SameStatus
<1>6. ASSUME counts' = counts, StartRun(queue, state) \/ \E d, b : Schedule(queue, state, d, b)
      PROVE  Accounting'
  <2>1. \A r \in Records : state'[r] = state[r] \/ (state[r] = "queued" /\ state'[r] = "in_flight")
    BY <1>0, <1>6, ScheduleStates
  <2>2. SameStatus
    BY <2>1 DEF SameStatus, Outstanding
  <2> QED
    BY <1>6, <2>2, AccountingKept
<1>7. CASE UNCHANGED <<state, counts>>
  BY <1>7, AccountingKept DEF SameStatus
<1>8. \/ \E r \in Records : \/ RecordValid(r) \/ RecordInvalid(r)
                            \/ RecordOpaque(r) \/ RecordRefused(r)
      \/ Settle \/ SinkAnswers
      \/ UNCHANGED <<state, counts>>
      \/ counts' = counts /\ (StartRun(queue, state) \/ \E d, b : Schedule(queue, state, d, b))
  <2>1. CASE UserCall
    BY <2>1 DEF UserCall, FlushDrains, FlushJoins, Shutdown
  <2>2. CASE LoopStep
    BY <2>2 DEF LoopStep, NotifyDelivered, EndDeliver, RunResumes, FlushReturns, FlushJoined,
                StopAbandons, StopAwaitsCallbacks
  <2>3. CASE CallbackReturns \/ CallbackSettles \/ LingerFires \/ UNCHANGED vars
    BY <2>3 DEF CallbackReturns, CallbackSettles, LingerFires, vars
  <2>4. CASE StopExpires \/ StopCloses \/ StopEnds \/ \E c \in Flushes : FlushExpires(c)
    BY <2>4 DEF StopExpires, StopCloses, StopEnds, FlushExpires
  <2> QED
    BY <2>1, <2>2, <2>3, <2>4 DEF Next
<1> QED
  BY <1>2, <1>3, <1>4, <1>5, <1>6, <1>7, <1>8

(* Initially nothing has been submitted. *)
LEMMA AccountingInit == Init => Accounting
<1> SUFFICES ASSUME Init PROVE Accounting
  OBVIOUS
<1>1. /\ In({"sent"}) = {} /\ In({"dropped"}) = {} /\ In({"unknown"}) = {}
      /\ In(Outstanding) = {}
  BY DEF Init, In, Outstanding
<1>2. counts["submitted"] = 0 /\ counts["sent"] = 0 /\ counts["dropped"] = 0
      /\ counts["unknown"] = 0
  BY DEF Init, CounterNames
<1> QED
  BY <1>1, <1>2, FS_EmptySet DEF Accounting

(* DeliveryStats is exact in every reachable state: every submission is    *)
(* counted in exactly one of sent, dropped and unknown, or is outstanding. *)
THEOREM CountersExact == Spec => []Accounting
<1>1. Spec => [](TypeOK /\ PlaceInv)
  <2>1. Placement /\ FlushTruthful /\ ShutdownAccounts => PlaceInv
    BY DEF PlaceInv
  <2> QED
    BY <2>1, TypeCorrect, RecordsPlaced, PTL
<1> QED
  BY <1>1, AccountingInit, AccountingNext, PTL DEF Spec
-----------------------------------------------------------------------------
(* The file sinks, which the client delivers to (module FileSink).          *)

(* Every record of every batch. *)
Written == UNION {Range(Batches[b]) : b \in DOMAIN Batches}

Texts == {"line", "torn"} \X Written

Answers == {"none", "accepted", "retryable_failure", "permanent_failure", "closed"}

FileTypes ==
  /\ runtime \in {"ts", "py"} /\ closing \in BOOLEAN /\ closed \in BOOLEAN
  /\ asked \in Seq(DOMAIN Batches) /\ chain \in Seq(DOMAIN Batches)
  /\ answer \in [DOMAIN Batches -> Answers]
  /\ file \in Seq(Texts) /\ buffer \in Seq(Texts) /\ failures \in Nat

(* b comes before c. *)
Before(batches, b, c) == \E k, l \in 1..Len(batches) : k < l /\ batches[k] = b /\ batches[l] = c

(* The chain holds the batches without an answer, in the order they were asked for, and none
   that was asked for after one of them has reached the file. *)
ChainInv ==
  /\ \A k, l \in 1..Len(asked) : asked[k] = asked[l] => k = l
  /\ \A b \in DOMAIN Batches : b \notin Range(asked) => answer[b] = "none"
  /\ \A b \in Range(asked) : answer[b] = "none" <=> \E k \in 1..Len(chain) : chain[k] = b
  /\ \A k \in 1..Len(chain) : chain[k] \in Range(asked)
  /\ \A k, l \in 1..Len(chain) : k < l => Before(asked, chain[k], chain[l])
  /\ \A b, c \in DOMAIN Batches : Before(asked, b, c) /\ answer[b] = "none" => answer[c] \in {"none", "closed"}
  /\ runtime = "py" => chain = <<>>
  /\ closed => closing /\ chain = <<>>

(* The lines of batch b are in the file, after place n. *)
Placed(b, n) ==
  /\ n \in Nat /\ n + Len(Batches[b]) <= Len(file)
  /\ \A j \in 1..Len(Batches[b]) : file[n + j] = <<"line", Batches[b][j]>>

Torn == {k \in 1..Len(file) : file[k][1] = "torn"}

(* What is in the file, or on its way there, was tried to be written; accepted batches are
   there whole and in order; each failure tears one line at most, Python's none. *)
TextInv ==
  /\ \A b \in DOMAIN Batches : answer[b] \in {"none", "permanent_failure", "closed"} =>
       /\ \A k \in 1..Len(file) : file[k][2] \notin Range(Batches[b])
       /\ \A k \in 1..Len(buffer) : buffer[k][2] \notin Range(Batches[b])
  /\ \A b \in Accepted : \E n : Placed(b, n)
  /\ \A b, c \in Accepted : Before(asked, b, c) =>
       \E m, n \in 1..Len(file) : /\ m < n /\ file[m] = <<"line", Batches[b][1]>>
                                  /\ file[n] = <<"line", Batches[c][1]>>
  /\ IsFiniteSet(Torn) /\ Cardinality(Torn) <= failures
  /\ runtime = "py" => Torn = {} /\ \A k \in 1..Len(buffer) : buffer[k][1] = "line"

FileInv == FileTypes /\ ChainInv /\ TextInv
-----------------------------------------------------------------------------
(* A batch is a sequence of records, and its text one line for each. *)
LEMMA BatchIs ==
  ASSUME NEW b \in DOMAIN Batches
  PROVE  /\ Batches[b] \in Seq(Written) /\ Len(Batches[b]) \in Nat \ {0}
         /\ Range(Batches[b]) = {Batches[b][j] : j \in 1..Len(Batches[b])}
         /\ Lines(Batches[b]) \in Seq(Texts) /\ Len(Lines(Batches[b])) = Len(Batches[b])
         /\ \A j \in 1..Len(Batches[b]) : Lines(Batches[b])[j] = <<"line", Batches[b][j]>>
<1> DEFINE batch == Batches[b]
<1>1. batch \in Seq(Range(batch)) /\ batch # <<>>
  BY BatchShape
<1>2. Range(batch) \subseteq Written
  BY DEF Written
<1>3. batch \in Seq(Written) /\ DOMAIN batch = 1..Len(batch) /\ Len(batch) \in Nat \ {0}
  <2> HIDE DEF batch
  <2>1. DOMAIN batch = 1..Len(batch) /\ Len(batch) \in Nat \ {0}
    BY <1>1
  <2>2. \A j \in 1..Len(batch) : batch[j] \in Written
    BY <1>1, <1>2
  <2>3. batch = [j \in 1..Len(batch) |-> batch[j]]
    BY <1>1
  <2> QED
    BY <2>1, <2>2, <2>3
<1>4. \A j \in 1..Len(batch) : <<"line", batch[j]>> \in Texts
  BY <1>3 DEF Texts
<1> HIDE DEF batch
<1>5. Lines(batch) = [j \in 1..Len(batch) |-> <<"line", batch[j]>>]
  BY <1>3 DEF Lines
<1>6. Lines(batch) \in Seq(Texts) /\ Len(Lines(batch)) = Len(batch)
  BY <1>3, <1>4, <1>5
<1>7. Range(batch) = {batch[j] : j \in 1..Len(batch)}
  BY <1>3 DEF Range
<1> QED
  BY <1>3, <1>5, <1>6, <1>7 DEF batch

(* What a failing write leaves behind is the start of the batch; its last line may be torn. *)
LEMMA CutIs ==
  ASSUME NEW b \in DOMAIN Batches, NEW part \in Cut(Lines(Batches[b]))
  PROVE  /\ part \in Seq(Texts)
         /\ \A j \in 1..Len(part) : part[j][2] \in Range(Batches[b])
         /\ \A j \in 1..Len(part) : part[j][1] = "torn" => j = Len(part)
<1> DEFINE batch == Batches[b]
           text == Lines(batch)
<1>1. /\ batch \in Seq(Written) /\ Len(batch) \in Nat
      /\ Range(batch) = {batch[j] : j \in 1..Len(batch)}
      /\ text \in Seq(Texts) /\ Len(text) = Len(batch)
      /\ \A j \in 1..Len(batch) : text[j] = <<"line", batch[j]>>
  BY BatchIs
<1>2. PICK n \in 0..(Len(text) - 1) :
        part = SubSeq(text, 1, n) \/ part = Append(SubSeq(text, 1, n), <<"torn", text[n + 1][2]>>)
  BY DEF Cut
<1> HIDE DEF batch, text
<1> DEFINE start == SubSeq(text, 1, n)
           rest == <<"torn", text[n + 1][2]>>
<1>3. n \in Nat /\ n + 1 \in 1..Len(batch)
  BY <1>1, <1>2
<1>4. /\ start \in Seq(Texts) /\ Len(start) = n
      /\ \A j \in 1..n : start[j] = <<"line", batch[j]>> /\ batch[j] \in Range(batch)
  <2>1. start \in Seq(Texts) /\ Len(start) = n /\ \A j \in 1..n : start[j] = text[j]
    BY <1>1, <1>3
  <2>2. \A j \in 1..n : j \in 1..Len(batch)
    BY <1>1, <1>3
  <2> QED
    BY <1>1, <2>1, <2>2
<1>5. rest = <<"torn", batch[n + 1]>> /\ batch[n + 1] \in Range(batch) /\ batch[n + 1] \in Written
  BY <1>1, <1>3
<1>6. rest \in Texts
  BY <1>5 DEF Texts
<1> HIDE DEF start, rest
<1>7. CASE part = start
  BY <1>3, <1>4, <1>7 DEF batch
<1>8. CASE part = Append(start, rest)
  <2>1. /\ part \in Seq(Texts) /\ Len(part) = n + 1 /\ part[n + 1] = rest
        /\ \A j \in 1..n : part[j] = start[j]
    BY <1>3, <1>4, <1>6, <1>8
  <2>2. \A j \in 1..Len(part) : j \in 1..n \/ j = n + 1
    BY <1>3, <2>1
  <2> QED
    BY <1>3, <1>4, <1>5, <2>1, <2>2 DEF batch
<1> QED
  BY <1>2, <1>7, <1>8 DEF start, rest

(* The file only grows. *)
LEMMA FileGrows ==
  ASSUME FileTypes, NEW part \in Seq(Texts), file' = file \o part
  PROVE  /\ file' \in Seq(Texts) /\ Len(file') = Len(file) + Len(part)
         /\ Len(file) \in Nat /\ Len(part) \in Nat
         /\ \A k \in 1..Len(file) : k \in 1..Len(file') /\ file'[k] = file[k]
         /\ \A j \in 1..Len(part) : Len(file) + j \in 1..Len(file') /\ file'[Len(file) + j] = part[j]
         /\ \A k \in 1..Len(file') : k \in 1..Len(file) \/ \E j \in 1..Len(part) : k = Len(file) + j
<1>1. file \in Seq(Texts)
  BY DEF FileTypes
<1> HIDE DEF Texts
<1>2. Len(file) \in Nat /\ Len(part) \in Nat /\ Len(file') = Len(file) + Len(part) /\ file' \in Seq(Texts)
  BY <1>1
<1>3. \A k \in 1..Len(file) : k \in 1..Len(file') /\ file'[k] = file[k]
  BY <1>1, <1>2
<1>4. \A j \in 1..Len(part) : Len(file) + j \in 1..Len(file') /\ file'[Len(file) + j] = part[j]
  BY <1>1, <1>2
<1>5. \A k \in 1..Len(file') : k \notin 1..Len(file) =>
         k - Len(file) \in 1..Len(part) /\ k = Len(file) + (k - Len(file))
  BY <1>2
<1> QED
  BY <1>2, <1>3, <1>4, <1>5

(* What is in the file stays where it is. *)
LEMMA PlacedStays ==
  ASSUME FileTypes, NEW part \in Seq(Texts), file' = file \o part, NEW b \in DOMAIN Batches, NEW n,
         Placed(b, n)
  PROVE  Placed(b, n)'
<1>1. Len(Batches[b]) \in Nat
  BY BatchIs
<1>2. n \in Nat /\ n + Len(Batches[b]) <= Len(file)
  BY DEF Placed
<1>3. \A j \in 1..Len(Batches[b]) : n + j \in 1..Len(file)
  BY <1>1, <1>2, FileGrows
<1>4. n + Len(Batches[b]) <= Len(file')
  BY <1>1, <1>2, FileGrows
<1>5. \A j \in 1..Len(Batches[b]) : file'[n + j] = file[n + j]
  BY <1>3, FileGrows
<1> QED
  BY <1>2, <1>4, <1>5 DEF Placed

(* deliver() is called for one more batch. *)
LEMMA AskedMore ==
  ASSUME FileTypes, ChainInv, NEW b \in DOMAIN Batches, b \notin Range(asked),
         asked' = Append(asked, b)
  PROVE  /\ asked' \in Seq(DOMAIN Batches) /\ Range(asked') = Range(asked) \cup {b}
         /\ \A k, l \in 1..Len(asked') : asked'[k] = asked'[l] => k = l
         /\ \A c, d : Before(asked', c, d) <=> Before(asked, c, d) \/ (d = b /\ c \in Range(asked))
         /\ \A c, d : Before(asked, c, d) => c \in Range(asked) /\ d \in Range(asked)
<1>1. asked \in Seq(DOMAIN Batches) /\ \A k, l \in 1..Len(asked) : asked[k] = asked[l] => k = l
  BY DEF FileTypes, ChainInv
<1>2. /\ asked' \in Seq(DOMAIN Batches) /\ Len(asked) \in Nat /\ Len(asked') = Len(asked) + 1
      /\ \A k \in 1..Len(asked) : asked'[k] = asked[k]
      /\ asked'[Len(asked) + 1] = b
      /\ DOMAIN asked = 1..Len(asked) /\ DOMAIN asked' = 1..Len(asked')
  BY <1>1
<1>3. \A k : k \in 1..Len(asked') <=> k \in 1..Len(asked) \/ k = Len(asked) + 1
  BY <1>2
<1>4. \A k \in 1..Len(asked) : asked[k] # b
  BY <1>2 DEF Range
<1>5. Range(asked') = Range(asked) \cup {b}
  BY <1>2, <1>3 DEF Range
<1>6. \A k, l \in 1..Len(asked') : asked'[k] = asked'[l] => k = l
  BY <1>1, <1>2, <1>3, <1>4
<1>7. \A c, d : Before(asked, c, d) => c \in Range(asked) /\ d \in Range(asked)
  BY <1>2 DEF Before, Range
<1>8. ASSUME NEW c, NEW d, Before(asked', c, d)
      PROVE  Before(asked, c, d) \/ (d = b /\ c \in Range(asked))
  <2>1. PICK k, l \in 1..Len(asked') : k < l /\ asked'[k] = c /\ asked'[l] = d
    BY <1>8 DEF Before
  <2>2. k \in 1..Len(asked) /\ asked[k] = c
    BY <1>2, <1>3, <2>1
  <2>3. CASE l \in 1..Len(asked)
    BY <1>2, <2>1, <2>2, <2>3 DEF Before
  <2>4. CASE l = Len(asked) + 1
    BY <1>2, <2>1, <2>2, <2>4 DEF Range
  <2> QED
    BY <1>3, <2>3, <2>4
<1>9. ASSUME NEW c, NEW d, Before(asked, c, d)
      PROVE  Before(asked', c, d)
  <2>1. PICK k, l \in 1..Len(asked) : k < l /\ asked[k] = c /\ asked[l] = d
    BY <1>9 DEF Before
  <2> QED
    BY <1>2, <1>3, <2>1 DEF Before
<1>10. ASSUME NEW c \in Range(asked)
       PROVE  Before(asked', c, b)
  <2>1. PICK k \in 1..Len(asked) : asked[k] = c
    BY <1>2 DEF Range
  <2>2. k < Len(asked) + 1 /\ asked'[k] = c
    BY <1>2, <2>1
  <2> QED
    BY <1>2, <1>3, <2>1, <2>2 DEF Before
<1> QED
  BY <1>2, <1>5, <1>6, <1>7, <1>8, <1>9, <1>10

(* A write of batch b, whatever comes of it: part is what reaches the file. *)
LEMMA TextWritten ==
  ASSUME FileInv, NEW b \in DOMAIN Batches, answer[b] = "none",
         NEW res \in {"accepted", "retryable_failure"}, answer' = [answer EXCEPT ![b] = res],
         NEW part \in Seq(Texts), file' = file \o part, buffer' \in Seq(Texts),
         failures' \in {failures, failures + 1}, runtime' = runtime,
         \A j \in 1..Len(part) : part[j][2] \in Range(Batches[b])
                                 \/ \E k \in 1..Len(buffer) : part[j] = buffer[k],
         \A j \in 1..Len(buffer') : buffer'[j][2] \in Range(Batches[b])
                                    \/ \E k \in 1..Len(buffer) : buffer'[j] = buffer[k],
         \A j \in 1..Len(part) : part[j][1] = "torn" =>
           runtime = "ts" /\ j = Len(part) /\ failures' = failures + 1,
         \A j \in 1..Len(buffer') : runtime = "py" => buffer'[j][1] = "line",
         res = "accepted" =>
           \E m \in Nat : /\ m + Len(Batches[b]) <= Len(part)
                          /\ \A j \in 1..Len(Batches[b]) : part[m + j] = <<"line", Batches[b][j]>>,
         \A c \in Accepted \cup {b} : ~Before(asked', b, c),
         \A c, d : d # b => (Before(asked', c, d) => Before(asked, c, d))
  PROVE  TextInv'
<1>1. /\ file' \in Seq(Texts) /\ Len(file') = Len(file) + Len(part)
      /\ Len(file) \in Nat /\ Len(part) \in Nat
      /\ \A k \in 1..Len(file) : k \in 1..Len(file') /\ file'[k] = file[k]
      /\ \A j \in 1..Len(part) : Len(file) + j \in 1..Len(file') /\ file'[Len(file) + j] = part[j]
      /\ \A k \in 1..Len(file') : k \in 1..Len(file) \/ \E j \in 1..Len(part) : k = Len(file) + j
  BY FileGrows DEF FileInv
<1>2. /\ answer'[b] = res /\ \A c \in DOMAIN Batches : c # b => answer'[c] = answer[c]
  BY DEF FileInv, FileTypes
<1>3. Accepted' = IF res = "accepted" THEN Accepted \cup {b} ELSE Accepted
  BY <1>2 DEF Accepted
<1>4. ASSUME NEW c \in DOMAIN Batches, answer'[c] \in {"none", "permanent_failure", "closed"}
      PROVE  /\ \A k \in 1..Len(file') : file'[k][2] \notin Range(Batches[c])
             /\ \A k \in 1..Len(buffer') : buffer'[k][2] \notin Range(Batches[c])
  <2>1. c # b /\ answer[c] \in {"none", "permanent_failure", "closed"}
    BY <1>2, <1>4
  <2>2. Range(Batches[b]) \cap Range(Batches[c]) = {}
    BY <2>1, BatchShape
  <2>3. /\ \A k \in 1..Len(file) : file[k][2] \notin Range(Batches[c])
        /\ \A k \in 1..Len(buffer) : buffer[k][2] \notin Range(Batches[c])
    BY <2>1 DEF FileInv, TextInv
  <2>4. \A j \in 1..Len(part) : part[j][2] \notin Range(Batches[c])
    BY <2>2, <2>3
  <2>5. \A k \in 1..Len(buffer') : buffer'[k][2] \notin Range(Batches[c])
    BY <2>2, <2>3
  <2> QED
    BY <1>1, <2>3, <2>4, <2>5
<1>5. \A c \in Accepted : \E n : Placed(c, n)'
  <2> TAKE c \in Accepted
  <2>1. PICK n : Placed(c, n)
    BY DEF FileInv, TextInv
  <2>2. c \in DOMAIN Batches
    BY DEF Accepted
  <2> QED
    BY <2>1, <2>2, PlacedStays DEF FileInv
<1>6. ASSUME res = "accepted"
      PROVE  \E n \in Nat : n >= Len(file) /\ Placed(b, n)'
  <2>1. PICK m \in Nat : /\ m + Len(Batches[b]) <= Len(part)
                         /\ \A j \in 1..Len(Batches[b]) : part[m + j] = <<"line", Batches[b][j]>>
    BY <1>6
  <2>2. Len(Batches[b]) \in Nat
    BY BatchIs
  <2> DEFINE n == Len(file) + m
  <2>3. n \in Nat /\ n >= Len(file) /\ n + Len(Batches[b]) <= Len(file')
    BY <1>1, <2>1, <2>2
  <2>4. \A j \in 1..Len(Batches[b]) : file'[n + j] = <<"line", Batches[b][j]>>
    <3> TAKE j \in 1..Len(Batches[b])
    <3>1. m + j \in 1..Len(part) /\ n + j = Len(file) + (m + j)
      BY <1>1, <2>1, <2>2
    <3> QED
      BY <1>1, <2>1, <3>1
  <2> QED
    BY <2>3, <2>4 DEF Placed
<1>7. ASSUME NEW c \in Accepted', NEW d \in Accepted', Before(asked', c, d)
      PROVE  \E m, n \in 1..Len(file') : /\ m < n /\ file'[m] = <<"line", Batches[c][1]>>
                                         /\ file'[n] = <<"line", Batches[d][1]>>
  <2>1. CASE d # b
    <3>1. c # b
      BY <1>3, <1>7, <2>1
    <3>2. c \in Accepted /\ d \in Accepted /\ Before(asked, c, d)
      BY <1>3, <1>7, <2>1, <3>1
    <3>3. PICK m, n \in 1..Len(file) : /\ m < n /\ file[m] = <<"line", Batches[c][1]>>
                                       /\ file[n] = <<"line", Batches[d][1]>>
      BY <3>2 DEF FileInv, TextInv
    <3>4. m \in 1..Len(file') /\ n \in 1..Len(file') /\ file'[m] = file[m] /\ file'[n] = file[n]
      BY <1>1
    <3> QED
      BY <3>3, <3>4
  <2>2. CASE d = b /\ c # b
    <3>1. c \in Accepted /\ res = "accepted"
      <4>1. b \notin Accepted
        BY DEF Accepted
      <4> QED
        BY <1>3, <2>2, <4>1
    <3>2. PICK m : Placed(c, m)
      BY <3>1 DEF FileInv, TextInv
    <3>3. c \in DOMAIN Batches /\ Len(Batches[c]) \in Nat \ {0} /\ Len(Batches[b]) \in Nat \ {0}
      BY <3>1, BatchIs DEF Accepted
    <3>4. m + 1 \in 1..Len(file) /\ file[m + 1] = <<"line", Batches[c][1]>>
      BY <1>1, <3>2, <3>3 DEF Placed
    <3>5. PICK n \in Nat : n >= Len(file) /\ Placed(b, n)'
      BY <1>6, <3>1
    <3>6. n + 1 \in 1..Len(file') /\ file'[n + 1] = <<"line", Batches[b][1]>>
      <4>1. n + Len(Batches[b]) <= Len(file')
        BY <3>5 DEF Placed
      <4>3. \A j \in 1..Len(Batches[b]) : file'[n + j] = <<"line", Batches[b][j]>>
        BY <3>5 DEF Placed
      <4>2. 1 \in 1..Len(Batches[b]) /\ Len(file') \in Nat
        BY <1>1, <3>3
      <4>4. file'[n + 1] = <<"line", Batches[b][1]>>
        BY <4>2, <4>3
      <4>5. Len(Batches[b]) \in Nat /\ Len(Batches[b]) >= 1
        BY <3>3
      <4>6. n + 1 \in 1..Len(file')
        BY <3>5, <4>1, <4>2, <4>5
      <4> QED
        BY <4>4, <4>6
    <3>7. m + 1 < n + 1
      BY <1>1, <3>4, <3>5, <3>2 DEF Placed
    <3>8. m + 1 \in 1..Len(file') /\ file'[m + 1] = <<"line", Batches[c][1]>>
      BY <1>1, <3>4
    <3> QED
      BY <2>2, <3>6, <3>7, <3>8
  <2>3. CASE d = b /\ c = b
    <3>1. res = "accepted" /\ Before(asked', b, b)
      <4>1. b \notin Accepted
        BY DEF Accepted
      <4> QED
        BY <1>3, <1>7, <2>3, <4>1
    <3> QED
      BY <3>1
  <2> QED
    BY <2>1, <2>2, <2>3
<1>8. IsFiniteSet(Torn') /\ Cardinality(Torn') <= failures' /\ (runtime = "py" => Torn' = {})
  <2>1. IsFiniteSet(Torn) /\ Cardinality(Torn) <= failures /\ failures \in Nat
        /\ (runtime = "py" => Torn = {})
    BY DEF FileInv, TextInv, FileTypes
  <2> DEFINE new == {j \in 1..Len(part) : part[j][1] = "torn"}
             last == Len(file) + Len(part)
  <2>2. \A k : k \in Torn' <=> k \in Torn \/ \E j \in new : k = Len(file) + j
    <3>1. ASSUME NEW k \in Torn'
          PROVE  k \in Torn \/ \E j \in new : k = Len(file) + j
      <4>1. k \in 1..Len(file') /\ file'[k][1] = "torn"
        BY DEF Torn
      <4>2. CASE k \in 1..Len(file)
        BY <1>1, <4>1, <4>2 DEF Torn
      <4>3. CASE \E j \in 1..Len(part) : k = Len(file) + j
        BY <1>1, <4>1, <4>3
      <4> QED
        BY <1>1, <4>1, <4>2, <4>3
    <3>2. \A k \in Torn : k \in Torn'
      BY <1>1 DEF Torn
    <3>3. ASSUME NEW j \in new
          PROVE  Len(file) + j \in Torn'
      <4>1. j \in 1..Len(part) /\ part[j][1] = "torn"
        OBVIOUS
      <4>2. Len(file) + j \in 1..Len(file') /\ file'[Len(file) + j][1] = "torn"
        BY <1>1, <4>1
      <4> QED
        BY <4>2 DEF Torn
    <3> HIDE DEF new
    <3> QED
      BY <3>1, <3>2, <3>3
  <2>3. CASE new = {}
    <3>1. Torn' = Torn
      BY <2>2, <2>3
    <3>2. Cardinality(Torn) \in Nat
      BY <2>1, FS_CardinalityType
    <3>3. Cardinality(Torn) <= failures'
      BY <2>1, <3>2
    <3> QED
      BY <2>1, <3>1, <3>3
  <2>4. CASE new # {}
    <3>1. new = {Len(part)} /\ failures' = failures + 1 /\ runtime = "ts"
      BY <2>4
    <3>2. Torn' = Torn \cup {last}
      BY <2>2, <3>1
    <3>3. last \notin Torn
      <4>1. Len(part) # 0
        BY <3>1
      <4> QED
        BY <1>1, <4>1 DEF Torn
    <3>4. IsFiniteSet(Torn') /\ Cardinality(Torn') = Cardinality(Torn) + 1
      BY <2>1, <3>2, <3>3, FS_AddElement
    <3>5. Cardinality(Torn) \in Nat
      BY <2>1, FS_CardinalityType
    <3>6. runtime # "py"
      BY <3>1
    <3> HIDE DEF last, new
    <3> QED
      BY <2>1, <3>1, <3>4, <3>5, <3>6
  <2> QED
    BY <2>3, <2>4
<1>9. \A c \in Accepted' : \E n : Placed(c, n)'
  BY <1>3, <1>5, <1>6
<1> QED
  BY <1>4, <1>7, <1>8, <1>9 DEF TextInv

(* A step that leaves the text alone. *)
LEMMA TextSame ==
  ASSUME FileInv, UNCHANGED <<runtime, file, buffer>>, failures' = failures \/ failures' = failures + 1,
         \A c \in DOMAIN Batches : answer'[c] \in {"none", "permanent_failure", "closed"} =>
                                   answer[c] \in {"none", "permanent_failure", "closed"},
         \A c \in Accepted' : c \in Accepted,
         \A c, d \in Accepted : Before(asked', c, d) => Before(asked, c, d)
  PROVE  TextInv'
<1>1. FileTypes /\ TextInv
  BY DEF FileInv
<1>2. \A c \in DOMAIN Batches : answer'[c] \in {"none", "permanent_failure", "closed"} =>
        /\ \A k \in 1..Len(file') : file'[k][2] \notin Range(Batches[c])
        /\ \A k \in 1..Len(buffer') : buffer'[k][2] \notin Range(Batches[c])
  BY <1>1 DEF TextInv
<1>3. \A c \in Accepted' : \E n : Placed(c, n)'
  <2> TAKE c \in Accepted'
  <2>1. PICK n : Placed(c, n)
    BY <1>1 DEF TextInv
  <2>2. Placed(c, n)'
    BY <2>1 DEF Placed
  <2> QED
    BY <2>2
<1>4. \A c, d \in Accepted' : Before(asked', c, d) =>
        \E m, n \in 1..Len(file') : /\ m < n /\ file'[m] = <<"line", Batches[c][1]>>
                                    /\ file'[n] = <<"line", Batches[d][1]>>
  <2> TAKE c, d \in Accepted'
  <2> HAVE Before(asked', c, d)
  <2>1. PICK m, n \in 1..Len(file) : /\ m < n /\ file[m] = <<"line", Batches[c][1]>>
                                     /\ file[n] = <<"line", Batches[d][1]>>
    BY <1>1 DEF TextInv
  <2> QED
    BY <2>1
<1>5. IsFiniteSet(Torn') /\ Cardinality(Torn') <= failures'
  <2>1. Torn' = Torn
    BY DEF Torn
  <2>2. Cardinality(Torn) \in Nat /\ failures \in Nat
    BY <1>1, FS_CardinalityType DEF TextInv, FileTypes
  <2> QED
    BY <1>1, <2>1, <2>2 DEF TextInv
<1>6. runtime' = "py" => Torn' = {} /\ \A k \in 1..Len(buffer') : buffer'[k][1] = "line"
  BY <1>1 DEF TextInv, Torn
<1> QED
  BY <1>2, <1>3, <1>4, <1>5, <1>6 DEF TextInv

(* TypeScript's deliver(). *)
LEMMA DeliverStep ==
  ASSUME FileInv, NEW b \in DOMAIN Batches, Deliver(b)
  PROVE  FileInv'
<1>1. /\ runtime = "ts" /\ b \notin Range(asked) /\ asked' = Append(asked, b)
      /\ UNCHANGED <<runtime, closing, closed, file, buffer, failures>>
      /\ FileTypes /\ ChainInv /\ TextInv
  BY DEF Deliver, FileInv
<1>2. /\ asked' \in Seq(DOMAIN Batches) /\ Range(asked') = Range(asked) \cup {b}
      /\ \A k, l \in 1..Len(asked') : asked'[k] = asked'[l] => k = l
      /\ \A c, d : Before(asked', c, d) <=> Before(asked, c, d) \/ (d = b /\ c \in Range(asked))
      /\ \A c, d : Before(asked, c, d) => c \in Range(asked) /\ d \in Range(asked)
  BY <1>1, AskedMore
<1>3. answer[b] = "none" /\ \A k \in 1..Len(chain) : chain[k] # b
  BY <1>1 DEF ChainInv
<1>4. CASE closing
  <2>1. answer' = [answer EXCEPT ![b] = "closed"] /\ chain' = chain
    BY <1>4 DEF Deliver, Answer
  <2>2. answer'[b] = "closed" /\ \A c \in DOMAIN Batches : c # b => answer'[c] = answer[c]
    BY <1>1, <2>1 DEF FileTypes
  <2>3. FileTypes'
    BY <1>1, <1>2, <2>1 DEF FileTypes, Answers
  <2>4. ChainInv'
    <3>1. \A c \in DOMAIN Batches : c \notin Range(asked') => answer'[c] = "none"
      BY <1>1, <1>2, <2>2 DEF ChainInv
    <3>2. \A c \in Range(asked') : answer'[c] = "none" <=> \E k \in 1..Len(chain) : chain[k] = c
      <4>1. \A c \in Range(asked) : c \in DOMAIN Batches /\ c # b
        BY <1>1 DEF FileTypes, Range
      <4> QED
        BY <1>1, <1>2, <1>3, <2>2, <4>1 DEF ChainInv
    <3>3. \A c, d \in DOMAIN Batches : Before(asked', c, d) /\ answer'[c] = "none" => answer'[d] \in {"none", "closed"}
      BY <1>1, <1>2, <1>3, <2>2 DEF ChainInv
    <3>4. \A k, l \in 1..Len(chain) : k < l => Before(asked', chain[k], chain[l])
      BY <1>1, <1>2 DEF ChainInv
    <3> QED
      BY <1>1, <1>2, <2>1, <3>1, <3>2, <3>3, <3>4 DEF ChainInv
  <2>5. Accepted' = Accepted
    BY <1>3, <2>2 DEF Accepted
  <2>6. TextInv'
    <3>1. \A c \in DOMAIN Batches : answer'[c] \in {"none", "permanent_failure", "closed"} =>
                                    answer[c] \in {"none", "permanent_failure", "closed"}
      BY <1>3, <2>2
    <3>2. \A c \in Accepted : c # b
      BY <1>3 DEF Accepted
    <3>3. \A c, d \in Accepted : Before(asked', c, d) => Before(asked, c, d)
      BY <1>2, <3>2
    <3> QED
      BY <1>1, <2>5, <3>1, <3>3, TextSame
  <2> QED
    BY <2>3, <2>4, <2>6 DEF FileInv
<1>5. CASE ~closing
  <2>1. chain' = Append(chain, b) /\ answer' = answer
    BY <1>5 DEF Deliver
  <2>2. /\ chain' \in Seq(DOMAIN Batches) /\ Len(chain) \in Nat /\ Len(chain') = Len(chain) + 1
        /\ chain'[Len(chain) + 1] = b /\ \A k \in 1..Len(chain) : chain'[k] = chain[k]
    BY <1>1, <2>1 DEF FileTypes
  <2>3. FileTypes'
    BY <1>1, <1>2, <2>1, <2>2 DEF FileTypes
  <2>4. \A k : k \in 1..Len(chain') <=> k \in 1..Len(chain) \/ k = Len(chain) + 1
    BY <2>2
  <2>5. ChainInv'
    <3>1. \A c \in DOMAIN Batches : c \notin Range(asked') => answer'[c] = "none"
      BY <1>1, <1>2, <2>1 DEF ChainInv
    <3>2. \A c \in Range(asked') : answer'[c] = "none" <=> \E k \in 1..Len(chain') : chain'[k] = c
      BY <1>1, <1>2, <1>3, <2>1, <2>2, <2>4 DEF ChainInv
    <3>3. \A c, d \in DOMAIN Batches : Before(asked', c, d) /\ answer'[c] = "none" => answer'[d] \in {"none", "closed"}
      BY <1>1, <1>2, <1>3, <2>1 DEF ChainInv
    <3>4. \A k, l \in 1..Len(chain') : k < l => Before(asked', chain'[k], chain'[l])
      <4> TAKE k, l \in 1..Len(chain')
      <4> HAVE k < l
      <4>1. k \in 1..Len(chain) /\ chain'[k] = chain[k] /\ chain[k] \in Range(asked)
        BY <1>1, <2>2, <2>4 DEF ChainInv
      <4>2. CASE l \in 1..Len(chain)
        BY <1>1, <1>2, <2>2, <4>1, <4>2 DEF ChainInv
      <4>3. CASE l = Len(chain) + 1
        BY <1>2, <2>2, <4>1, <4>3
      <4> QED
        BY <2>4, <4>2, <4>3
    <3>5. \A k \in 1..Len(chain') : chain'[k] \in Range(asked')
      BY <1>1, <1>2, <2>2, <2>4 DEF ChainInv
    <3>6. ~closed
      BY <1>1, <1>5 DEF ChainInv
    <3> QED
      BY <1>1, <1>2, <3>1, <3>2, <3>3, <3>4, <3>5, <3>6 DEF ChainInv
  <2>6. TextInv'
    <3>1. Accepted' = Accepted /\ \A c \in Accepted : c # b
      BY <1>3, <2>1 DEF Accepted
    <3>2. \A c, d \in Accepted : Before(asked', c, d) => Before(asked, c, d)
      BY <1>2, <3>1
    <3> QED
      BY <1>1, <2>1, <3>1, <3>2, TextSame
  <2> QED
    BY <2>3, <2>5, <2>6 DEF FileInv
<1> QED
  BY <1>4, <1>5

(* The batch at the head of the chain is answered; the ones behind it were asked for later. *)
LEMMA WriteStep ==
  ASSUME FileInv, Write
  PROVE  FileInv'
<1> DEFINE b == Head(chain)
           text == Encode(Batches[b])
<1>1. /\ runtime = "ts" /\ chain # <<>> /\ chain' = Tail(chain)
      /\ UNCHANGED <<runtime, closing, closed, buffer, asked>>
      /\ FileTypes /\ ChainInv /\ TextInv
  BY DEF Write, FileInv
<1>2. /\ b \in DOMAIN Batches /\ Len(chain) \in Nat \ {0} /\ b = chain[1]
      /\ chain' \in Seq(DOMAIN Batches) /\ Len(chain') = Len(chain) - 1
      /\ \A k \in 1..Len(chain') : k + 1 \in 1..Len(chain) /\ chain'[k] = chain[k + 1]
  BY <1>1 DEF FileTypes
<1>3. \A c, d : Before(asked', c, d) <=> Before(asked, c, d)
  BY <1>1 DEF Before
<1>4. PICK res \in Answers \ {"none", "closed"} : answer' = [answer EXCEPT ![b] = res]
  BY DEF Write, Answer, Answers
<1> HIDE DEF b
<1>5. answer'[b] = res /\ \A c \in DOMAIN Batches : c # b => answer'[c] = answer[c]
  BY <1>1, <1>2, <1>4 DEF FileTypes
<1>6. answer[b] = "none" /\ b \in Range(asked)
  <2>1. 1 \in 1..Len(chain)
    BY <1>2
  <2> QED
    BY <1>1, <1>2, <2>1 DEF ChainInv
<1>7. \A c, d : Before(asked, c, d) /\ Before(asked, d, c) => FALSE
  <2>1. asked \in Seq(DOMAIN Batches) /\ Len(asked) \in Nat
    BY <1>1 DEF FileTypes
  <2> QED
    BY <1>1, <2>1 DEF ChainInv, Before
<1>8. \A k \in 1..Len(chain') : Before(asked, b, chain'[k])
  <2> TAKE k \in 1..Len(chain')
  <2>1. 1 \in 1..Len(chain) /\ k + 1 \in 1..Len(chain) /\ 1 < k + 1 /\ chain'[k] = chain[k + 1]
    BY <1>2
  <2> QED
    BY <1>1, <1>2, <2>1 DEF ChainInv
<1>9. \A c \in Range(asked) : c # b =>
        ((\E k \in 1..Len(chain) : chain[k] = c) <=> \E k \in 1..Len(chain') : chain'[k] = c)
  <2> TAKE c \in Range(asked)
  <2> HAVE c # b
  <2>1. ASSUME NEW k \in 1..Len(chain), chain[k] = c
        PROVE  \E l \in 1..Len(chain') : chain'[l] = c
    <3>1. k - 1 \in 1..Len(chain') /\ (k - 1) + 1 = k
      BY <1>2, <2>1
    <3> QED
      BY <1>2, <2>1, <3>1
  <2> QED
    BY <1>2, <2>1
<1>10. ChainInv'
  <2>1. \A c \in DOMAIN Batches : c \notin Range(asked') => answer'[c] = "none"
    BY <1>1, <1>5, <1>6 DEF ChainInv
  <2>2. \A c \in Range(asked') : answer'[c] = "none" <=> \E k \in 1..Len(chain') : chain'[k] = c
    <3>1. \A k \in 1..Len(chain') : chain'[k] # b
      BY <1>7, <1>8
    <3>2. \A c \in Range(asked) : c \in DOMAIN Batches
      BY <1>1 DEF FileTypes, Range
    <3> QED
      BY <1>1, <1>5, <1>9, <3>1, <3>2 DEF ChainInv
  <2>3. \A k \in 1..Len(chain') : chain'[k] \in Range(asked')
    BY <1>1, <1>2 DEF ChainInv
  <2>4. \A k, l \in 1..Len(chain') : k < l => Before(asked', chain'[k], chain'[l])
    <3> TAKE k, l \in 1..Len(chain')
    <3> HAVE k < l
    <3>1. k + 1 < l + 1
      BY <1>2
    <3> QED
      BY <1>1, <1>2, <1>3, <3>1 DEF ChainInv
  <2>5. \A c, d \in DOMAIN Batches : Before(asked', c, d) /\ answer'[c] = "none" => answer'[d] \in {"none", "closed"}
    <3> TAKE c, d \in DOMAIN Batches
    <3> HAVE Before(asked', c, d) /\ answer'[c] = "none"
    <3>1. c # b /\ answer[c] = "none" /\ Before(asked, c, d)
      BY <1>3, <1>4, <1>5
    <3>2. d # b
      <4> SUFFICES ASSUME d = b PROVE FALSE
        OBVIOUS
      <4>1. c \in Range(asked)
        <5>1. asked \in Seq(DOMAIN Batches)
          BY <1>1 DEF FileTypes
        <5> QED
          BY <3>1, <5>1 DEF Before, Range
      <4>2. PICK k \in 1..Len(chain') : chain'[k] = c
        BY <1>1, <1>9, <3>1, <4>1 DEF ChainInv
      <4> QED
        BY <1>7, <1>8, <3>1, <4>2
    <3> QED
      BY <1>1, <1>5, <3>1, <3>2 DEF ChainInv
  <2>6. closed' = FALSE
    <3>1. chain # <<>>
      BY <1>1
    <3>2. closed => chain = <<>>
      BY <1>1 DEF ChainInv
    <3> QED
      BY <1>1, <3>1, <3>2 DEF FileTypes
  <2>7. \A k, l \in 1..Len(asked') : asked'[k] = asked'[l] => k = l
    BY <1>1 DEF ChainInv
  <2>8. runtime' # "py"
    BY <1>1
  <2> QED
    BY <2>1, <2>2, <2>3, <2>4, <2>5, <2>6, <2>7, <2>8 DEF ChainInv
<1>11. \A c \in Accepted \cup {b} : ~Before(asked', b, c)
  BY <1>1, <1>2, <1>3, <1>6, <1>7 DEF ChainInv, Accepted
<1>12. FileTypes' /\ TextInv'
  <2>1. CASE res = "permanent_failure" /\ UNCHANGED <<file, failures>>
    <3>1. FileTypes'
      BY <1>1, <1>2, <1>4, <2>1 DEF FileTypes
    <3>2. Accepted' = Accepted
      BY <1>5, <1>6, <2>1 DEF Accepted
    <3>3. \A c \in DOMAIN Batches : answer'[c] \in {"none", "permanent_failure", "closed"} =>
                                    answer[c] \in {"none", "permanent_failure", "closed"}
      BY <1>5, <1>6
    <3> QED
      BY <1>1, <1>3, <2>1, <3>1, <3>2, <3>3, TextSame
  <2>2. ASSUME NEW part \in Seq(Texts), file' = file \o part, failures' \in {failures, failures + 1},
               res \in {"accepted", "retryable_failure"},
               \A j \in 1..Len(part) : part[j][2] \in Range(Batches[b]),
               \A j \in 1..Len(part) : part[j][1] = "torn" => j = Len(part) /\ failures' = failures + 1,
               res = "accepted" => part = Lines(Batches[b])
        PROVE  FileTypes' /\ TextInv'
    <3>1. FileTypes'
      <4>1. file' \in Seq(Texts) /\ failures' \in Nat
        BY <1>1, <2>2 DEF FileTypes
      <4> QED
        BY <1>1, <1>2, <1>4, <4>1 DEF FileTypes
    <3>2. res = "accepted" =>
             \E m \in Nat : /\ m + Len(Batches[b]) <= Len(part)
                            /\ \A j \in 1..Len(Batches[b]) : part[m + j] = <<"line", Batches[b][j]>>
      <4> HAVE res = "accepted"
      <4>1. /\ Len(part) = Len(Batches[b]) /\ Len(part) \in Nat
            /\ \A j \in 1..Len(Batches[b]) : part[0 + j] = <<"line", Batches[b][j]>>
        BY <1>2, <2>2, BatchIs
      <4>2. 0 + Len(Batches[b]) <= Len(part)
        BY <4>1
      <4> QED
        BY <4>1, <4>2
    <3>3. buffer' \in Seq(Texts) /\ buffer' = buffer
      BY <1>1 DEF FileTypes
    <3>4. \A j \in 1..Len(buffer') : buffer'[j][2] \in Range(Batches[b])
                                    \/ \E k \in 1..Len(buffer) : buffer'[j] = buffer[k]
      BY <3>3
    <3>5. TextInv'
      BY <1>1, <1>2, <1>3, <1>4, <1>6, <1>11, <2>2, <3>2, <3>3, <3>4, TextWritten
    <3> QED
      BY <3>1, <3>5
  <2>3. CASE res = "retryable_failure" /\ Fails /\ file' = file
    <3>1. <<>> \in Seq(Texts) /\ Len(<<>>) = 0 /\ 1..0 = {}
      OBVIOUS
    <3>2. file' = file \o <<>>
      BY <1>1, <2>3 DEF FileTypes
    <3>3. failures' = failures + 1
      BY <2>3 DEF Fails
    <3> QED
      BY <2>2, <2>3, <3>1, <3>2, <3>3
  <2>4. ASSUME res = "retryable_failure", Fails, NEW part \in Cut(text), text # <<>>, file' = file \o part
        PROVE  FileTypes' /\ TextInv'
    <3>1. part \in Cut(Lines(Batches[b]))
      BY <2>4 DEF Encode
    <3>2. failures' = failures + 1
      BY <2>4 DEF Fails
    <3> QED
      BY <1>2, <2>2, <2>4, <3>1, <3>2, CutIs
  <2>5. CASE res = "accepted" /\ text # <<>> /\ file' = file \o text /\ failures' = failures
    <3>1. text = Lines(Batches[b])
      BY <2>5 DEF Encode
    <3>2. /\ text \in Seq(Texts) /\ Len(text) = Len(Batches[b])
          /\ \A j \in 1..Len(Batches[b]) : text[j] = <<"line", Batches[b][j]>>
          /\ Range(Batches[b]) = {Batches[b][j] : j \in 1..Len(Batches[b])}
      BY <1>2, <3>1, BatchIs
    <3>3. \A j \in 1..Len(text) : text[j][1] = "line" /\ text[j][2] \in Range(Batches[b])
      BY <3>2
    <3>4. \A j \in 1..Len(text) : text[j][1] = "torn" => j = Len(text) /\ failures' = failures + 1
      BY <3>3
    <3> HIDE DEF text
    <3> QED
      BY <2>2, <2>5, <3>1, <3>2, <3>3, <3>4
  <2>6. \A r : answer' = [answer EXCEPT ![b] = r] => r = res
    BY <1>1, <1>2, <1>5 DEF FileTypes
  <2> QED
    BY <2>1, <2>3, <2>4, <2>5, <2>6 DEF Write, Answer, b
<1> QED
  BY <1>10, <1>12 DEF FileInv

(* What the Python stream's flush brings to the file, and what it leaves in the buffer. *)
LEMMA FlushedIs ==
  ASSUME FileTypes, NEW text \in Seq(Texts), Flushed(buffer, text)
  PROVE  /\ buffer' \in Seq(Texts) /\ failures' \in {failures, failures + 1}
         /\ \A j \in 1..Len(buffer') : \/ \E k \in 1..Len(buffer) : buffer'[j] = buffer[k]
                                       \/ \E k \in 1..Len(text) : buffer'[j] = text[k]
         /\ \E part \in Seq(Texts) :
              /\ file' = file \o part
              /\ \A j \in 1..Len(part) : \/ \E k \in 1..Len(buffer) : part[j] = buffer[k]
                                         \/ \E k \in 1..Len(text) : part[j] = text[k]
              /\ failures' = failures => part = buffer \o text
<1>1. file \in Seq(Texts) /\ buffer \in Seq(Texts) /\ failures \in Nat
  BY DEF FileTypes
<1> HIDE DEF Texts
<1> DEFINE From(t) == \A j \in 1..Len(t) : \/ \E k \in 1..Len(buffer) : t[j] = buffer[k]
                                           \/ \E k \in 1..Len(text) : t[j] = text[k]
<1>2. ASSUME NEW t \in Seq(Texts), \A k \in 1..Len(t) : k \in 1..Len(text) /\ t[k] = text[k]
      PROVE  buffer \o t \in Seq(Texts) /\ From(buffer \o t)
  <2> DEFINE all == buffer \o t
  <2>1. /\ all \in Seq(Texts) /\ Len(all) = Len(buffer) + Len(t) /\ Len(buffer) \in Nat /\ Len(t) \in Nat
        /\ \A j \in 1..Len(buffer) : all[j] = buffer[j]
        /\ \A j \in 1..Len(t) : all[Len(buffer) + j] = t[j]
    BY <1>1
  <2> HIDE DEF all
  <2>2. ASSUME NEW j \in 1..Len(all), j \notin 1..Len(buffer)
        PROVE  \E k \in 1..Len(text) : all[j] = text[k]
    <3>1. j - Len(buffer) \in 1..Len(t) /\ Len(buffer) + (j - Len(buffer)) = j
      BY <2>1, <2>2
    <3> QED
      BY <1>2, <2>1, <3>1
  <2> QED
    BY <2>1, <2>2 DEF all
<1>3. CASE file' = file \o buffer \o text /\ buffer' = <<>> /\ UNCHANGED failures
  <2>1. buffer \o text \in Seq(Texts) /\ From(buffer \o text)
    BY <1>2
  <2>2. file' = file \o (buffer \o text)
    BY <1>1, <1>3
  <2>3. buffer' \in Seq(Texts) /\ From(buffer') /\ failures' \in {failures, failures + 1}
    BY <1>3
  <2> HIDE DEF From
  <2>4. \E part \in Seq(Texts) : file' = file \o part /\ From(part) /\ part = buffer \o text
    BY <2>1, <2>2
  <2> QED
    BY <2>3, <2>4 DEF From
<1>4. ASSUME Fails, NEW m \in 0..Len(text), NEW n \in 0..Len(buffer \o SubSeq(text, 1, m)),
             file' = file \o SubSeq(buffer \o SubSeq(text, 1, m), 1, n),
             buffer' = SubSeq(buffer \o SubSeq(text, 1, m), n + 1, Len(buffer \o SubSeq(text, 1, m)))
      PROVE  /\ buffer' \in Seq(Texts) /\ failures' = failures + 1 /\ From(buffer')
             /\ \E part \in Seq(Texts) : file' = file \o part /\ From(part)
  <2> DEFINE start == SubSeq(text, 1, m)
             all == buffer \o start
             part == SubSeq(all, 1, n)
  <2>1. start \in Seq(Texts) /\ Len(start) = m /\ \A k \in 1..m : start[k] = text[k] /\ k \in 1..Len(text)
    OBVIOUS
  <2> HIDE DEF start
  <2>2. all \in Seq(Texts) /\ From(all)
    BY <1>2, <2>1
  <2>3. file' = file \o part /\ buffer' = SubSeq(all, n + 1, Len(all)) /\ n \in 0..Len(all)
    BY <1>4 DEF start
  <2> HIDE DEF all
  <2>4. part \in Seq(Texts) /\ Len(part) = n /\ \A j \in 1..n : part[j] = all[j] /\ j \in 1..Len(all)
    BY <2>2, <2>3
  <2>5. /\ buffer' \in Seq(Texts) /\ Len(buffer') = Len(all) - n
        /\ \A j \in 1..Len(buffer') : buffer'[j] = all[n + j] /\ n + j \in 1..Len(all)
    BY <2>2, <2>3
  <2> HIDE DEF part
  <2>6. From(part)
    BY <2>2, <2>4
  <2>7. From(buffer')
    BY <2>2, <2>5
  <2>8. failures' = failures + 1
    BY <1>4 DEF Fails
  <2> QED
    BY <2>3, <2>4, <2>5, <2>6, <2>7, <2>8
<1>5. CASE /\ buffer' \in Seq(Texts) /\ failures' = failures + 1 /\ From(buffer')
           /\ \E part \in Seq(Texts) : file' = file \o part /\ From(part)
  <2>1. failures' # failures
    BY <1>1, <1>5
  <2> QED
    BY <1>5, <2>1
<1> HIDE DEF From
<1> QED
  BY <1>3, <1>4, <1>5 DEF Flushed

(* Closing changes neither the text nor an answer, and waits for the chain. *)
LEMMA CloseStep ==
  ASSUME FileInv, Close \/ CloseReturns
  PROVE  FileInv'
<1>1. /\ FileTypes /\ ChainInv /\ TextInv /\ runtime = "ts"
      /\ UNCHANGED <<runtime, chain, answer, file, buffer, failures, asked>>
      /\ closing' = TRUE /\ closed' \in BOOLEAN
  BY DEF FileInv, FileTypes, Close, CloseReturns
<1>2. FileTypes'
  BY <1>1 DEF FileTypes
<1>3. closed' => chain = <<>>
  BY <1>1 DEF ChainInv, Close, CloseReturns
<1>4. ChainInv'
  BY <1>1, <1>3 DEF ChainInv
<1>5. TextInv'
  BY <1>1, TextSame DEF Accepted
<1> QED
  BY <1>2, <1>4, <1>5 DEF FileInv

(* Python's deliver() answers before it returns. *)
LEMMA PyDeliverStep ==
  ASSUME FileInv, NEW b \in DOMAIN Batches, PyDeliver(b)
  PROVE  FileInv'
<1>1. /\ runtime = "py" /\ b \notin Range(asked) /\ asked' = Append(asked, b)
      /\ UNCHANGED <<runtime, closing, closed, chain>>
      /\ FileTypes /\ ChainInv /\ TextInv
  BY DEF PyDeliver, FileInv
<1>2. /\ asked' \in Seq(DOMAIN Batches) /\ Range(asked') = Range(asked) \cup {b}
      /\ \A k, l \in 1..Len(asked') : asked'[k] = asked'[l] => k = l
      /\ \A c, d : Before(asked', c, d) <=> Before(asked, c, d) \/ (d = b /\ c \in Range(asked))
      /\ \A c, d : Before(asked, c, d) => c \in Range(asked) /\ d \in Range(asked)
  BY <1>1, AskedMore
<1>3. /\ chain = <<>> /\ Len(chain) = 0 /\ chain' = <<>> /\ Len(chain') = 0
      /\ answer[b] = "none"
  BY <1>1 DEF ChainInv
<1>4. \A c \in Range(asked) : answer[c] # "none" /\ c # b /\ c \in DOMAIN Batches
  <2>1. \A k : k \notin 1..Len(chain)
    BY <1>3
  <2> QED
    BY <1>1, <2>1 DEF ChainInv, FileTypes, Range
<1>5. PICK res \in {"closed", "accepted", "retryable_failure"} : answer' = [answer EXCEPT ![b] = res]
  BY DEF PyDeliver, Answer
<1>6. answer'[b] = res /\ \A c \in DOMAIN Batches : c # b => answer'[c] = answer[c]
  BY <1>1, <1>5 DEF FileTypes
<1>7. answer' \in [DOMAIN Batches -> Answers]
  BY <1>1, <1>5 DEF FileTypes, Answers
<1>8. ChainInv'
  <2>1. \A c \in DOMAIN Batches : c \notin Range(asked') => answer'[c] = "none"
    BY <1>1, <1>2, <1>6 DEF ChainInv
  <2>2. \A c \in Range(asked') : answer'[c] # "none"
    BY <1>2, <1>4, <1>6
  <2>3. \A k : k \notin 1..Len(chain')
    BY <1>3
  <2>4. \A c, d \in DOMAIN Batches : Before(asked', c, d) /\ answer'[c] = "none" => answer'[d] \in {"none", "closed"}
    BY <1>2, <2>2
  <2>5. closed' => closing' /\ chain' = <<>>
    BY <1>1, <1>3 DEF ChainInv
  <2> QED
    BY <1>2, <1>3, <2>1, <2>2, <2>3, <2>4, <2>5 DEF ChainInv
<1>9. CASE UNCHANGED <<file, buffer>> /\ (failures' = failures \/ failures' = failures + 1)
           /\ res \in {"closed", "retryable_failure"}
  <2>1. \A c \in Accepted' : c \in Accepted
    BY <1>6, <1>9 DEF Accepted
  <2>2. \A c \in Accepted : c # b
    BY <1>3 DEF Accepted
  <2>3. \A c, d \in Accepted : Before(asked', c, d) => Before(asked, c, d)
    BY <1>2, <2>2
  <2>4. \A c \in DOMAIN Batches : answer'[c] \in {"none", "permanent_failure", "closed"} =>
                                  answer[c] \in {"none", "permanent_failure", "closed"}
    BY <1>3, <1>6
  <2>5. TextInv'
    BY <1>1, <1>9, <2>1, <2>3, <2>4, TextSame
  <2>6. FileTypes'
    BY <1>1, <1>2, <1>7, <1>9 DEF FileTypes
  <2> QED
    BY <1>8, <2>5, <2>6 DEF FileInv
<1>10. CASE Flushed(buffer, Lines(Batches[b])) /\ res = IF failures' = failures THEN "accepted" ELSE "retryable_failure"
  <2> DEFINE text == Lines(Batches[b])
  <2>1. /\ text \in Seq(Texts) /\ Len(text) = Len(Batches[b]) /\ Len(text) \in Nat
        /\ \A j \in 1..Len(text) : text[j] = <<"line", Batches[b][j]>> /\ Batches[b][j] \in Range(Batches[b])
        /\ buffer \in Seq(Texts) /\ Len(buffer) \in Nat
    BY <1>1, BatchIs DEF FileTypes
  <2> HIDE DEF text
  <2>2. /\ buffer' \in Seq(Texts) /\ failures' \in {failures, failures + 1}
        /\ \A j \in 1..Len(buffer') : \/ \E k \in 1..Len(buffer) : buffer'[j] = buffer[k]
                                      \/ \E k \in 1..Len(text) : buffer'[j] = text[k]
    BY <1>1, <1>10, <2>1, FlushedIs DEF text
  <2>3. PICK part \in Seq(Texts) :
              /\ file' = file \o part
              /\ \A j \in 1..Len(part) : \/ \E k \in 1..Len(buffer) : part[j] = buffer[k]
                                         \/ \E k \in 1..Len(text) : part[j] = text[k]
              /\ failures' = failures => part = buffer \o text
    BY <1>1, <1>10, <2>1, FlushedIs DEF text
  <2>4. \A k \in 1..Len(text) : text[k][1] = "line" /\ text[k][2] \in Range(Batches[b])
    BY <2>1
  <2>5. \A k \in 1..Len(buffer) : buffer[k][1] = "line"
    BY <1>1 DEF TextInv
  <2>6. FileTypes'
    <3>1. file' \in Seq(Texts) /\ failures' \in Nat
      BY <1>1, <2>2, <2>3 DEF FileTypes
    <3> QED
      BY <1>1, <1>2, <1>7, <2>2, <3>1 DEF FileTypes
  <2>7. \A j \in 1..Len(part) : part[j][2] \in Range(Batches[b])
                                 \/ \E k \in 1..Len(buffer) : part[j] = buffer[k]
    BY <2>3, <2>4
  <2>8. \A j \in 1..Len(buffer') : buffer'[j][2] \in Range(Batches[b])
                                    \/ \E k \in 1..Len(buffer) : buffer'[j] = buffer[k]
    BY <2>2, <2>4
  <2>9. \A j \in 1..Len(part) : part[j][1] # "torn"
    BY <2>3, <2>4, <2>5
  <2>10. \A j \in 1..Len(buffer') : runtime = "py" => buffer'[j][1] = "line"
    BY <2>2, <2>4, <2>5
  <2>11. res = "accepted" =>
           \E m \in Nat : /\ m + Len(Batches[b]) <= Len(part)
                          /\ \A j \in 1..Len(Batches[b]) : part[m + j] = <<"line", Batches[b][j]>>
    <3> HAVE res = "accepted"
    <3>1. part = buffer \o text
      BY <1>10, <2>3
    <3>5. text \in Seq(Texts) /\ buffer \in Seq(Texts)
      BY <2>1
    <3>2. Len(part) = Len(buffer) + Len(text)
      BY <3>1, <3>5
    <3>4. \A j \in 1..Len(text) : part[Len(buffer) + j] = text[j]
      BY <3>1, <3>5
    <3>3. Len(buffer) + Len(Batches[b]) <= Len(part)
      BY <2>1, <3>2
    <3> QED
      BY <2>1, <3>2, <3>3, <3>4
  <2>12. \A c \in Accepted \cup {b} : ~Before(asked', b, c)
    <3>1. ~Before(asked, b, b)
      BY <1>1, <1>2
    <3> QED
      BY <1>1, <1>2, <1>3 DEF Accepted
  <2>13. \A c, d : d # b => (Before(asked', c, d) => Before(asked, c, d))
    BY <1>2
  <2>14. res \in {"accepted", "retryable_failure"} /\ runtime' = runtime
    BY <1>1, <1>10
  <2>15. TextInv'
    BY <1>3, <1>5, <2>2, <2>3, <2>7, <2>8, <2>9, <2>10, <2>11, <2>12, <2>13, <2>14, TextWritten
  <2> QED
    BY <1>8, <2>6, <2>15 DEF FileInv
<1>11. \A r : answer' = [answer EXCEPT ![b] = r] => r = res
  BY <1>1, <1>5, <1>6 DEF FileTypes
<1>12. CASE closing
  <2>1. answer' = [answer EXCEPT ![b] = "closed"] /\ UNCHANGED <<file, buffer, failures>>
    BY <1>12 DEF PyDeliver, Answer
  <2>2. res = "closed"
    BY <1>11, <2>1
  <2> QED
    BY <1>9, <2>1, <2>2
<1>13. CASE ~closing /\ Fails /\ Answer(b, "retryable_failure") /\ UNCHANGED <<stream, file, buffer>>
  <2>1. res = "retryable_failure" /\ failures' = failures + 1
    BY <1>11, <1>13 DEF Answer, Fails
  <2> QED
    BY <1>9, <1>13, <2>1
<1>14. CASE /\ ~closing /\ Flushed(buffer, Lines(Batches[b]))
            /\ Answer(b, IF failures' = failures THEN "accepted" ELSE "retryable_failure")
  <2>1. res = IF failures' = failures THEN "accepted" ELSE "retryable_failure"
    BY <1>11, <1>14 DEF Answer
  <2> QED
    BY <1>10, <1>14, <2>1
<1> QED
  BY <1>12, <1>13, <1>14 DEF PyDeliver

(* close() of the Python sink flushes what an earlier failure left in the buffer. *)
LEMMA PyCloseStep ==
  ASSUME FileInv, PyClose
  PROVE  FileInv'
<1>1. /\ FileTypes /\ ChainInv /\ TextInv /\ runtime = "py"
      /\ UNCHANGED <<runtime, chain, answer, asked>>
      /\ closing' = TRUE /\ closed' = TRUE
  BY DEF FileInv, PyClose
<1>2. ChainInv'
  BY <1>1 DEF ChainInv
<1>3. CASE UNCHANGED <<stream, file, buffer, failures>>
  <2>1. TextInv'
    BY <1>1, <1>3, TextSame DEF Accepted
  <2>2. FileTypes'
    BY <1>1, <1>3 DEF FileTypes
  <2> QED
    BY <1>2, <2>1, <2>2 DEF FileInv
<1>4. CASE Flushed(buffer, <<>>)
  <2> DEFINE text == <<>>
  <2>1. text \in Seq(Texts) /\ \A k : k \notin 1..Len(text)
    OBVIOUS
  <2> HIDE DEF text
  <2>16. Flushed(buffer, text)
    BY <1>4 DEF text
  <2>2. /\ buffer' \in Seq(Texts) /\ failures' \in {failures, failures + 1}
        /\ \A j \in 1..Len(buffer') : \E k \in 1..Len(buffer) : buffer'[j] = buffer[k]
    BY <1>1, <2>1, <2>16, FlushedIs
  <2>3. PICK part \in Seq(Texts) :
          /\ file' = file \o part
          /\ \A j \in 1..Len(part) : \E k \in 1..Len(buffer) : part[j] = buffer[k]
    BY <1>1, <2>1, <2>16, FlushedIs
  <2>4. /\ file' \in Seq(Texts) /\ Len(file') = Len(file) + Len(part)
        /\ \A k \in 1..Len(file) : k \in 1..Len(file') /\ file'[k] = file[k]
        /\ \A j \in 1..Len(part) : file'[Len(file) + j] = part[j]
        /\ \A k \in 1..Len(file') : k \in 1..Len(file) \/ \E j \in 1..Len(part) : k = Len(file) + j
    BY <1>1, <2>3, FileGrows
  <2>17. \A k \in 1..Len(file') : \/ \E l \in 1..Len(file) : file'[k] = file[l]
                                  \/ \E j \in 1..Len(part) : file'[k] = part[j]
    BY <2>4
  <2>5. failures \in Nat /\ failures' \in Nat
    BY <1>1, <2>2 DEF FileTypes
  <2>6. FileTypes'
    BY <1>1, <2>2, <2>4, <2>5 DEF FileTypes
  <2>7. \A c \in DOMAIN Batches : answer[c] \in {"none", "permanent_failure", "closed"} =>
          /\ \A k \in 1..Len(file') : file'[k][2] \notin Range(Batches[c])
          /\ \A k \in 1..Len(buffer') : buffer'[k][2] \notin Range(Batches[c])
    <3> TAKE c \in DOMAIN Batches
    <3> HAVE answer[c] \in {"none", "permanent_failure", "closed"}
    <3>1. /\ \A k \in 1..Len(file) : file[k][2] \notin Range(Batches[c])
          /\ \A k \in 1..Len(buffer) : buffer[k][2] \notin Range(Batches[c])
      BY <1>1 DEF TextInv
    <3>2. \A j \in 1..Len(part) : part[j][2] \notin Range(Batches[c])
      BY <2>3, <3>1
    <3>3. \A k \in 1..Len(buffer') : buffer'[k][2] \notin Range(Batches[c])
      BY <2>2, <3>1
    <3> QED
      BY <2>17, <3>1, <3>2, <3>3
  <2>8. Accepted' = Accepted
    BY <1>1 DEF Accepted
  <2>9. \A c \in Accepted : \E n : Placed(c, n)'
    <3> TAKE c \in Accepted
    <3>1. PICK n : Placed(c, n)
      BY <1>1 DEF TextInv
    <3>2. c \in DOMAIN Batches
      BY DEF Accepted
    <3> QED
      BY <1>1, <2>3, <3>1, <3>2, PlacedStays
  <2>10. \A c, d \in Accepted : Before(asked', c, d) =>
           \E m, n \in 1..Len(file') : /\ m < n /\ file'[m] = <<"line", Batches[c][1]>>
                                       /\ file'[n] = <<"line", Batches[d][1]>>
    <3> TAKE c, d \in Accepted
    <3> HAVE Before(asked', c, d)
    <3>1. PICK m, n \in 1..Len(file) : /\ m < n /\ file[m] = <<"line", Batches[c][1]>>
                                       /\ file[n] = <<"line", Batches[d][1]>>
      BY <1>1 DEF TextInv
    <3> QED
      BY <2>4, <3>1
  <2>11. Torn = {} /\ \A k \in 1..Len(buffer) : buffer[k][1] = "line"
    BY <1>1 DEF TextInv
  <2>12. Torn' = {}
    <3>1. \A k \in 1..Len(file) : file[k][1] # "torn"
      BY <2>11 DEF Torn
    <3>2. \A j \in 1..Len(part) : part[j][1] # "torn"
      BY <2>3, <2>11
    <3> QED
      BY <2>17, <3>1, <3>2 DEF Torn
  <2>13. IsFiniteSet(Torn') /\ Cardinality(Torn') <= failures'
    BY <2>5, <2>12, FS_EmptySet
  <2>14. \A k \in 1..Len(buffer') : buffer'[k][1] = "line"
    BY <2>2, <2>11
  <2>15. TextInv'
    BY <1>1, <2>7, <2>8, <2>9, <2>10, <2>12, <2>13, <2>14 DEF TextInv
  <2> QED
    BY <1>2, <2>6, <2>15 DEF FileInv
<1> QED
  BY <1>3, <1>4 DEF PyClose

(* The invariant holds of an empty file. *)
LEMMA FileInitInv == FileInit => FileInv
<1> SUFFICES ASSUME FileInit PROVE FileInv
  OBVIOUS
<1>1. /\ asked = <<>> /\ chain = <<>> /\ file = <<>> /\ buffer = <<>> /\ failures = 0
      /\ answer = [b \in DOMAIN Batches |-> "none"] /\ closed = FALSE /\ closing = FALSE
      /\ runtime \in {"ts", "py"}
  BY DEF FileInit
<1>2. FileTypes
  <2>1. answer \in [DOMAIN Batches -> Answers]
    BY <1>1 DEF Answers
  <2>2. asked \in Seq(DOMAIN Batches) /\ chain \in Seq(DOMAIN Batches) /\ file \in Seq(Texts) /\ buffer \in Seq(Texts)
    <3> HIDE DEF Texts
    <3> QED
      BY <1>1
  <2> QED
    BY <1>1, <2>1, <2>2 DEF FileTypes
<1>3. Len(<<>>) = 0 /\ 1..0 = {} /\ Range(<<>>) = {}
  BY DEF Range
<1>4. ChainInv
  BY <1>1, <1>3 DEF ChainInv, Before
<1>5. Accepted = {} /\ Torn = {}
  BY <1>1, <1>3 DEF Accepted, Torn
<1>6. TextInv
  BY <1>1, <1>3, <1>5, FS_EmptySet DEF TextInv
<1> QED
  BY <1>2, <1>4, <1>6 DEF FileInv

(* Every step keeps it. *)
LEMMA FileStep == FileInv /\ [FileNext]_fileVars => FileInv'
<1> SUFFICES ASSUME FileInv, [FileNext]_fileVars PROVE FileInv'
  OBVIOUS
<1>1. CASE UNCHANGED fileVars
  <2>1. FileTypes' /\ ChainInv'
    BY <1>1 DEF fileVars, FileInv, FileTypes, ChainInv
  <2>2. TextInv'
    BY <1>1, TextSame DEF fileVars, Accepted
  <2> QED
    BY <2>1, <2>2 DEF FileInv
<1> QED
  BY <1>1, DeliverStep, PyDeliverStep, WriteStep, CloseStep, PyCloseStep DEF FileNext

(* An accepted record that cannot be read follows a torn line of its own, so there are no
   more of them than failures. *)
LEMMA FileTold == FileInv => FileTruthful
<1> SUFFICES ASSUME FileInv PROVE FileTruthful
  OBVIOUS
<1>1. FileTypes /\ ChainInv /\ TextInv
  BY DEF FileInv
<1>2. /\ file \in Seq(Texts) /\ Len(file) \in Nat /\ DOMAIN file = 1..Len(file)
      /\ asked \in Seq(DOMAIN Batches) /\ Len(asked) \in Nat /\ DOMAIN asked = 1..Len(asked)
      /\ failures \in Nat
  BY <1>1 DEF FileTypes
<1>3. ASSUME NEW b \in DOMAIN Batches, answer[b] = "accepted"
      PROVE  \E k \in 1..(Len(file) - Len(Batches[b]) + 1) :
               SubSeq(file, k, k + Len(Batches[b]) - 1) = Lines(Batches[b])
  <2> DEFINE size == Len(Batches[b])
             text == Lines(Batches[b])
  <2>1. PICK n : Placed(b, n)
    BY <1>1, <1>3 DEF TextInv, Accepted
  <2>2. /\ size \in Nat \ {0} /\ text \in Seq(Texts) /\ Len(text) = size
        /\ \A j \in 1..size : text[j] = <<"line", Batches[b][j]>>
    BY BatchIs
  <2>3. n \in Nat /\ n + size <= Len(file) /\ \A j \in 1..size : file[n + j] = <<"line", Batches[b][j]>>
    BY <2>1 DEF Placed
  <2>4. \A j \in 1..size : file[n + j] = text[j]
    BY <2>2, <2>3
  <2> HIDE DEF size, text
  <2> DEFINE k == n + 1
             sub == SubSeq(file, k, k + size - 1)
  <2>5. k \in 1..(Len(file) - size + 1)
    BY <1>2, <2>2, <2>3
  <2>6. sub = [j \in 1..size |-> file[n + j]]
    <3>1. k + size - 1 = n + size /\ k \in Nat \ {0} /\ n + size \in Nat /\ n + size <= Len(file)
      BY <1>2, <2>2, <2>3
    <3>2. /\ SubSeq(file, k, n + size) \in Seq(Texts) /\ Len(SubSeq(file, k, n + size)) = size
          /\ \A j \in 1..size : SubSeq(file, k, n + size)[j] = file[k + j - 1]
      BY <1>2, <2>2, <2>3, <3>1
    <3>3. \A j \in 1..size : k + j - 1 = n + j
      BY <2>2, <2>3
    <3> HIDE DEF k
    <3> QED
      BY <3>1, <3>2, <3>3
  <2>7. sub = text
    BY <2>2, <2>4, <2>6
  <2> QED
    BY <2>5, <2>7 DEF size, text
<1>4. ASSUME NEW b \in DOMAIN Batches, answer[b] \in {"permanent_failure", "closed"}
      PROVE  \A k \in DOMAIN file : file[k][2] \notin Range(Batches[b])
  BY <1>1, <1>2, <1>4 DEF TextInv
<1>5. ASSUME NEW i \in DOMAIN asked, NEW j \in DOMAIN asked, i < j, {asked[i], asked[j]} \subseteq Accepted
      PROVE  \E m, n \in DOMAIN file : /\ m < n /\ file[m] = <<"line", Batches[asked[i]][1]>>
                                       /\ file[n] = <<"line", Batches[asked[j]][1]>>
  <2>1. Before(asked, asked[i], asked[j])
    BY <1>2, <1>5 DEF Before
  <2>2. asked[i] \in Accepted /\ asked[j] \in Accepted
    BY <1>5
  <2>3. PICK m, n \in 1..Len(file) : /\ m < n /\ file[m] = <<"line", Batches[asked[i]][1]>>
                                     /\ file[n] = <<"line", Batches[asked[j]][1]>>
    BY <1>1, <2>1, <2>2 DEF TextInv
  <2> QED
    BY <1>2, <2>3
<1>6. ASSUME closed, NEW k \in DOMAIN asked
      PROVE  answer[asked[k]] # "none"
  <2>1. chain = <<>> /\ asked[k] \in Range(asked)
    BY <1>1, <1>6 DEF ChainInv, Range
  <2>2. \A l : l \notin 1..Len(chain)
    BY <2>1
  <2> QED
    BY <1>1, <2>1, <2>2 DEF ChainInv
<1> DEFINE Bad == {r \in UNION {Range(Batches[b]) : b \in Accepted} : ~Readable(r)}
<1>7. Cardinality(Bad) <= failures
  <2>1. \A r \in Bad : \E k \in 1..Len(file) : file[k] = <<"line", r>> /\ k - 1 \in Torn
    <3> TAKE r \in Bad
    <3>1. PICK b \in Accepted : r \in Range(Batches[b])
      OBVIOUS
    <3>2. b \in DOMAIN Batches
      BY DEF Accepted
    <3>3. PICK j \in 1..Len(Batches[b]) : r = Batches[b][j]
      BY <3>1, <3>2, BatchIs
    <3>4. PICK n : Placed(b, n)
      BY <1>1, <3>1 DEF TextInv
    <3>5. n + j \in 1..Len(file) /\ file[n + j] = <<"line", r>>
      <4>1. n \in Nat /\ n + Len(Batches[b]) <= Len(file)
        BY <3>4 DEF Placed
      <4>2. file[n + j] = <<"line", r>>
        BY <3>3, <3>4 DEF Placed
      <4>3. Len(Batches[b]) \in Nat
        BY <3>2, BatchIs
      <4>4. n + j \in 1..Len(file)
        BY <1>2, <4>1, <4>3
      <4> QED
        BY <4>2, <4>4
    <3> DEFINE k == n + j
    <3>8. k \in 1..Len(file) /\ file[k] = <<"line", r>>
      BY <3>5
    <3> HIDE DEF k
    <3>9. ~Readable(r)
      OBVIOUS
    <3>6. k > 1 /\ file[k - 1][1] = "torn"
      BY <1>2, <3>8, <3>9 DEF Readable
    <3>7. k - 1 \in 1..Len(file)
      BY <1>2, <3>8, <3>6
    <3> QED
      BY <3>8, <3>6, <3>7 DEF Torn
  <2> DEFINE Where(r) == CHOOSE k \in 1..Len(file) : file[k] = <<"line", r>> /\ k - 1 \in Torn
             f == [r \in Bad |-> Where(r) - 1]
  <2>2. \A r \in Bad : Where(r) \in 1..Len(file) /\ file[Where(r)] = <<"line", r>> /\ Where(r) - 1 \in Torn
    BY <2>1
  <2> HIDE DEF Where, Bad
  <2>3. f \in [Bad -> Torn]
    BY <2>2
  <2>4. ASSUME NEW r \in Bad, NEW s \in Bad, f[r] = f[s]
        PROVE  r = s
    <3>1. Where(r) - 1 = Where(s) - 1 /\ Where(r) \in Nat /\ Where(s) \in Nat
      BY <1>2, <2>2, <2>4
    <3>2. Where(r) = Where(s)
      BY <3>1
    <3>3. <<"line", r>> = <<"line", s>>
      BY <2>2, <3>2
    <3> QED
      BY <3>3
  <2>5. f \in Injection(Bad, Torn)
    <3> HIDE DEF f
    <3> QED
      BY <2>3, <2>4 DEF Injection, IsInjective
  <2>6. IsFiniteSet(Torn) /\ Cardinality(Torn) <= failures
    BY <1>1 DEF TextInv
  <2> HIDE DEF f
  <2>7. IsFiniteSet(Bad) /\ Cardinality(Bad) <= Cardinality(Torn)
    BY <2>5, <2>6, FS_Injection
  <2>8. Cardinality(Bad) \in Nat /\ Cardinality(Torn) \in Nat
    BY <2>6, <2>7, FS_CardinalityType
  <2> QED
    BY <1>2, <2>6, <2>7, <2>8
<1> QED
  BY <1>3, <1>4, <1>5, <1>6, <1>7 DEF FileTruthful

(* What the file sinks answer is true of the file, for every list of batches and any number
   of failures of the file system (#write and close() of sink.ts, deliver() and close() of
   Python's sink): accepted batches are there whole and in the order asked for, a refused one
   left nothing, close() returns when all is answered, and each failure spoils one accepted
   record at most. *)
THEOREM FileSinkTruthful == FileSpec => []FileTruthful
<1>1. FileInit => FileInv
  BY FileInitInv
<1>2. FileInv /\ [FileNext]_fileVars => FileInv'
  BY FileStep
<1>3. FileInv => FileTruthful
  BY FileTold
<1> QED
  BY <1>1, <1>2, <1>3, PTL DEF FileSpec
=============================================================================
