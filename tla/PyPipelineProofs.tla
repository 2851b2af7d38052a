-------------------------- MODULE PyPipelineProofs --------------------------
(***************************************************************************)
(* What the Python client promises, proved for every number of records and *)
(* flushes, every limit and every setting of the callbacks.                *)
(*                                                                         *)
(* The invariant says where each record is: a queued one is in the queue,  *)
(* one in flight is in the worker's batch, at most one is held by          *)
(* get_task, and what a loop over the batch has passed is settled.         *)
(***************************************************************************)
EXTENDS PyPipeline, FiniteSetTheorems, TLAPS

Distinct(s) == \A i, j \in 1..Len(s) : s[i] = s[j] => i = j

Among(r, s) == \E i \in 1..Len(s) : s[i] = r

(* The queue holds each queued record once, and nothing else. *)
QueueInv ==
  /\ Distinct(queue)
  /\ \A i \in 1..Len(queue) : state[queue[i]] = "queued"
  /\ \A r \in Records : state[r] = "queued" => Among(r, queue)

(* _in_flight_records holds each record in flight once.  Others of the     *)
(* batch have a verdict: from the loop that runs, or from a shutdown that  *)
(* has given up and cancelled the worker.                                  *)
BatchInv ==
  /\ Distinct(inFlight)
  /\ \A i \in 1..Len(inFlight) : state[inFlight[i]] \in {"in_flight"} \cup Terminal
  /\ \A r \in Records : state[r] = "in_flight" => Among(r, inFlight)
  /\ worker \in {"lingering", "gathering"} /\ ~cancelled =>
       \A i \in 1..Len(inFlight) : state[inFlight[i]] = "in_flight"

(* The size of the batch, by where the worker is. *)
SizeInv ==
  /\ worker \in {"none", "idle"} => inFlight = <<>>
  /\ worker \in {"lingering", "gathering"} => Len(inFlight) \in 1..(BatchMaxSize - 1)
  /\ Len(inFlight) <= BatchMaxSize

(* get_task holds one record at most, and only for a worker that lingers,  *)
(* or has been cancelled while it did.                                     *)
HeldInv ==
  /\ \A r, s \in Held : r = s
  /\ Held # {} => worker \in {"lingering", "gathering", "gone"}

(* The loop over the batch goes through it in order, and leaves only       *)
(* settled records behind.                                                 *)
WorkInv ==
  /\ worker \notin Sections => work = <<>>
  /\ Len(work) <= Len(inFlight)
  /\ calling /\ worker = "sweeping" => Len(work) < Len(inFlight)
  /\ worker \in Sections =>
       /\ \A i \in 1..Len(work) : work[i].rec = inFlight[Len(inFlight) - Len(work) + i]
       /\ \A i \in 1..(Len(inFlight) - Len(work)) : state[inFlight[i]] \in Terminal

(* The worker is cancelled last, and has ended when the sink is closed. *)
StopInv ==
  /\ cancelled => stop \in {"reaping", "closing", "done"}
  /\ stop \in {"closing", "done"} => worker \in {"none", "gone"}

(* The sink has seen the batches handed over, and flush() has seen what    *)
(* was submitted.                                                          *)
HistoryInv ==
  /\ \A r \in attempted : state[r] \in {"in_flight"} \cup Terminal
  /\ worker \in {"lingering", "gathering"} =>
       \A i \in 1..Len(inFlight) : inFlight[i] \notin attempted
  /\ \A c \in Flushes : \A r \in wanted[c] : state[r] \in Outstanding \cup Terminal

PlaceInv ==
  QueueInv /\ BatchInv /\ SizeInv /\ HeldInv /\ WorkInv /\ StopInv /\ HistoryInv
-----------------------------------------------------------------------------
(* Types.                                                                  *)

(* The verdicts of the sink on its batch. *)
LEMMA JudgeTypes ==
  ASSUME TypeOK, NEW verdict \in [Records -> Terminal], Judge(verdict)
  PROVE  /\ work' \in Seq(Verdicts)
         /\ Len(work') = Len(inFlight)
         /\ \A i \in 1..Len(work') : work'[i].rec = inFlight[i]
<1>1. inFlight \in Seq(Records)
  BY DEF TypeOK
<1>2. \A i \in 1..Len(inFlight) :
        [rec |-> inFlight[i], to |-> verdict[inFlight[i]]] \in Verdicts
  BY <1>1 DEF Verdicts
<1>3. work' = [i \in 1..Len(inFlight) |-> [rec |-> inFlight[i], to |-> verdict[inFlight[i]]]]
  BY DEF Judge
<1>4. Len(inFlight) \in Nat
  BY <1>1
<1>5. work' \in [1..Len(inFlight) -> Verdicts]
  BY <1>2, <1>3
<1>6. work' \in Seq(Verdicts) /\ Len(work') = Len(inFlight)
  BY <1>4, <1>5
<1> QED
  BY <1>3, <1>6

(* _collect_batch takes n records off the front of the queue. *)
LEMMA CollectTakes ==
  ASSUME TypeOK, NEW b \in Seq(Records), NEW q \in Seq(Records), Len(b) \in 1..BatchMaxSize,
         Collect(b, q)
  PROVE  \E n \in 0..Len(q) :
           /\ Len(b) + n <= BatchMaxSize
           /\ queue' = SubSeq(q, n + 1, Len(q))
           /\ inFlight' = b \o SubSeq(q, 1, n)
           /\ state' = [r \in Records |-> IF Among(r, inFlight') THEN "in_flight" ELSE state[r]]
           /\ \/ worker' = "delivering" /\ attempted' = attempted \cup Range(inFlight')
              \/ /\ n = 0 /\ Len(b) < BatchMaxSize
                 /\ worker' = "lingering" /\ attempted' = attempted
<1> DEFINE n == IF draining /\ Len(q) < BatchRoom(b) THEN Len(q)
                ELSE IF draining THEN BatchRoom(b) ELSE 0
<1>1. Len(q) \in Nat /\ Len(b) \in Nat /\ BatchMaxSize \in Nat /\ Len(b) <= BatchMaxSize
  BY OptionsAssumption DEF ValidOptions
<1>2. BatchRoom(b) \in Nat /\ BatchRoom(b) = BatchMaxSize - Len(b)
  BY <1>1 DEF BatchRoom
<1>3. n \in 0..Len(q) /\ Len(b) + n <= BatchMaxSize
  BY <1>1, <1>2
<1>4. ~draining => n = 0
  OBVIOUS
<1>5. /\ queue' = SubSeq(q, n + 1, Len(q))
      /\ inFlight' = b \o SubSeq(q, 1, n)
      /\ state' = [r \in Records |-> IF Among(r, inFlight') THEN "in_flight" ELSE state[r]]
      /\ \/ worker' = "delivering" /\ attempted' = attempted \cup Range(inFlight')
         \/ /\ ~draining /\ BatchRoom(b) > 0
            /\ worker' = "lingering" /\ attempted' = attempted
  BY DEF Collect, Among
<1> HIDE DEF n
<1>6. BatchRoom(b) > 0 => Len(b) < BatchMaxSize
  BY <1>1, <1>2
<1> QED
  BY <1>3, <1>4, <1>5, <1>6
-----------------------------------------------------------------------------
(* Where the records are.                                                  *)

(* The batch a worker collects, out of a first part b and the queue q. *)
Collectable(b, q) ==
  /\ Distinct(b) /\ Distinct(q)
  /\ \A i \in 1..Len(b) : /\ state[b[i]] \in Outstanding
                          /\ b[i] \notin attempted
                          /\ ~Among(b[i], q)
  /\ \A i \in 1..Len(q) : state[q[i]] = "queued"
  /\ \A r \in Records :
       /\ state[r] = "queued" => Among(r, b) \/ Among(r, q)
       /\ state[r] \in {"held", "in_flight"} => Among(r, b)

(* The new batch and what is left of the queue share out b and q. *)
LEMMA SharedOut ==
  ASSUME NEW b \in Seq(Records), NEW q \in Seq(Records), NEW n \in 0..Len(q),
         NEW rest, NEW batch,
         rest = SubSeq(q, n + 1, Len(q)), batch = b \o SubSeq(q, 1, n)
  PROVE  /\ rest \in Seq(Records) /\ Len(rest) = Len(q) - n
         /\ \A i \in 1..Len(rest) : rest[i] = q[n + i]
         /\ batch \in Seq(Records) /\ Len(batch) = Len(b) + n
         /\ \A i \in 1..Len(batch) : batch[i] = IF i <= Len(b) THEN b[i] ELSE q[i - Len(b)]
  OBVIOUS

(* No record is in both, or twice in one, and none is left out. *)
Shares(rest, batch) ==
  /\ Distinct(rest) /\ Distinct(batch)
  /\ \A i \in 1..Len(rest) : state[rest[i]] = "queued" /\ ~Among(rest[i], batch)
  /\ \A i \in 1..Len(batch) : /\ state[batch[i]] \in Outstanding
                              /\ state[batch[i]] = "queued" \/ batch[i] \notin attempted
  /\ \A r \in Records :
       /\ state[r] = "queued" => Among(r, batch) \/ Among(r, rest)
       /\ state[r] \in {"held", "in_flight"} => Among(r, batch)

LEMMA SharedDistinct ==
  ASSUME NEW b \in Seq(Records), NEW q \in Seq(Records), NEW n \in 0..Len(q),
         NEW rest, NEW batch,
         rest = SubSeq(q, n + 1, Len(q)), batch = b \o SubSeq(q, 1, n),
         Collectable(b, q)
  PROVE  Shares(rest, batch)
<1>0. Len(b) \in Nat /\ Len(q) \in Nat /\ n \in Nat
  OBVIOUS
<1>1. /\ rest \in Seq(Records) /\ Len(rest) = Len(q) - n
      /\ \A i \in 1..Len(rest) : rest[i] = q[n + i]
      /\ batch \in Seq(Records) /\ Len(batch) = Len(b) + n
      /\ \A i \in 1..Len(batch) : batch[i] = IF i <= Len(b) THEN b[i] ELSE q[i - Len(b)]
  OBVIOUS
<1>2. Distinct(rest)
  <2> SUFFICES ASSUME NEW i \in 1..Len(rest), NEW j \in 1..Len(rest), rest[i] = rest[j]
               PROVE  i = j
    BY DEF Distinct
  <2>1. n + i \in 1..Len(q) /\ n + j \in 1..Len(q) /\ q[n + i] = q[n + j]
    BY <1>0, <1>1
  <2>2. n + i = n + j
    BY <2>1 DEF Collectable, Distinct
  <2> QED
    BY <1>0, <1>1, <2>2
<1>3. ASSUME NEW i \in 1..Len(b), NEW j \in 1..Len(q) PROVE b[i] # q[j]
  BY <1>3 DEF Collectable, Among
<1>4. Distinct(batch)
  <2> SUFFICES ASSUME NEW i \in 1..Len(batch), NEW j \in 1..Len(batch), batch[i] = batch[j]
               PROVE  i = j
    BY DEF Distinct
  <2>1. /\ batch[i] = IF i <= Len(b) THEN b[i] ELSE q[i - Len(b)]
        /\ batch[j] = IF j <= Len(b) THEN b[j] ELSE q[j - Len(b)]
    BY <1>1
  <2>2. /\ i <= Len(b) => i \in 1..Len(b)
        /\ j <= Len(b) => j \in 1..Len(b)
        /\ ~(i <= Len(b)) => i - Len(b) \in 1..Len(q)
        /\ ~(j <= Len(b)) => j - Len(b) \in 1..Len(q)
    BY <1>0, <1>1
  <2>3. CASE i <= Len(b) /\ j <= Len(b)
    BY <2>1, <2>2, <2>3 DEF Collectable, Distinct
  <2>4. CASE ~(i <= Len(b)) /\ ~(j <= Len(b))
    <3>1. i - Len(b) = j - Len(b)
      BY <2>1, <2>2, <2>4 DEF Collectable, Distinct
    <3> QED
      BY <1>0, <1>1, <3>1
  <2> QED
    BY <1>3, <2>1, <2>2, <2>3, <2>4
<1>5. ASSUME NEW i \in 1..Len(rest) PROVE state[rest[i]] = "queued" /\ ~Among(rest[i], batch)
  <2>1. n + i \in 1..Len(q) /\ rest[i] = q[n + i]
    BY <1>0, <1>1
  <2>2. state[rest[i]] = "queued"
    BY <2>1 DEF Collectable
  <2>3. ASSUME NEW j \in 1..Len(batch), batch[j] = rest[i] PROVE FALSE
    <3>1. batch[j] = IF j <= Len(b) THEN b[j] ELSE q[j - Len(b)]
      BY <1>1
    <3>2. CASE j <= Len(b)
      <4>1. j \in 1..Len(b)
        BY <1>0, <1>1, <3>2
      <4> QED
        BY <1>3, <2>1, <2>3, <3>1, <3>2, <4>1
    <3>3. CASE ~(j <= Len(b))
      <4>1. j - Len(b) \in 1..Len(q) /\ j - Len(b) # n + i
        BY <1>0, <1>1, <3>3
      <4> QED
        BY <2>1, <2>3, <3>1, <3>3, <4>1 DEF Collectable, Distinct
    <3> QED
      BY <3>2, <3>3
  <2> QED
    BY <2>2, <2>3 DEF Among
<1>6. ASSUME NEW i \in 1..Len(batch)
      PROVE  /\ state[batch[i]] \in Outstanding
             /\ state[batch[i]] = "queued" \/ batch[i] \notin attempted
  <2>1. batch[i] = IF i <= Len(b) THEN b[i] ELSE q[i - Len(b)]
    BY <1>1
  <2>2. /\ i <= Len(b) => i \in 1..Len(b)
        /\ ~(i <= Len(b)) => i - Len(b) \in 1..Len(q)
    BY <1>0, <1>1
  <2> QED
    BY <2>1, <2>2 DEF Collectable, Outstanding
<1>7. ASSUME NEW r \in Records, Among(r, b) PROVE Among(r, batch)
  <2>1. PICK i \in 1..Len(b) : b[i] = r
    BY <1>7 DEF Among
  <2>2. i \in 1..Len(batch) /\ i <= Len(b)
    BY <1>0, <1>1
  <2> QED
    BY <1>1, <2>1, <2>2 DEF Among
<1>8. ASSUME NEW r \in Records, Among(r, q) PROVE Among(r, batch) \/ Among(r, rest)
  <2>1. PICK i \in 1..Len(q) : q[i] = r
    BY <1>8 DEF Among
  <2>2. CASE i <= n
    <3>1. Len(b) + i \in 1..Len(batch) /\ ~(Len(b) + i <= Len(b)) /\ (Len(b) + i) - Len(b) = i
      BY <1>0, <1>1, <2>2
    <3> QED
      BY <1>1, <2>1, <3>1 DEF Among
  <2>3. CASE ~(i <= n)
    <3>1. i - n \in 1..Len(rest) /\ n + (i - n) = i
      BY <1>0, <1>1, <2>3
    <3> QED
      BY <1>1, <2>1, <3>1 DEF Among
  <2> QED
    BY <2>2, <2>3
<1> QED
  BY <1>2, <1>4, <1>5, <1>6, <1>7, <1>8 DEF Collectable, Shares

(* A record goes from one place of the client to another. *)
Moves(r) ==
  \/ state'[r] = state[r]
  \/ state[r] \in Outstanding /\ state'[r] = "in_flight"

(* A worker that collects leaves every record in its place. *)
LEMMA CollectEffect ==
  ASSUME TypeOK, HistoryInv, ~cancelled, work = <<>>,
         UNCHANGED <<cancelled, work, wanted>>,
         NEW b \in Seq(Records), NEW q \in Seq(Records), Len(b) \in 1..BatchMaxSize,
         Collectable(b, q), Collect(b, q)
  PROVE  /\ state' \in [Records -> RecordStates]
         /\ queue' \in Seq(Records) /\ inFlight' \in Seq(Records)
         /\ worker' \in {"delivering", "lingering"} /\ attempted' \in SUBSET Records
         /\ Len(queue') + Len(inFlight') = Len(b) + Len(q)
         /\ \A r \in Records : Moves(r)
         /\ Held' = {}
         /\ Len(inFlight') \in 1..BatchMaxSize /\ Range(inFlight') \cap attempted = {}
         /\ QueueInv' /\ BatchInv' /\ SizeInv' /\ HeldInv' /\ WorkInv' /\ HistoryInv'
<1>0. /\ state \in [Records -> RecordStates] /\ attempted \in SUBSET Records
      /\ wanted \in [Flushes -> SUBSET Records]
  BY DEF TypeOK
<1>1. PICK n \in 0..Len(q) :
           /\ Len(b) + n <= BatchMaxSize
           /\ queue' = SubSeq(q, n + 1, Len(q))
           /\ inFlight' = b \o SubSeq(q, 1, n)
           /\ state' = [r \in Records |-> IF Among(r, inFlight') THEN "in_flight" ELSE state[r]]
           /\ \/ worker' = "delivering" /\ attempted' = attempted \cup Range(inFlight')
              \/ /\ n = 0 /\ Len(b) < BatchMaxSize
                 /\ worker' = "lingering" /\ attempted' = attempted
  BY CollectTakes
<1>2. /\ queue' \in Seq(Records) /\ Len(queue') = Len(q) - n
      /\ inFlight' \in Seq(Records) /\ Len(inFlight') = Len(b) + n
  BY <1>1, SharedOut
<1>3. /\ Distinct(queue') /\ Distinct(inFlight')
      /\ \A i \in 1..Len(queue') : state[queue'[i]] = "queued" /\ ~Among(queue'[i], inFlight')
      /\ \A i \in 1..Len(inFlight') :
           /\ state[inFlight'[i]] \in Outstanding
           /\ state[inFlight'[i]] = "queued" \/ inFlight'[i] \notin attempted
      /\ \A r \in Records :
           /\ state[r] = "queued" => Among(r, inFlight') \/ Among(r, queue')
           /\ state[r] \in {"held", "in_flight"} => Among(r, inFlight')
  <2>1. Shares(queue', inFlight')
    BY <1>1, SharedDistinct
  <2> QED
    BY <2>1 DEF Shares
<1>4. Len(q) \in Nat /\ Len(b) \in Nat /\ n \in Nat /\ BatchMaxSize \in Nat
  BY OptionsAssumption DEF ValidOptions
<1>5. /\ Len(queue') + Len(inFlight') = Len(b) + Len(q)
      /\ Len(inFlight') \in 1..BatchMaxSize
  <2>1. Len(queue') = Len(q) - n /\ Len(inFlight') = Len(b) + n /\ Len(b) + n <= BatchMaxSize
    BY <1>1, <1>2
  <2> QED
    BY <1>4, <2>1
<1>6. \A r \in Records : state'[r] = IF Among(r, inFlight') THEN "in_flight" ELSE state[r]
  BY <1>1
<1>7. \A i \in 1..Len(queue') : queue'[i] \in Records
  BY <1>2
<1>8. \A i \in 1..Len(inFlight') : inFlight'[i] \in Records /\ Among(inFlight'[i], inFlight')
  BY <1>2 DEF Among
<1>9. QueueInv'
  <2>1. \A i \in 1..Len(queue') : state'[queue'[i]] = "queued"
    BY <1>3, <1>6, <1>7
  <2>2. \A r \in Records : state'[r] = "queued" => Among(r, queue')
    BY <1>3, <1>6
  <2> QED
    BY <1>3, <2>1, <2>2 DEF QueueInv, Distinct, Among
<1>10. BatchInv'
  <2>1. \A i \in 1..Len(inFlight') : state'[inFlight'[i]] = "in_flight"
    BY <1>6, <1>8
  <2>2. \A r \in Records : state'[r] = "in_flight" => Among(r, inFlight')
    BY <1>3, <1>6
  <2> QED
    BY <1>3, <2>1, <2>2 DEF BatchInv, Distinct, Among
<1>11. ASSUME NEW r \in Records PROVE Moves(r)
  <2>1. Among(r, inFlight') => state[r] \in Outstanding
    BY <1>3 DEF Among
  <2> QED
    BY <1>6, <2>1 DEF Moves
<1>12. \A r \in Records : state'[r] # "held"
  BY <1>3, <1>6
<1>13. Held' = {}
  BY <1>12 DEF Held
<1>14. Range(inFlight') \cap attempted = {}
  <2> SUFFICES ASSUME NEW i \in 1..Len(inFlight'), inFlight'[i] \in attempted PROVE FALSE
    <3>1. DOMAIN inFlight' = 1..Len(inFlight')
      BY <1>2
    <3> QED
      BY <3>1 DEF Range
  <2>1. state[inFlight'[i]] = "queued"
    BY <1>3
  <2>2. state[inFlight'[i]] \in {"in_flight"} \cup Terminal
    BY DEF HistoryInv
  <2> QED
    BY <2>1, <2>2 DEF Terminal
<1>15. state' \in [Records -> RecordStates]
  BY <1>0, <1>1 DEF RecordStates, Outstanding
<1>16. worker' \in {"delivering", "lingering"} /\ (worker' = "lingering" => Len(inFlight') < BatchMaxSize)
  BY <1>1, <1>2, <1>4
<1>17. SizeInv'
  BY <1>4, <1>5, <1>16 DEF SizeInv
<1>18. HeldInv'
  BY <1>13 DEF HeldInv
<1>19. WorkInv'
  <2>1. work' = <<>> /\ Len(work') = 0
    OBVIOUS
  <2> QED
    BY <1>4, <1>5, <1>16, <2>1 DEF WorkInv, Sections
<1>20. Range(inFlight') \subseteq Records
  <2>1. DOMAIN inFlight' = 1..Len(inFlight')
    BY <1>2
  <2> QED
    BY <1>8, <2>1 DEF Range
<1>21. attempted' \in SUBSET Records
  BY <1>0, <1>1, <1>20
<1>22. HistoryInv'
  <2>1. ASSUME NEW r \in attempted' PROVE state'[r] \in {"in_flight"} \cup Terminal
    <3>1. CASE r \in attempted
      <4>1. state[r] \in {"in_flight"} \cup Terminal
        BY <3>1 DEF HistoryInv
      <4> QED
        BY <1>0, <1>6, <3>1, <4>1
    <3>2. CASE r \in Range(inFlight')
      <4>1. DOMAIN inFlight' = 1..Len(inFlight')
        BY <1>2
      <4>2. Among(r, inFlight')
        BY <3>2, <4>1 DEF Range, Among
      <4> QED
        BY <1>6, <1>20, <3>2, <4>2
    <3> QED
      BY <1>1, <2>1, <3>1, <3>2
  <2>2. worker' = "lingering" => attempted' = attempted
    BY <1>1
  <2>3. ASSUME worker' \in {"lingering", "gathering"}, NEW i \in 1..Len(inFlight')
        PROVE  inFlight'[i] \notin attempted'
    <3>1. DOMAIN inFlight' = 1..Len(inFlight')
      BY <1>2
    <3> QED
      BY <1>14, <1>16, <2>2, <2>3, <3>1 DEF Range
  <2>4. ASSUME NEW c \in Flushes, NEW r \in wanted'[c]
        PROVE  state'[r] \in Outstanding \cup Terminal
    <3>1. r \in Records /\ state[r] \in Outstanding \cup Terminal
      BY <1>0, <2>4 DEF HistoryInv
    <3> QED
      BY <1>11, <3>1 DEF Moves, Outstanding
  <2> QED
    BY <2>1, <2>3, <2>4 DEF HistoryInv
<1> QED
  BY <1>2, <1>5, <1>9, <1>10, <1>11, <1>13, <1>14, <1>15, <1>16, <1>17, <1>18, <1>19, <1>21, <1>22
-----------------------------------------------------------------------------
(* One lemma per kind of step.                                             *)

Inv == TypeOK /\ TasksExact /\ PlaceInv

(* What the arithmetic of the steps needs. *)
LEMMA Numbers ==
  ASSUME Inv
  PROVE  /\ Len(queue) \in Nat /\ Len(inFlight) \in Nat /\ Len(work) \in Nat
         /\ MaxQueueSize \in Nat /\ BatchMaxSize \in Nat
         /\ IsFiniteSet(Held) /\ Cardinality(Held) \in {0, 1}
         /\ Cardinality(Held) = 0 <=> Held = {}
         /\ unfinished \in Nat
         /\ unfinished = Len(queue) + Len(inFlight) + Cardinality(Held)
<1>1. /\ queue \in Seq(Records) /\ inFlight \in Seq(Records) /\ work \in Seq(Verdicts)
      /\ unfinished \in Nat
      /\ unfinished = Len(queue) + Len(inFlight) + Cardinality(Held)
  BY DEF Inv, TypeOK, TasksExact
<1>2. MaxQueueSize \in Nat /\ BatchMaxSize \in Nat
  BY OptionsAssumption DEF ValidOptions
<1>3. Held \in SUBSET Records
  BY DEF Held
<1>4. IsFiniteSet(Held)
  BY <1>3, FinitenessAssumption, FS_Subset
<1>5. Held = {} \/ \E r \in Held : Held = {r}
  BY DEF Inv, PlaceInv, HeldInv
<1>6. Cardinality(Held) \in {0, 1}
  BY <1>5, FS_EmptySet, FS_Singleton
<1>7. Cardinality(Held) = 0 <=> Held = {}
  BY <1>4, FS_EmptySet
<1> QED
  BY <1>1, <1>2, <1>4, <1>6, <1>7

(* Steps of callers, of callbacks and of shutdown() that touch no record. *)
LEMMA QuietKeeps ==
  ASSUME Inv, UNCHANGED <<state, queue, unfinished, inFlight, worker, cancelled, work, attempted>>,
         calling' => calling, StopInv',
         \A c \in Flushes : wanted'[c] = wanted[c] \/ wanted'[c] \subseteq In(Outstanding)
  PROVE  PlaceInv' /\ TasksExact'
<1>0. PlaceInv /\ TasksExact
  BY DEF Inv
<1>1. Held' = Held
  BY DEF Held
<1>2. TasksExact'
  BY <1>0, <1>1 DEF TasksExact
<1>3. QueueInv' /\ BatchInv' /\ SizeInv' /\ HeldInv'
  BY <1>0, <1>1 DEF PlaceInv, QueueInv, BatchInv, SizeInv, HeldInv, Distinct, Among
<1>4. WorkInv'
  BY <1>0 DEF PlaceInv, WorkInv
<1>5. HistoryInv'
  BY <1>0 DEF PlaceInv, HistoryInv, In
<1> QED
  BY <1>2, <1>3, <1>4, <1>5 DEF PlaceInv

(* The worker goes on with the records where they are. *)
LEMMA WorkerKeeps ==
  ASSUME Inv,
         UNCHANGED <<state, queue, unfinished, inFlight, cancelled, work, attempted, wanted, stop>>,
         \/ worker = "none" /\ worker' = "idle"
         \/ worker = "lingering" /\ worker' = "gathering"
         \/ worker \in CancelPoints /\ worker' = "gone"
         \/ worker = "applying" /\ worker' = "settling",
         worker' = "sweeping" => (calling' => calling),
         stop \in {"closing", "done"} => worker' \in {"none", "gone"}
  PROVE  PlaceInv' /\ TasksExact'
<1>0. PlaceInv /\ TasksExact
  BY DEF Inv
<1>1. Held' = Held
  BY DEF Held
<1>2. TasksExact'
  BY <1>0, <1>1 DEF TasksExact
<1>3. QueueInv' /\ BatchInv' /\ SizeInv'
  BY <1>0 DEF PlaceInv, QueueInv, BatchInv, SizeInv, Distinct, Among, CancelPoints
<1>4. HeldInv'
  BY <1>0, <1>1 DEF PlaceInv, HeldInv, CancelPoints
<1>5. WorkInv'
  BY <1>0 DEF PlaceInv, WorkInv, CancelPoints, Sections
<1>6. HistoryInv'
  BY <1>0 DEF PlaceInv, HistoryInv, CancelPoints
<1>7. StopInv'
  BY <1>0 DEF PlaceInv, StopInv
<1> QED
  BY <1>2, <1>3, <1>4, <1>5, <1>6, <1>7 DEF PlaceInv

(* record() decides on a record at once. *)
LEMMA RefusalKeeps ==
  ASSUME Inv, NEW r \in Records, state[r] = "new", NEW to \in {"refused", "dropped"},
         state' = [state EXCEPT ![r] = to],
         UNCHANGED <<queue, unfinished, inFlight, cancelled, work, attempted, wanted, stop>>,
         worker' = worker \/ (worker = "none" /\ worker' = "idle" /\ stop = "no"),
         worker' = "sweeping" => (calling' => calling)
  PROVE  PlaceInv' /\ TasksExact'
<1>0. PlaceInv /\ TasksExact
  BY DEF Inv
<1>t. /\ state \in [Records -> RecordStates]
      /\ queue \in Seq(Records) /\ inFlight \in Seq(Records) /\ attempted \in SUBSET Records
      /\ wanted \in [Flushes -> SUBSET Records]
  BY DEF Inv, TypeOK
<1>s. /\ \A q \in Records : q # r => state'[q] = state[q]
      /\ state'[r] = to
  BY <1>t
<1>q. \A i \in 1..Len(queue) : queue[i] \in Records /\ queue[i] # r
  BY <1>0, <1>t DEF PlaceInv, QueueInv
<1>b. \A i \in 1..Len(inFlight) : inFlight[i] \in Records /\ inFlight[i] # r
  BY <1>0, <1>t DEF PlaceInv, BatchInv, Terminal
<1>1. Held' = Held
  BY <1>s DEF Held
<1>2. TasksExact'
  BY <1>0, <1>1 DEF TasksExact
<1>3. QueueInv'
  BY <1>0, <1>s, <1>q DEF PlaceInv, QueueInv, Distinct, Among
<1>4. BatchInv'
  BY <1>0, <1>s, <1>b DEF PlaceInv, BatchInv, Distinct, Among
<1>5. SizeInv'
  BY <1>0 DEF PlaceInv, SizeInv
<1>6. HeldInv'
  BY <1>0, <1>1 DEF PlaceInv, HeldInv
<1>7. WorkInv'
  <2>1. worker' \in Sections <=> worker \in Sections
    BY DEF Sections
  <2>2. calling' /\ worker' = "sweeping" => calling /\ worker = "sweeping"
    OBVIOUS
  <2>3. \A i \in 1..(Len(inFlight) - Len(work)) :
          state[inFlight[i]] \in Terminal => state'[inFlight[i]] \in Terminal
    <3>1. Len(inFlight) \in Nat /\ Len(work) \in Nat
      BY Numbers
    <3>2. \A i \in 1..(Len(inFlight) - Len(work)) : i \in 1..Len(inFlight)
      BY <3>1
    <3> QED
      BY <1>s, <1>b, <3>2
  <2> QED
    BY <1>0, <2>1, <2>2, <2>3 DEF PlaceInv, WorkInv
<1>8. StopInv'
  BY <1>0 DEF PlaceInv, StopInv
<1>9. HistoryInv'
  <2>1. \A q \in attempted : q \in Records /\ q # r
    BY <1>0, <1>t DEF PlaceInv, HistoryInv, Terminal
  <2>2. \A c \in Flushes : \A q \in wanted[c] : q \in Records /\ q # r
    BY <1>0, <1>t DEF PlaceInv, HistoryInv, Outstanding, Terminal
  <2> QED
    BY <1>0, <1>s, <2>1, <2>2 DEF PlaceInv, HistoryInv
<1> QED
  BY <1>2, <1>3, <1>4, <1>5, <1>6, <1>7, <1>8, <1>9 DEF PlaceInv

(* record() admits a record. *)
LEMMA AdmissionKeeps ==
  ASSUME Inv, NEW r \in Records, state[r] = "new",
         state' = [state EXCEPT ![r] = "queued"], queue' = Append(queue, r),
         unfinished' = unfinished + 1,
         UNCHANGED <<inFlight, cancelled, work, calling, attempted, wanted, stop>>,
         worker' = worker \/ (worker = "none" /\ worker' = "idle" /\ stop = "no")
  PROVE  PlaceInv' /\ TasksExact'
<1>0. PlaceInv /\ TasksExact
  BY DEF Inv
<1>t. /\ state \in [Records -> RecordStates]
      /\ queue \in Seq(Records) /\ inFlight \in Seq(Records) /\ attempted \in SUBSET Records
      /\ wanted \in [Flushes -> SUBSET Records]
  BY DEF Inv, TypeOK
<1>s. /\ \A q \in Records : q # r => state'[q] = state[q]
      /\ state'[r] = "queued"
  BY <1>t
<1>q. \A i \in 1..Len(queue) : queue[i] \in Records /\ queue[i] # r
  BY <1>0, <1>t DEF PlaceInv, QueueInv
<1>b. \A i \in 1..Len(inFlight) : inFlight[i] \in Records /\ inFlight[i] # r
  BY <1>0, <1>t DEF PlaceInv, BatchInv, Terminal
<1>a. /\ Len(queue) \in Nat /\ Len(queue') = Len(queue) + 1
      /\ queue'[Len(queue) + 1] = r
      /\ \A i \in 1..Len(queue) : queue'[i] = queue[i]
  BY <1>t
<1>1. Held' = Held
  BY <1>s DEF Held
<1>2. TasksExact'
  <2>1. Cardinality(Held) \in Nat /\ Len(inFlight) \in Nat
    BY Numbers
  <2>2. unfinished' = (Len(queue) + Len(inFlight) + Cardinality(Held)) + 1
    BY <1>0 DEF TasksExact
  <2> QED
    BY <1>1, <1>a, <2>1, <2>2 DEF TasksExact
<1>3. QueueInv'
  <2>1. \A i \in 1..Len(queue') : i \in 1..Len(queue) \/ i = Len(queue) + 1
    BY <1>a
  <2>2. Distinct(queue')
    BY <1>0, <1>q, <1>a, <2>1 DEF PlaceInv, QueueInv, Distinct
  <2>3. \A i \in 1..Len(queue') : state'[queue'[i]] = "queued"
    BY <1>0, <1>s, <1>q, <1>a, <2>1 DEF PlaceInv, QueueInv
  <2>4. ASSUME NEW q \in Records, state'[q] = "queued" PROVE Among(q, queue')
    <3>1. CASE q = r
      <4>1. Len(queue) + 1 \in 1..Len(queue')
        BY <1>a
      <4> QED
        BY <1>a, <3>1, <4>1 DEF Among
    <3>2. CASE q # r
      <4>1. Among(q, queue)
        BY <1>0, <1>s, <2>4, <3>2 DEF PlaceInv, QueueInv
      <4>2. PICK i \in 1..Len(queue) : queue[i] = q
        BY <4>1 DEF Among
      <4>3. i \in 1..Len(queue')
        BY <1>a
      <4> QED
        BY <1>a, <4>2, <4>3 DEF Among
    <3> QED
      BY <3>1, <3>2
  <2> QED
    BY <2>2, <2>3, <2>4 DEF QueueInv, Distinct, Among
<1>4. BatchInv'
  BY <1>0, <1>s, <1>b DEF PlaceInv, BatchInv, Distinct, Among
<1>5. SizeInv'
  BY <1>0 DEF PlaceInv, SizeInv
<1>6. HeldInv'
  BY <1>0, <1>1 DEF PlaceInv, HeldInv
<1>7. WorkInv'
  <2>1. worker' \in Sections <=> worker \in Sections
    BY DEF Sections
  <2>2. calling' /\ worker' = "sweeping" => calling /\ worker = "sweeping"
    OBVIOUS
  <2>3. \A i \in 1..(Len(inFlight) - Len(work)) :
          state[inFlight[i]] \in Terminal => state'[inFlight[i]] \in Terminal
    <3>1. Len(inFlight) \in Nat /\ Len(work) \in Nat
      BY Numbers
    <3>2. \A i \in 1..(Len(inFlight) - Len(work)) : i \in 1..Len(inFlight)
      BY <3>1
    <3> QED
      BY <1>s, <1>b, <3>2
  <2> QED
    BY <1>0, <2>1, <2>2, <2>3 DEF PlaceInv, WorkInv
<1>8. StopInv'
  BY <1>0 DEF PlaceInv, StopInv
<1>9. HistoryInv'
  <2>1. \A q \in attempted : q \in Records /\ q # r
    BY <1>0, <1>t DEF PlaceInv, HistoryInv, Terminal
  <2>2. \A c \in Flushes : \A q \in wanted[c] : q \in Records /\ q # r
    BY <1>0, <1>t DEF PlaceInv, HistoryInv, Outstanding, Terminal
  <2> QED
    BY <1>0, <1>s, <2>1, <2>2 DEF PlaceInv, HistoryInv
<1> QED
  BY <1>2, <1>3, <1>4, <1>5, <1>6, <1>7, <1>8, <1>9 DEF PlaceInv

(* get_task takes the first record of the queue. *)
LEMMA GetTaskKeeps ==
  ASSUME Inv, GetTaskTakes
  PROVE  PlaceInv' /\ TasksExact'
<1>0. PlaceInv /\ TasksExact
  BY DEF Inv
<1>t. /\ state \in [Records -> RecordStates]
      /\ queue \in Seq(Records) /\ inFlight \in Seq(Records) /\ attempted \in SUBSET Records
      /\ wanted \in [Flushes -> SUBSET Records]
  BY DEF Inv, TypeOK
<1> DEFINE r == Head(queue)
<1>u. /\ worker = "lingering" /\ Held = {} /\ queue # <<>> /\ queue' = Tail(queue)
      /\ state' = [state EXCEPT ![r] = "held"]
      /\ UNCHANGED <<unfinished, inFlight, worker, cancelled, work, attempted, wanted, stop, calling>>
  BY DEF GetTaskTakes, workerVars, callerVars, callbackVars
<1>a. /\ Len(queue) \in Nat \ {0} /\ r = queue[1] /\ r \in Records
      /\ queue' \in Seq(Records) /\ Len(queue') = Len(queue) - 1
      /\ \A i \in 1..Len(queue') : queue'[i] = queue[i + 1] /\ i + 1 \in 1..Len(queue) /\ i + 1 # 1
  BY <1>t, <1>u
<1>h. 1 \in 1..Len(queue) /\ state[r] = "queued"
  BY <1>0, <1>a DEF PlaceInv, QueueInv
<1> HIDE DEF r
<1>s. /\ \A q \in Records : q # r => state'[q] = state[q]
      /\ state'[r] = "held"
  BY <1>t, <1>u, <1>a
<1>q. \A i \in 1..Len(queue') : queue'[i] \in Records /\ queue'[i] # r
  BY <1>0, <1>t, <1>a, <1>h DEF PlaceInv, QueueInv, Distinct
<1>b. \A i \in 1..Len(inFlight) : inFlight[i] \in Records /\ inFlight[i] # r
  BY <1>0, <1>t, <1>h DEF PlaceInv, BatchInv, Terminal
<1>1. Held' = {r}
  BY <1>u, <1>a, <1>s DEF Held
<1>2. TasksExact'
  <2>1. Cardinality(Held) = 0 /\ Cardinality(Held') = 1
    BY <1>1, <1>u, FS_EmptySet, FS_Singleton
  <2>2. Len(inFlight) \in Nat /\ Len(queue') = Len(queue) - 1 /\ Len(queue) \in Nat
    BY <1>a, Numbers
  <2>3. unfinished' = Len(queue) + Len(inFlight) + 0
    BY <1>0, <1>u, <2>1 DEF TasksExact
  <2>4. inFlight' = inFlight
    BY <1>u
  <2> QED
    BY <2>1, <2>2, <2>3, <2>4 DEF TasksExact
<1>3. QueueInv'
  <2>2. Distinct(queue')
    <3> SUFFICES ASSUME NEW i \in 1..Len(queue'), NEW j \in 1..Len(queue'), queue'[i] = queue'[j]
                 PROVE  i = j
      BY DEF Distinct
    <3>0. /\ i + 1 \in 1..Len(queue) /\ j + 1 \in 1..Len(queue)
          /\ queue[i + 1] = queue[j + 1]
      BY <1>a
    <3>1. i + 1 = j + 1
      BY <1>0, <3>0 DEF PlaceInv, QueueInv, Distinct
    <3> QED
      BY <1>a, <3>1
  <2>3. \A i \in 1..Len(queue') : state'[queue'[i]] = "queued"
    BY <1>0, <1>s, <1>q, <1>a DEF PlaceInv, QueueInv
  <2>4. ASSUME NEW q \in Records, state'[q] = "queued" PROVE Among(q, queue')
    <3>1. q # r /\ Among(q, queue)
      BY <1>0, <1>s, <2>4 DEF PlaceInv, QueueInv
    <3>2. PICK i \in 1..Len(queue) : queue[i] = q
      BY <3>1 DEF Among
    <3>3. i # 1
      BY <1>a, <3>1, <3>2
    <3>4. i - 1 \in 1..Len(queue') /\ (i - 1) + 1 = i
      BY <1>a, <3>3
    <3> QED
      BY <1>a, <3>2, <3>4 DEF Among
  <2> QED
    BY <2>2, <2>3, <2>4 DEF QueueInv, Distinct, Among
<1>4. BatchInv'
  BY <1>0, <1>u, <1>s, <1>b DEF PlaceInv, BatchInv, Distinct, Among
<1>5. SizeInv'
  BY <1>0, <1>u DEF PlaceInv, SizeInv
<1>6. HeldInv'
  BY <1>1, <1>u DEF HeldInv
<1>7. WorkInv'
  BY <1>0, <1>u DEF PlaceInv, WorkInv, Sections
<1>8. StopInv'
  BY <1>0, <1>u DEF PlaceInv, StopInv
<1>9. HistoryInv'
  <2>1. \A q \in attempted : q \in Records /\ q # r
    BY <1>0, <1>t, <1>h DEF PlaceInv, HistoryInv, Terminal
  <2>2. \A c \in Flushes : \A q \in wanted[c] :
          q \in Records /\ state'[q] \in Outstanding \cup Terminal
    BY <1>0, <1>t, <1>s DEF PlaceInv, HistoryInv, Outstanding
  <2> QED
    BY <1>0, <1>u, <1>s, <2>1, <2>2 DEF PlaceInv, HistoryInv
<1> QED
  BY <1>2, <1>3, <1>4, <1>5, <1>6, <1>7, <1>8, <1>9 DEF PlaceInv

(* The types of what the worker changes when it collects. *)
CollectTypes ==
  /\ state' \in [Records -> RecordStates]
  /\ queue' \in Seq(Records) /\ inFlight' \in Seq(Records)
  /\ worker' \in WorkerStates /\ attempted' \in SUBSET Records

(* What the sink is owed with a batch; that the batch holds no record      *)
(* twice is part of BatchInv.                                              *)
Handover ==
  /\ Len(inFlight') \in 1..BatchMaxSize
  /\ Range(inFlight') \cap attempted = {}

(* The worker takes the first record of its batch. *)
LEMMA WorkerGetsKeeps ==
  ASSUME Inv, WorkerGets
  PROVE  /\ CollectTypes /\ PlaceInv' /\ TasksExact' /\ Handover
         /\ Len(queue') + Len(inFlight') + Cardinality(Held') =
              Len(queue) + Len(inFlight) + Cardinality(Held)
         /\ \A r \in Records : Moves(r)
<1>0. PlaceInv /\ TasksExact /\ TypeOK
  BY DEF Inv
<1>t. queue \in Seq(Records) /\ BatchMaxSize \in 1..500
  BY OptionsAssumption DEF Inv, TypeOK, ValidOptions
<1> DEFINE b == <<Head(queue)>>
           q == Tail(queue)
<1>u. /\ worker = "idle" /\ ~cancelled /\ queue # <<>> /\ Collect(b, q)
      /\ UNCHANGED <<unfinished, cancelled, work, wanted, stop, calling>>
  BY DEF WorkerGets, callerVars, callbackVars
<1>e. inFlight = <<>> /\ work = <<>> /\ Held = {}
  BY <1>0, <1>u DEF PlaceInv, SizeInv, WorkInv, HeldInv, Sections
<1>a. /\ Len(queue) \in Nat \ {0} /\ Head(queue) = queue[1] /\ queue[1] \in Records
      /\ b \in Seq(Records) /\ Len(b) = 1 /\ b[1] = queue[1]
      /\ q \in Seq(Records) /\ Len(q) = Len(queue) - 1
      /\ \A i \in 1..Len(q) : q[i] = queue[i + 1] /\ i + 1 \in 1..Len(queue) /\ i + 1 # 1
      /\ 1 \in 1..Len(queue)
  BY <1>t, <1>u
<1> HIDE DEF b, q
<1>i. QueueInv /\ BatchInv /\ HistoryInv /\ StopInv
  BY <1>0 DEF PlaceInv
<1>1. Collectable(b, q)
  <2>1. Distinct(b)
    BY <1>a DEF Distinct
  <2>2. Distinct(q)
    <3> SUFFICES ASSUME NEW i \in 1..Len(q), NEW j \in 1..Len(q), q[i] = q[j] PROVE i = j
      BY DEF Distinct
    <3>1. /\ i + 1 \in 1..Len(queue) /\ j + 1 \in 1..Len(queue)
          /\ queue[i + 1] = queue[j + 1]
      BY <1>a
    <3>2. i + 1 = j + 1
      BY <1>i, <3>1 DEF QueueInv, Distinct
    <3> QED
      BY <1>a, <3>2
  <2>3. \A i \in 1..Len(b) : i = 1 /\ b[i] = queue[1]
    BY <1>a
  <2>4. state[queue[1]] = "queued" /\ queue[1] \notin attempted
    BY <1>i, <1>a DEF QueueInv, HistoryInv, Terminal
  <2>5. ~Among(queue[1], q)
    BY <1>i, <1>a DEF QueueInv, Distinct, Among
  <2>6. \A i \in 1..Len(q) : state[q[i]] = "queued"
    BY <1>i, <1>a DEF QueueInv
  <2>7. ASSUME NEW r \in Records, state[r] = "queued" PROVE Among(r, b) \/ Among(r, q)
    <3>1. PICK i \in 1..Len(queue) : queue[i] = r
      BY <1>i, <2>7 DEF QueueInv, Among
    <3>2. CASE i = 1
      BY <1>a, <3>1, <3>2 DEF Among
    <3>3. CASE i # 1
      <4>1. i - 1 \in 1..Len(q) /\ (i - 1) + 1 = i
        BY <1>a, <3>3
      <4> QED
        BY <1>a, <3>1, <4>1 DEF Among
    <3> QED
      BY <3>2, <3>3
  <2>8. \A r \in Records : state[r] # "in_flight" /\ state[r] # "held"
    <3>1. Len(inFlight) = 0
      BY <1>e
    <3> QED
      BY <1>i, <1>e, <3>1 DEF BatchInv, Among, Held
  <2> QED
    BY <2>1, <2>2, <2>3, <2>4, <2>5, <2>6, <2>7, <2>8 DEF Collectable, Outstanding
<1>2. Len(b) \in 1..BatchMaxSize
  BY <1>t, <1>a
<1>3. /\ state' \in [Records -> RecordStates]
      /\ queue' \in Seq(Records) /\ inFlight' \in Seq(Records)
      /\ worker' \in {"delivering", "lingering"} /\ attempted' \in SUBSET Records
      /\ Len(queue') + Len(inFlight') = Len(b) + Len(q)
      /\ \A r \in Records : Moves(r)
      /\ Held' = {}
      /\ Len(inFlight') \in 1..BatchMaxSize /\ Range(inFlight') \cap attempted = {}
      /\ QueueInv' /\ BatchInv' /\ SizeInv' /\ HeldInv' /\ WorkInv' /\ HistoryInv'
  BY <1>0, <1>1, <1>2, <1>a, <1>e, <1>i, <1>u, CollectEffect
<1>4. StopInv'
  BY <1>i, <1>u DEF StopInv
<1>5. CollectTypes /\ PlaceInv' /\ Handover
  BY <1>3, <1>4 DEF CollectTypes, PlaceInv, WorkerStates, Handover
<1>6. Cardinality(Held) = 0 /\ Cardinality(Held') = 0 /\ Len(inFlight) = 0
  BY <1>3, <1>e, FS_EmptySet
<1>7. Len(queue') + Len(inFlight') = Len(queue) + 0
  BY <1>3, <1>a
<1>8. unfinished' = Len(queue) + 0 + 0
  BY <1>0, <1>6, <1>u DEF TasksExact
<1>9. Len(queue') \in Nat /\ Len(inFlight') \in Nat
  BY <1>3
<1> QED
  BY <1>3, <1>5, <1>6, <1>7, <1>8, <1>9, <1>a DEF TasksExact

(* The finally block of _next_within_linger is over. *)
LEMMA GatherKeeps ==
  ASSUME Inv, GatherEnds
  PROVE  /\ CollectTypes /\ PlaceInv' /\ TasksExact'
         /\ worker' = "delivering" => Handover
         /\ Len(queue') + Len(inFlight') + Cardinality(Held') =
              Len(queue) + Len(inFlight) + Cardinality(Held)
         /\ \A r \in Records : Moves(r)
<1>0. PlaceInv /\ TasksExact /\ TypeOK
  BY DEF Inv
<1>t. /\ queue \in Seq(Records) /\ inFlight \in Seq(Records) /\ attempted \in SUBSET Records
      /\ state \in [Records -> RecordStates] /\ wanted \in [Flushes -> SUBSET Records]
      /\ BatchMaxSize \in 1..500
  BY OptionsAssumption DEF Inv, TypeOK, ValidOptions
<1>u. /\ worker = "gathering" /\ ~cancelled
      /\ UNCHANGED <<unfinished, cancelled, work, wanted, stop, calling>>
  BY DEF GatherEnds, callerVars, callbackVars
<1>i. QueueInv /\ BatchInv /\ SizeInv /\ HistoryInv /\ StopInv /\ HeldInv /\ work = <<>>
  BY <1>0, <1>u DEF PlaceInv, WorkInv, Sections
<1>n. /\ Len(inFlight) \in 1..(BatchMaxSize - 1) /\ Len(queue) \in Nat
      /\ \A i \in 1..Len(inFlight) : inFlight[i] \in Records /\ state[inFlight[i]] = "in_flight"
      /\ \A i \in 1..Len(inFlight) : inFlight[i] \notin attempted
  BY <1>i, <1>t, <1>u DEF SizeInv, BatchInv, HistoryInv
<1>r. Range(inFlight) = {inFlight[i] : i \in 1..Len(inFlight)}
  BY <1>t DEF Range
<1>1. CASE Held = {}
  <2>1. /\ worker' = "delivering" /\ attempted' = attempted \cup Range(inFlight)
        /\ UNCHANGED <<state, queue, inFlight>>
    BY <1>1 DEF GatherEnds
  <2>2. CollectTypes
    BY <1>n, <1>r, <1>t, <2>1 DEF CollectTypes, WorkerStates
  <2>3. Held' = Held /\ \A r \in Records : Moves(r)
    BY <2>1 DEF Held, Moves
  <2>4. TasksExact'
    BY <1>0, <1>u, <2>1, <2>3 DEF TasksExact
  <2>5. QueueInv' /\ BatchInv'
    BY <1>i, <2>1 DEF QueueInv, BatchInv, Distinct, Among
  <2>6. SizeInv' /\ HeldInv' /\ StopInv'
    BY <1>1, <1>i, <1>u, <2>1, <2>3 DEF SizeInv, HeldInv, StopInv
  <2>7. WorkInv'
    BY <1>0, <1>i, <1>u, <2>1 DEF PlaceInv, WorkInv, Sections
  <2>8. HistoryInv'
    BY <1>i, <1>n, <1>r, <1>u, <2>1 DEF HistoryInv
  <2>9. Handover
    BY <1>n, <1>r, <1>t, <2>1 DEF Handover
  <2> QED
    BY <2>1, <2>2, <2>3, <2>4, <2>5, <2>6, <2>7, <2>8, <2>9 DEF PlaceInv
<1>2. CASE Held # {}
  <2>1. PICK h \in Held : Collect(Append(inFlight, h), queue)
    BY <1>2 DEF GatherEnds
  <2>2. h \in Records /\ state[h] = "held" /\ Held = {h}
    BY <1>i DEF Held, HeldInv
  <2> DEFINE b == Append(inFlight, h)
  <2>3. /\ b \in Seq(Records) /\ Len(b) = Len(inFlight) + 1 /\ b[Len(inFlight) + 1] = h
        /\ \A i \in 1..Len(inFlight) : b[i] = inFlight[i]
        /\ \A i \in 1..Len(b) : i \in 1..Len(inFlight) \/ i = Len(inFlight) + 1
    BY <1>t, <2>2
  <2>c. Collect(b, queue)
    BY <2>1
  <2> HIDE DEF b
  <2>4. Collectable(b, queue)
    <3>1. Distinct(b)
      BY <1>i, <1>n, <2>2, <2>3 DEF BatchInv, Distinct
    <3>2. Distinct(queue) /\ \A i \in 1..Len(queue) : state[queue[i]] = "queued"
      BY <1>i DEF QueueInv
    <3>3. ASSUME NEW i \in 1..Len(b)
          PROVE  state[b[i]] \in {"in_flight", "held"} /\ b[i] \notin attempted
      <4>1. h \notin attempted
        BY <1>i, <2>2 DEF HistoryInv, Terminal
      <4> QED
        BY <1>n, <2>2, <2>3, <4>1
    <3>4. ASSUME NEW i \in 1..Len(b) PROVE state[b[i]] \in Outstanding /\ ~Among(b[i], queue)
      BY <3>2, <3>3 DEF Outstanding, Among
    <3>5. \A r \in Records : state[r] = "queued" => Among(r, queue)
      BY <1>i DEF QueueInv
    <3>6. ASSUME NEW r \in Records, state[r] = "in_flight" PROVE Among(r, b)
      <4>1. PICK i \in 1..Len(inFlight) : inFlight[i] = r
        BY <1>i, <3>6 DEF BatchInv, Among
      <4>2. i \in 1..Len(b)
        BY <1>n, <2>3
      <4> QED
        BY <2>3, <4>1, <4>2 DEF Among
    <3>7. ASSUME NEW r \in Records, state[r] = "held" PROVE Among(r, b)
      <4>1. r = h
        BY <2>2, <3>7 DEF Held
      <4>2. Len(inFlight) + 1 \in 1..Len(b)
        BY <1>n, <2>3
      <4> QED
        BY <2>3, <4>1, <4>2 DEF Among
    <3> QED
      BY <3>1, <3>2, <3>3, <3>4, <3>5, <3>6, <3>7 DEF Collectable
  <2>5. Len(b) \in 1..BatchMaxSize
    BY <1>t, <1>n, <2>3
  <2>6. /\ state' \in [Records -> RecordStates]
        /\ queue' \in Seq(Records) /\ inFlight' \in Seq(Records)
        /\ worker' \in {"delivering", "lingering"} /\ attempted' \in SUBSET Records
        /\ Len(queue') + Len(inFlight') = Len(b) + Len(queue)
        /\ \A r \in Records : Moves(r)
        /\ Held' = {}
        /\ Len(inFlight') \in 1..BatchMaxSize /\ Range(inFlight') \cap attempted = {}
        /\ QueueInv' /\ BatchInv' /\ SizeInv' /\ HeldInv' /\ WorkInv' /\ HistoryInv'
    BY <1>0, <1>i, <1>t, <1>u, <2>3, <2>4, <2>5, <2>c, CollectEffect
  <2>7. StopInv'
    BY <1>i, <1>u DEF StopInv
  <2>8. CollectTypes /\ PlaceInv' /\ Handover
    BY <2>6, <2>7 DEF CollectTypes, PlaceInv, WorkerStates, Handover
  <2>9. Cardinality(Held) = 1 /\ Cardinality(Held') = 0
    BY <2>2, <2>6, FS_EmptySet, FS_Singleton
  <2>10. Len(queue') + Len(inFlight') = Len(queue) + Len(inFlight) + 1
    BY <1>n, <2>3, <2>6
  <2>11. unfinished' = Len(queue) + Len(inFlight) + 1
    BY <1>0, <1>u, <2>9 DEF TasksExact
  <2>12. Len(queue') \in Nat /\ Len(inFlight') \in Nat
    BY <2>6
  <2> QED
    BY <1>n, <2>6, <2>8, <2>9, <2>10, <2>11, <2>12 DEF TasksExact
<1> QED
  BY <1>1, <1>2

(* The sink answers, raises or is cancelled: the loop over the batch       *)
(* begins.                                                                 *)
LEMMA JudgeKeeps ==
  ASSUME Inv, worker = "delivering", worker' \in Sections, ~calling,
         NEW verdict \in [Records -> Terminal], Judge(verdict),
         UNCHANGED <<state, queue, unfinished, inFlight, cancelled, attempted, wanted, stop, calling>>
  PROVE  PlaceInv' /\ TasksExact' /\ work' \in Seq(Verdicts)
<1>0. PlaceInv /\ TasksExact /\ TypeOK
  BY DEF Inv
<1>1. Held' = Held /\ TasksExact'
  BY <1>0 DEF TasksExact, Held
<1>2. QueueInv' /\ BatchInv' /\ SizeInv'
  BY <1>0 DEF PlaceInv, QueueInv, BatchInv, SizeInv, Distinct, Among, Sections
<1>3. Held = {}
  BY <1>0 DEF PlaceInv, HeldInv
<1>4. HeldInv' /\ HistoryInv'
  BY <1>0, <1>1, <1>3 DEF PlaceInv, HeldInv, HistoryInv, Sections
<1>5. StopInv'
  BY <1>0 DEF PlaceInv, StopInv
<1>6. /\ work' \in Seq(Verdicts) /\ Len(work') = Len(inFlight)
      /\ \A i \in 1..Len(work') : work'[i].rec = inFlight[i]
  BY <1>0, JudgeTypes
<1>7. WorkInv'
  <2>1. Len(inFlight) \in Nat
    BY Numbers
  <2>2. /\ Len(work') <= Len(inFlight')
        /\ \A i \in 1..Len(work') : Len(inFlight') - Len(work') + i = i
        /\ 1..(Len(inFlight') - Len(work')) = {}
    BY <1>6, <2>1
  <2> QED
    BY <1>6, <2>2 DEF WorkInv
<1> QED
  BY <1>1, <1>2, <1>4, <1>5, <1>6, <1>7 DEF PlaceInv

(* One pass of the loop over the batch. *)
LEMMA SettleKeeps ==
  ASSUME Inv, Settle
  PROVE  /\ PlaceInv' /\ TasksExact'
         /\ state' \in [Records -> RecordStates] /\ counts' \in [CounterNames -> Nat]
         /\ work' \in Seq(Verdicts) /\ Len(work) \in Nat \ {0} /\ Len(work') = Len(work) - 1
         /\ Held' = Held
         /\ worker \in Sections
         /\ \A r \in Records : state'[r] = state[r] \/ state'[r] \in Terminal
<1>0. PlaceInv /\ TasksExact /\ TypeOK
  BY DEF Inv
<1>t. /\ queue \in Seq(Records) /\ inFlight \in Seq(Records) /\ attempted \in SUBSET Records
      /\ state \in [Records -> RecordStates] /\ wanted \in [Flushes -> SUBSET Records]
      /\ work \in Seq(Verdicts) /\ counts \in [CounterNames -> Nat]
  BY DEF Inv, TypeOK
<1> DEFINE v == Head(work)
<1>u. /\ ~calling /\ work # <<>> /\ work' = Tail(work)
      /\ \/ /\ state[v.rec] = "in_flight" /\ state' = [state EXCEPT ![v.rec] = v.to]
            /\ counts' = [counts EXCEPT ![v.to] = @ + 1]
         \/ state[v.rec] # "in_flight" /\ UNCHANGED <<state, counts>>
      /\ UNCHANGED <<queue, unfinished, inFlight, worker, cancelled, attempted, wanted, stop>>
  BY DEF Settle, Applies, batchVars, callerVars
<1>v. v \in Verdicts /\ v = work[1]
  BY <1>t, <1>u
<1>w. /\ Len(work) \in Nat \ {0} /\ work' \in Seq(Verdicts) /\ Len(work') = Len(work) - 1
      /\ \A i \in 1..Len(work') : work'[i] = work[i + 1] /\ i + 1 \in 1..Len(work)
      /\ 1 \in 1..Len(work)
  BY <1>t, <1>u
<1>x. v.rec \in Records /\ v.to \in Terminal
  BY <1>v DEF Verdicts
<1> HIDE DEF v
<1>i. QueueInv /\ BatchInv /\ SizeInv /\ HistoryInv /\ StopInv /\ HeldInv /\ WorkInv
  BY <1>0 DEF PlaceInv
<1>1. worker \in Sections
  BY <1>i, <1>u DEF WorkInv
<1> DEFINE k == Len(inFlight) - Len(work) + 1
<1>2. v.rec = inFlight[k] /\ Len(work) <= Len(inFlight)
  BY <1>1, <1>i, <1>v, <1>w DEF WorkInv
<1>3. Len(inFlight) \in Nat /\ k \in 1..Len(inFlight)
  BY <1>t, <1>w, <1>2
<1>s. /\ \A r \in Records : r # v.rec => state'[r] = state[r]
      /\ state[v.rec] = "in_flight" => state'[v.rec] = v.to
      /\ state[v.rec] # "in_flight" => state'[v.rec] = state[v.rec]
  BY <1>t, <1>u, <1>x
<1>4. state[v.rec] \in {"in_flight"} \cup Terminal /\ state'[v.rec] \in Terminal
  BY <1>2, <1>3, <1>i, <1>s, <1>x DEF BatchInv
<1>5. \A r \in Records :
        /\ state'[r] = state[r] \/ (state[r] = "in_flight" /\ state'[r] \in Terminal)
        /\ state[r] \in Terminal => state'[r] \in Terminal
  BY <1>4, <1>s, <1>x DEF Terminal
<1>6. Held' = Held
  BY <1>5 DEF Held, Terminal
<1>7. TasksExact'
  BY <1>0, <1>6, <1>u DEF TasksExact
<1>8. QueueInv'
  <2>1. \A i \in 1..Len(queue) : queue[i] \in Records
    BY <1>t
  <2> QED
    BY <1>5, <1>i, <1>u, <2>1 DEF QueueInv, Distinct, Among, Terminal
<1>9. BatchInv'
  <2>1. \A i \in 1..Len(inFlight) : inFlight[i] \in Records
    BY <1>t
  <2>2. \A i \in 1..Len(inFlight) : state'[inFlight[i]] \in {"in_flight"} \cup Terminal
    BY <1>5, <1>i, <2>1 DEF BatchInv
  <2>3. \A r \in Records : state'[r] = "in_flight" => state[r] = "in_flight"
    BY <1>5 DEF Terminal
  <2>4. worker' \notin {"lingering", "gathering"}
    BY <1>1, <1>u DEF Sections
  <2> QED
    BY <1>i, <1>u, <2>2, <2>3, <2>4 DEF BatchInv, Distinct, Among
<1>10. SizeInv' /\ StopInv' /\ HeldInv'
  BY <1>6, <1>i, <1>u DEF SizeInv, StopInv, HeldInv
<1>11. WorkInv'
  <2>1. ASSUME NEW i \in 1..Len(work')
        PROVE  work'[i].rec = inFlight'[Len(inFlight') - Len(work') + i]
    <3>1. work[i + 1].rec = inFlight[Len(inFlight) - Len(work) + (i + 1)]
      BY <1>1, <1>i, <1>w DEF WorkInv
    <3>2. Len(inFlight) - Len(work) + (i + 1) = Len(inFlight) - Len(work') + i
      BY <1>3, <1>w
    <3> QED
      BY <1>u, <1>w, <3>1, <3>2
  <2>2. ASSUME NEW i \in 1..(Len(inFlight') - Len(work'))
        PROVE  state'[inFlight'[i]] \in Terminal
    <3>1. i \in 1..(Len(inFlight) - Len(work)) \/ i = k
      BY <1>3, <1>u, <1>w
    <3>2. inFlight' = inFlight
      BY <1>u
    <3>3. CASE i = k
      BY <1>2, <1>4, <3>2, <3>3
    <3>4. CASE i \in 1..(Len(inFlight) - Len(work))
      <4>1. state[inFlight[i]] \in Terminal
        BY <1>1, <1>i, <3>4 DEF WorkInv
      <4>2. i \in 1..Len(inFlight)
        BY <1>3, <1>w, <3>4
      <4>3. inFlight[i] \in Records
        BY <1>t, <4>2
      <4> QED
        BY <1>5, <3>2, <4>1, <4>3
    <3> QED
      BY <3>1, <3>3, <3>4
  <2>3. Len(work') < Len(inFlight') /\ Len(work') <= Len(inFlight')
    BY <1>2, <1>3, <1>u, <1>w
  <2>4. worker' \in Sections
    BY <1>1, <1>u
  <2> QED
    BY <2>1, <2>2, <2>3, <2>4 DEF WorkInv
<1>12. HistoryInv'
  <2>1. \A r \in attempted : state'[r] \in {"in_flight"} \cup Terminal
    BY <1>5, <1>i, <1>t DEF HistoryInv
  <2>2. \A c \in Flushes : \A r \in wanted[c] : state'[r] \in Outstanding \cup Terminal
    BY <1>5, <1>i, <1>t DEF HistoryInv
  <2>3. worker' \notin {"lingering", "gathering"}
    BY <1>1, <1>u DEF Sections
  <2> QED
    BY <1>u, <2>1, <2>2, <2>3 DEF HistoryInv
<1>13. state' \in [Records -> RecordStates]
  BY <1>t, <1>u, <1>x DEF RecordStates
<1>14. counts' \in [CounterNames -> Nat]
  BY <1>t, <1>u, <1>x DEF CounterNames, Terminal
<1> QED
  BY <1>1, <1>5, <1>6, <1>7, <1>8, <1>9, <1>10, <1>11, <1>12, <1>13, <1>14, <1>w DEF PlaceInv

(* The finally blocks of _deliver and _worker. *)
LEMMA EndDeliverKeeps ==
  ASSUME Inv, EndDeliver
  PROVE  /\ PlaceInv' /\ TasksExact' /\ unfinished' \in Nat
         /\ Held = {} /\ Held' = {}
         /\ \A r \in Records : state[r] # "in_flight"
         /\ worker' \in {"idle", "gone"}
<1>0. PlaceInv /\ TasksExact /\ TypeOK
  BY DEF Inv
<1>t. /\ queue \in Seq(Records) /\ inFlight \in Seq(Records) /\ attempted \in SUBSET Records
      /\ state \in [Records -> RecordStates] /\ wanted \in [Flushes -> SUBSET Records]
  BY DEF Inv, TypeOK
<1>u. /\ worker \in {"settling", "sweeping"} /\ work = <<>> /\ inFlight' = <<>>
      /\ unfinished' = unfinished - Len(inFlight)
      /\ worker' = IF cancelled \/ worker = "sweeping" THEN "gone" ELSE "idle"
      /\ UNCHANGED <<state, queue, cancelled, work, attempted, wanted, calling>>
      /\ stop' = stop \/ (stop = "draining" /\ stop' = "drained")
  BY DEF EndDeliver, AfterDelivery, callbackVars
<1>i. QueueInv /\ BatchInv /\ SizeInv /\ HistoryInv /\ StopInv /\ HeldInv /\ WorkInv
  BY <1>0 DEF PlaceInv
<1>1. Held = {} /\ Held' = {}
  BY <1>i, <1>u DEF HeldInv, Held
<1>2. Len(inFlight) \in Nat /\ Len(queue) \in Nat /\ Len(work) = 0 /\ Len(inFlight') = 0
  BY <1>t, <1>u
<1>3. Cardinality(Held) = 0 /\ Cardinality(Held') = 0
  BY <1>1, FS_EmptySet
<1>4. unfinished = Len(queue) + Len(inFlight) + 0
  BY <1>0, <1>3 DEF TasksExact
<1>5. unfinished' \in Nat /\ unfinished' = Len(queue) + 0 + 0
  BY <1>2, <1>4, <1>u
<1>6. TasksExact'
  BY <1>2, <1>3, <1>5, <1>u DEF TasksExact
<1>7. \A r \in Records : state[r] # "in_flight"
  <2> SUFFICES ASSUME NEW r \in Records, state[r] = "in_flight" PROVE FALSE
    OBVIOUS
  <2>1. PICK j \in 1..Len(inFlight) : inFlight[j] = r
    BY <1>i DEF BatchInv, Among
  <2>2. j \in 1..(Len(inFlight) - Len(work))
    BY <1>2
  <2>3. state[inFlight[j]] \in Terminal
    BY <1>i, <1>u, <2>2 DEF WorkInv, Sections
  <2> QED
    BY <2>1, <2>3 DEF Terminal
<1>8. worker' \in {"idle", "gone"}
  BY <1>u
<1>9. QueueInv'
  BY <1>i, <1>u DEF QueueInv, Distinct, Among
<1>10. BatchInv'
  <2>1. \A i \in 1..Len(inFlight') : FALSE
    BY <1>2
  <2> QED
    BY <1>7, <1>8, <1>u, <2>1 DEF BatchInv, Distinct
<1>11. SizeInv'
  <2>1. BatchMaxSize \in Nat
    BY OptionsAssumption DEF ValidOptions
  <2> QED
    BY <1>2, <1>8, <1>u, <2>1 DEF SizeInv
<1>12. HeldInv' /\ StopInv'
  BY <1>1, <1>i, <1>u DEF HeldInv, StopInv
<1>13. WorkInv'
  BY <1>2, <1>8, <1>u DEF WorkInv, Sections
<1>14. HistoryInv'
  BY <1>8, <1>i, <1>u DEF HistoryInv
<1> QED
  BY <1>1, <1>5, <1>6, <1>7, <1>8, <1>9, <1>10, <1>11, <1>12, <1>13, <1>14 DEF PlaceInv

(* _abandon_outstanding finds every record that is queued or in flight. *)
LEMMA AbandonedStates ==
  ASSUME Inv, AbandonOutstanding
  PROVE  /\ state' \in [Records -> RecordStates]
         /\ \A r \in Records :
              /\ state'[r] = Abandoned(r)
              /\ state[r] = "queued" => state'[r] = "dropped"
              /\ state[r] = "in_flight" => state'[r] = "unknown"
              /\ state[r] \notin {"queued", "in_flight"} => state'[r] = state[r]
         /\ Held' = Held
<1>0. /\ state \in [Records -> RecordStates] /\ inFlight \in Seq(Records) /\ BatchInv
  BY DEF Inv, TypeOK, PlaceInv
<1>1. state' = [r \in Records |-> Abandoned(r)]
  BY DEF AbandonOutstanding
<1>2. \A r \in Records : state'[r] = Abandoned(r)
  BY <1>1
<1>3. \A r \in Records : state[r] = "in_flight" => r \in Range(inFlight)
  <2>1. DOMAIN inFlight = 1..Len(inFlight)
    BY <1>0
  <2> QED
    BY <1>0, <2>1 DEF BatchInv, Among, Range
<1>4. \A r \in Records :
        /\ state[r] = "queued" => state'[r] = "dropped"
        /\ state[r] = "in_flight" => state'[r] = "unknown"
        /\ state[r] \notin {"queued", "in_flight"} => state'[r] = state[r]
  BY <1>2, <1>3 DEF Abandoned
<1>5. \A r \in Records : state'[r] = "held" <=> state[r] = "held"
  BY <1>0, <1>4
<1>6. Held' = Held
  BY <1>5 DEF Held
<1>7. \A r \in Records : Abandoned(r) \in RecordStates
  BY <1>0 DEF Abandoned, RecordStates, Terminal
<1> QED
  BY <1>1, <1>2, <1>4, <1>6, <1>7

(* What shutdown() gives up, before and after the worker has ended. *)
LEMMA AbandonKeeps ==
  ASSUME Inv, AbandonOutstanding, worker \notin Sections,
         UNCHANGED <<worker, work, attempted, wanted>>,
         cancelled' \/ worker \in {"none", "gone"}, StopInv'
  PROVE  PlaceInv' /\ TasksExact' /\ unfinished' \in Nat
<1>0. PlaceInv /\ TasksExact /\ TypeOK
  BY DEF Inv
<1>t. /\ queue \in Seq(Records) /\ inFlight \in Seq(Records) /\ attempted \in SUBSET Records
      /\ state \in [Records -> RecordStates] /\ wanted \in [Flushes -> SUBSET Records]
  BY DEF Inv, TypeOK
<1>u. /\ queue' = <<>> /\ unfinished' = unfinished - Len(queue)
      /\ UNCHANGED <<inFlight, calling>>
  BY DEF AbandonOutstanding, AbandonedTasks
<1>i. QueueInv /\ BatchInv /\ SizeInv /\ HistoryInv /\ StopInv /\ HeldInv /\ WorkInv
  BY <1>0 DEF PlaceInv
<1>s. /\ \A r \in Records :
           /\ state[r] = "queued" => state'[r] = "dropped"
           /\ state[r] = "in_flight" => state'[r] = "unknown"
           /\ state[r] \notin {"queued", "in_flight"} => state'[r] = state[r]
      /\ Held' = Held
  BY AbandonedStates
<1>1. \A r \in Records :
        /\ state'[r] # "queued" /\ state'[r] # "in_flight"
        /\ state[r] \in {"in_flight"} \cup Terminal => state'[r] \in Terminal
        /\ state[r] \in Outstanding \cup Terminal => state'[r] \in Outstanding \cup Terminal
  BY <1>s DEF Outstanding, Terminal
<1>2. unfinished' \in Nat /\ TasksExact'
  <2>1. /\ Len(queue) \in Nat /\ Len(inFlight) \in Nat /\ Cardinality(Held) \in Nat
        /\ unfinished = Len(queue) + Len(inFlight) + Cardinality(Held)
    BY Numbers
  <2>2. /\ unfinished' = Len(inFlight) + Cardinality(Held)
        /\ unfinished' = 0 + Len(inFlight) + Cardinality(Held)
        /\ unfinished' \in Nat
    BY <1>u, <2>1
  <2>3. Len(queue') = 0 /\ inFlight' = inFlight
    BY <1>u
  <2> QED
    BY <1>s, <2>2, <2>3 DEF TasksExact
<1>3. QueueInv'
  <2>1. \A i \in 1..Len(queue') : FALSE
    BY <1>u
  <2> QED
    BY <1>1, <1>u, <2>1 DEF QueueInv, Distinct
<1>4. BatchInv'
  <2>1. \A i \in 1..Len(inFlight) : inFlight[i] \in Records
    BY <1>t
  <2> QED
    BY <1>1, <1>i, <1>u, <2>1 DEF BatchInv, Distinct
<1>5. SizeInv' /\ HeldInv'
  BY <1>i, <1>s, <1>u DEF SizeInv, HeldInv
<1>6. WorkInv'
  BY <1>i, <1>u DEF WorkInv, Sections
<1>7. HistoryInv'
  <2>1. \A r \in attempted : state'[r] \in {"in_flight"} \cup Terminal
    BY <1>1, <1>i, <1>t DEF HistoryInv
  <2>2. \A c \in Flushes : \A r \in wanted[c] : state'[r] \in Outstanding \cup Terminal
    BY <1>1, <1>i, <1>t DEF HistoryInv
  <2> QED
    BY <1>i, <1>u, <2>1, <2>2 DEF HistoryInv
<1> QED
  BY <1>2, <1>3, <1>4, <1>5, <1>6, <1>7 DEF PlaceInv

(* The counters after _abandon_outstanding are numbers. *)
LEMMA AbandonCounts ==
  ASSUME TypeOK, AbandonOutstanding
  PROVE  counts' \in [CounterNames -> Nat]
<1> DEFINE S(n) == {r \in {q \in Records : Abandoned(q) # state[q]} : Abandoned(r) = n}
<1>1. counts' = [n \in CounterNames |-> counts[n] + Cardinality(S(n))]
  BY DEF AbandonOutstanding
<1>2. ASSUME NEW n \in CounterNames PROVE Cardinality(S(n)) \in Nat
  <2>1. S(n) \in SUBSET Records
    OBVIOUS
  <2> HIDE DEF S
  <2>2. IsFiniteSet(S(n))
    BY <2>1, FinitenessAssumption, FS_Subset
  <2> QED
    BY <2>2, FS_CardinalityType
<1> HIDE DEF S
<1>3. \A n \in CounterNames : counts[n] \in Nat
  BY DEF TypeOK
<1> QED
  BY <1>1, <1>2, <1>3
-----------------------------------------------------------------------------
(* The invariant.                                                          *)

LEMMA InvInit == Init => Inv
<1> SUFFICES ASSUME Init PROVE Inv
  OBVIOUS
<1>1. TypeOK
  <2>1. state \in [Records -> RecordStates] /\ counts \in [CounterNames -> Nat]
    BY DEF Init, RecordStates
  <2>2. flush \in [Flushes -> FlushStates]
    BY DEF Init, FlushStates
  <2>3. wanted \in [Flushes -> SUBSET Records]
    BY DEF Init
  <2>4. queue \in Seq(Records) /\ inFlight \in Seq(Records) /\ work \in Seq(Verdicts)
    BY DEF Init
  <2>5. worker \in WorkerStates /\ stop \in StopStates
    BY DEF Init, WorkerStates, StopStates
  <2> QED
    BY <2>1, <2>2, <2>3, <2>4, <2>5 DEF Init, TypeOK
<1>2. Held = {}
  BY DEF Init, Held
<1>3. Cardinality(Held) = 0 /\ Len(queue) = 0 /\ Len(inFlight) = 0 /\ Len(work) = 0
  BY <1>2, FS_EmptySet DEF Init
<1>4. TasksExact
  BY <1>3 DEF TasksExact, Init
<1>5. QueueInv /\ BatchInv
  BY <1>3 DEF Init, QueueInv, BatchInv, Distinct
<1>6. SizeInv
  BY <1>3, OptionsAssumption DEF Init, SizeInv, ValidOptions
<1>7. HeldInv /\ WorkInv /\ StopInv /\ HistoryInv
  BY <1>2, <1>3 DEF Init, HeldInv, WorkInv, StopInv, HistoryInv, Sections
<1> QED
  BY <1>1, <1>4, <1>5, <1>6, <1>7 DEF Inv, PlaceInv

(* What record() does with one submission, as the lemmas above take it. *)
LEMMA RecordKeeps ==
  ASSUME Inv, NEW r \in Records, RecordValid(r) \/ RecordInvalid(r) \/ RecordRefused(r)
  PROVE  Inv'
<1>t. TypeOK /\ r \in Records
  BY DEF Inv
<1>1. CASE RecordValid(r) /\ Depth >= MaxQueueSize
  <2>u. /\ state[r] = "new" /\ state' = [state EXCEPT ![r] = "dropped"]
        /\ UNCHANGED <<queue, unfinished, inFlight, cancelled, work, attempted, flush, wanted, stop>>
        /\ worker' = worker \/ (worker = "none" /\ worker' = "idle" /\ stop = "no")
        /\ calling' = (calling \/ HasOnFailure)
        /\ notified' = IF HasOnFailure THEN notified \cup {r} ELSE notified
        /\ counts' = [counts EXCEPT !["submitted"] = @ + 1, !["dropped"] = @ + 1]
        /\ draining' = (draining /\ worker # "none")
        /\ calling \/ worker \notin Sections
    BY <1>1 DEF RecordValid, Submit, NotifyFailure, EnsureStarted, Accepting, UserInControl
  <2>1. TypeOK'
    <3>1. state' \in [Records -> RecordStates]
      BY <1>t, <2>u DEF TypeOK, RecordStates, Terminal
    <3>2. counts' \in [CounterNames -> Nat]
      BY <1>t, <2>u DEF TypeOK, CounterNames
    <3>3. worker' \in WorkerStates /\ notified' \in SUBSET Records
      BY <1>t, <2>u DEF TypeOK, WorkerStates
    <3>4. calling' \in BOOLEAN /\ draining' \in BOOLEAN
      BY <2>u
    <3> QED
      BY <1>t, <2>u, <3>1, <3>2, <3>3, <3>4 DEF TypeOK
  <2>2. worker' = "sweeping" => (calling' => calling)
    BY <2>u DEF Sections
  <2>3. PlaceInv' /\ TasksExact'
    BY <2>u, <2>2, RefusalKeeps
  <2> QED
    BY <2>1, <2>3 DEF Inv
<1>2. CASE RecordValid(r) /\ ~(Depth >= MaxQueueSize)
  <2>u. /\ state[r] = "new" /\ state' = [state EXCEPT ![r] = "queued"]
        /\ queue' = Append(queue, r) /\ unfinished' = unfinished + 1
        /\ UNCHANGED <<inFlight, cancelled, work, attempted, flush, wanted, stop, calling, notified>>
        /\ worker' = worker \/ (worker = "none" /\ worker' = "idle" /\ stop = "no")
        /\ counts' = [counts EXCEPT !["submitted"] = @ + 1]
        /\ draining' = (draining /\ worker # "none")
    BY <1>2 DEF RecordValid, Submit, EnsureStarted, Accepting, callbackVars
  <2>1. TypeOK'
    <3>1. state' \in [Records -> RecordStates] /\ queue' \in Seq(Records) /\ unfinished' \in Nat
      BY <1>t, <2>u DEF TypeOK, RecordStates, Outstanding
    <3>2. counts' \in [CounterNames -> Nat]
      BY <1>t, <2>u DEF TypeOK, CounterNames
    <3>3. worker' \in WorkerStates
      BY <1>t, <2>u DEF TypeOK, WorkerStates
    <3>4. draining' \in BOOLEAN
      BY <2>u
    <3> QED
      BY <1>t, <2>u, <3>1, <3>2, <3>3, <3>4 DEF TypeOK
  <2>2. PlaceInv' /\ TasksExact'
    BY <2>u, AdmissionKeeps
  <2> QED
    BY <2>1, <2>2 DEF Inv
<1>3. CASE RecordInvalid(r) \/ RecordRefused(r)
  <2>u. /\ state[r] = "new" /\ state' = [state EXCEPT ![r] = "refused"]
        /\ UNCHANGED <<queue, unfinished, inFlight, cancelled, work, attempted, flush, wanted, stop,
                       counts>>
        /\ worker' = worker \/ (worker = "none" /\ worker' = "idle" /\ stop = "no")
        /\ calling' = calling \/ calling' = (calling \/ HasOnFailure)
        /\ notified' = notified \/ notified' = notified \cup {r}
        /\ draining' = draining \/ draining' = (draining /\ worker # "none")
        /\ calling \/ worker \notin Sections
    BY <1>3 DEF RecordInvalid, RecordRefused, NotifyFailure, EnsureStarted, Accepting,
                UserInControl, callbackVars, batchVars, workerVars, callerVars
  <2>1. TypeOK'
    <3>1. state' \in [Records -> RecordStates]
      BY <1>t, <2>u DEF TypeOK, RecordStates
    <3>3. worker' \in WorkerStates /\ notified' \in SUBSET Records
      BY <1>t, <2>u DEF TypeOK, WorkerStates
    <3>4. calling' \in BOOLEAN /\ draining' \in BOOLEAN
      BY <1>t, <2>u DEF TypeOK
    <3> QED
      BY <1>t, <2>u, <3>1, <3>3, <3>4 DEF TypeOK
  <2>2. worker' = "sweeping" => (calling' => calling)
    BY <2>u DEF Sections
  <2>3. PlaceInv' /\ TasksExact'
    BY <2>u, <2>2, RefusalKeeps
  <2> QED
    BY <2>1, <2>3 DEF Inv
<1> QED
  BY <1>1, <1>2, <1>3

(* The calls and timers of callers, which touch no record. *)
QuietStep ==
  \/ CallbackReturns \/ Shutdown \/ StopExpires \/ StopCancelled \/ StopEnds
  \/ \E c \in Flushes : FlushDrains(c) \/ FlushNotRunning(c) \/ FlushExpires(c) \/ FlushReturns(c)

LEMMA QuietStepKeeps ==
  ASSUME Inv, QuietStep
  PROVE  Inv'
<1>0. TypeOK /\ StopInv
  BY DEF Inv, PlaceInv
<1>u. /\ UNCHANGED <<state, queue, unfinished, inFlight, worker, cancelled, work, attempted,
                     counts, notified>>
      /\ calling' \in {calling, FALSE}
      /\ draining' \in {draining, TRUE, draining /\ stop # "no"}
  BY DEF QuietStep, CallbackReturns, Shutdown, StopExpires, StopCancelled, StopEnds, FlushDrains,
         FlushNotRunning, FlushExpires, FlushReturns, batchVars, workerVars, callerVars,
         callbackVars
<1>1. stop' \in StopStates /\ StopInv'
  <2>1. CASE CallbackReturns
    BY <1>0, <1>u, <2>1 DEF CallbackReturns, callerVars, StopInv, TypeOK
  <2>2. CASE Shutdown
    BY <1>0, <1>u, <2>2 DEF Shutdown, StopInv, StopStates
  <2>3. CASE StopExpires \/ StopCancelled \/ StopEnds
    BY <1>0, <1>u, <2>3 DEF StopExpires, StopCancelled, StopEnds, StopInv, StopStates
  <2>4. ASSUME NEW c \in Flushes,
               FlushDrains(c) \/ FlushNotRunning(c) \/ FlushExpires(c) \/ FlushReturns(c)
        PROVE  stop' = stop
    BY <2>4 DEF FlushDrains, FlushNotRunning, FlushExpires, FlushReturns
  <2> QED
    BY <1>0, <1>u, <2>1, <2>2, <2>3, <2>4 DEF QuietStep, StopInv, TypeOK
<1>2. /\ flush' \in [Flushes -> FlushStates] /\ wanted' \in [Flushes -> SUBSET Records]
      /\ \A c \in Flushes : wanted'[c] = wanted[c] \/ wanted'[c] \subseteq In(Outstanding)
  <2>t. flush \in [Flushes -> FlushStates] /\ wanted \in [Flushes -> SUBSET Records]
    BY <1>0 DEF TypeOK
  <2>1. CASE CallbackReturns \/ Shutdown \/ StopExpires \/ StopCancelled \/ StopEnds
    BY <2>t, <2>1 DEF CallbackReturns, Shutdown, StopExpires, StopCancelled, StopEnds, callerVars
  <2>2. ASSUME NEW c \in Flushes,
               FlushDrains(c) \/ FlushNotRunning(c) \/ FlushExpires(c) \/ FlushReturns(c)
        PROVE  /\ flush' \in [Flushes -> FlushStates] /\ wanted' \in [Flushes -> SUBSET Records]
               /\ \A d \in Flushes : wanted'[d] = wanted[d] \/ wanted'[d] \subseteq In(Outstanding)
    <3>1. \E x \in FlushStates : flush' = [flush EXCEPT ![c] = x]
      BY <2>t, <2>2 DEF FlushDrains, FlushNotRunning, FlushExpires, FlushReturns, FlushStates
    <3>2. wanted' = wanted \/ wanted' = [wanted EXCEPT ![c] = In(Outstanding)]
      BY <2>2 DEF FlushDrains, FlushNotRunning, FlushExpires, FlushReturns, NoteWanted, In
    <3>3. In(Outstanding) \in SUBSET Records
      BY DEF In
    <3> HIDE DEF In
    <3> QED
      BY <2>t, <3>1, <3>2, <3>3
  <2> QED
    BY <2>1, <2>2 DEF QuietStep
<1>3. TypeOK'
  <2>1. calling' \in BOOLEAN /\ draining' \in BOOLEAN
    BY <1>0, <1>u DEF TypeOK
  <2> QED
    BY <1>0, <1>1, <1>2, <1>u, <2>1 DEF TypeOK
<1>4. calling' => calling
  BY <1>u
<1>5. PlaceInv' /\ TasksExact'
  BY <1>1, <1>2, <1>4, <1>u, QuietKeeps
<1> QED
  BY <1>3, <1>5 DEF Inv

LEMMA InvNext == Inv /\ [Next]_vars => Inv'
<1> SUFFICES ASSUME Inv, [Next]_vars PROVE Inv'
  OBVIOUS
<1>0. TypeOK /\ PlaceInv /\ TasksExact
  BY DEF Inv
<1> USE DEF batchVars, workerVars, callerVars, callbackVars
<1>1. ASSUME NEW r \in Records, RecordValid(r) \/ RecordInvalid(r) \/ RecordRefused(r)
      PROVE  Inv'
  BY <1>1, RecordKeeps
<1>2. CASE Start \/ LingerEnds \/ WorkerEnds \/ NotifyDelivered
  <2>u. /\ UNCHANGED <<state, queue, unfinished, inFlight, cancelled, work, attempted, wanted, stop,
                       counts, flush, notified>>
        /\ \/ worker = "none" /\ worker' = "idle"
           \/ worker = "lingering" /\ worker' = "gathering"
           \/ worker \in CancelPoints /\ worker' = "gone"
           \/ worker = "applying" /\ worker' = "settling"
    BY <1>2 DEF Start, LingerEnds, WorkerEnds, NotifyDelivered, EnsureStarted
  <2>1. /\ worker' # "sweeping"
        /\ stop \in {"closing", "done"} => worker' \in {"none", "gone"}
    <3>1. CASE Start
      BY <3>1 DEF Start, EnsureStarted
    <3>2. CASE WorkerEnds
      BY <3>2 DEF WorkerEnds
    <3>3. CASE LingerEnds \/ NotifyDelivered
      BY <1>0, <3>3 DEF LingerEnds, NotifyDelivered, PlaceInv, StopInv
    <3> QED
      BY <1>2, <3>1, <3>2, <3>3
  <2>2. PlaceInv' /\ TasksExact'
    BY <2>1, <2>u, WorkerKeeps
  <2>3. calling' \in BOOLEAN /\ draining' \in BOOLEAN
    BY <1>0, <1>2 DEF Start, LingerEnds, WorkerEnds, NotifyDelivered, EnsureStarted, TypeOK
  <2>4. worker' \in WorkerStates
    BY <2>u DEF WorkerStates, Sections
  <2>5. TypeOK'
    BY <1>0, <2>3, <2>4, <2>u DEF TypeOK
  <2> QED
    BY <2>2, <2>5 DEF Inv
<1>3. CASE QuietStep
  BY <1>3, QuietStepKeeps
<1>4. CASE WorkerGets \/ GatherEnds
  <2>1. CollectTypes /\ PlaceInv' /\ TasksExact'
    BY <1>4, WorkerGetsKeeps, GatherKeeps
  <2>2. UNCHANGED <<unfinished, cancelled, work, counts, draining, flush, wanted, stop, calling,
                    notified>>
    BY <1>4 DEF WorkerGets, GatherEnds
  <2>3. TypeOK'
    BY <1>0, <2>1, <2>2 DEF TypeOK, CollectTypes
  <2> QED
    BY <2>1, <2>3 DEF Inv
<1>5. CASE GetTaskTakes
  <2>1. PlaceInv' /\ TasksExact'
    BY <1>5, GetTaskKeeps
  <2>2. /\ state' = [state EXCEPT ![Head(queue)] = "held"] /\ queue' = Tail(queue) /\ queue # <<>>
        /\ UNCHANGED <<unfinished, inFlight, worker, cancelled, work, attempted, counts, draining,
                       flush, wanted, stop, calling, notified>>
    BY <1>5 DEF GetTaskTakes
  <2>3. state' \in [Records -> RecordStates] /\ queue' \in Seq(Records)
    BY <1>0, <2>2 DEF TypeOK, RecordStates, Outstanding
  <2>4. TypeOK'
    BY <1>0, <2>2, <2>3 DEF TypeOK
  <2> QED
    BY <2>1, <2>4 DEF Inv
<1>6. CASE SinkAnswers \/ DeliveryCancelled
  <2>1. /\ worker = "delivering" /\ worker' \in Sections /\ ~calling
        /\ UNCHANGED <<state, queue, unfinished, inFlight, cancelled, attempted, wanted, stop,
                       calling, draining, flush, notified>>
    BY <1>6 DEF SinkAnswers, SinkAccepts, SinkFails, SinkRaises, SinkMisanswers,
                DeliveryCancelled, Answered, AtLoop, Sections
  <2>2. counts' \in [CounterNames -> Nat]
    <3>1. counts' = counts \/ CountBatch
      BY <1>6 DEF SinkAnswers, SinkAccepts, SinkFails, SinkRaises, SinkMisanswers,
                  DeliveryCancelled
    <3> QED
      BY <1>0, <3>1 DEF CountBatch, TypeOK, CounterNames
  <2>3. \E verdict \in [Records -> Terminal] : Judge(verdict)
    <3>1. ASSUME NEW rejected, NEW unknown, SinkAccepts(rejected, unknown)
          PROVE  \E verdict \in [Records -> Terminal] : Judge(verdict)
      <4> DEFINE verdict == [r \in Records |-> IF r \in rejected THEN "dropped"
                              ELSE IF r \in unknown THEN "unknown" ELSE "sent"]
      <4>1. Judge(verdict)
        BY <3>1 DEF SinkAccepts
      <4>2. verdict \in [Records -> Terminal]
        BY DEF Terminal
      <4> HIDE DEF verdict
      <4> QED
        BY <4>1, <4>2
    <3>2. CASE SinkFails
      <4>1. [r \in Records |-> "dropped"] \in [Records -> Terminal]
        BY DEF Terminal
      <4> QED
        BY <3>2, <4>1 DEF SinkFails
    <3>3. CASE SinkRaises \/ SinkMisanswers \/ DeliveryCancelled
      <4>1. [r \in Records |-> "unknown"] \in [Records -> Terminal]
        BY DEF Terminal
      <4> QED
        BY <3>3, <4>1 DEF SinkRaises, SinkMisanswers, DeliveryCancelled
    <3> QED
      BY <1>6, <3>1, <3>2, <3>3 DEF SinkAnswers
  <2>4. PlaceInv' /\ TasksExact' /\ work' \in Seq(Verdicts)
    BY <2>1, <2>3, JudgeKeeps
  <2>5. TypeOK'
    BY <1>0, <2>1, <2>2, <2>4 DEF TypeOK, WorkerStates
  <2> QED
    BY <2>4, <2>5 DEF Inv
<1>7. CASE Settle
  <2>1. /\ PlaceInv' /\ TasksExact'
        /\ state' \in [Records -> RecordStates] /\ counts' \in [CounterNames -> Nat]
        /\ work' \in Seq(Verdicts) /\ Len(work) \in Nat \ {0}
    BY <1>7, SettleKeeps
  <2>2. Head(work) \in Verdicts
    BY <1>0, <2>1 DEF TypeOK
  <2>3. calling' \in BOOLEAN /\ notified' \in SUBSET Records
    BY <1>0, <1>7, <2>2, OptionsAssumption DEF Settle, NotifyFailure, TypeOK, Verdicts,
       ValidOptions
  <2>4. UNCHANGED <<queue, unfinished, inFlight, worker, cancelled, attempted, draining, flush,
                    wanted, stop>>
    BY <1>7 DEF Settle
  <2>5. TypeOK'
    BY <1>0, <2>1, <2>3, <2>4 DEF TypeOK
  <2> QED
    BY <2>1, <2>5 DEF Inv
<1>8. CASE EndDeliver
  <2>1. /\ PlaceInv' /\ TasksExact' /\ unfinished' \in Nat
        /\ worker' \in WorkerStates
    BY <1>8, EndDeliverKeeps DEF WorkerStates
  <2>2. /\ inFlight' = <<>>
        /\ UNCHANGED <<state, queue, cancelled, work, attempted, counts, draining, wanted, calling,
                       notified>>
    BY <1>8 DEF EndDeliver
  <2>3. stop' \in StopStates /\ flush' \in [Flushes -> FlushStates]
    <3>1. stop' \in {stop, "drained"} /\ (flush' = flush \/ WakeFlushes)
      BY <1>8 DEF EndDeliver
    <3> QED
      BY <1>0, <3>1 DEF TypeOK, StopStates, FlushStates, WakeFlushes
  <2>4. TypeOK'
    BY <1>0, <2>1, <2>2, <2>3 DEF TypeOK
  <2> QED
    BY <2>1, <2>4 DEF Inv
<1>9. CASE StopReaps \/ StopCloses
  <2>1. /\ UNCHANGED <<worker, work, attempted, draining, wanted>> /\ AtLoop
        /\ cancelled' \in BOOLEAN /\ stop' \in StopStates
        /\ cancelled' \/ worker \in {"none", "gone"}
        /\ StopInv'
    BY <1>0, <1>9 DEF StopReaps, StopCloses, TypeOK, StopStates, StopInv, PlaceInv
  <2>2. CASE AbandonOutstanding
    <3>1. PlaceInv' /\ TasksExact' /\ unfinished' \in Nat
      BY <2>1, <2>2, AbandonKeeps DEF AtLoop
    <3>2. counts' \in [CounterNames -> Nat] /\ state' \in [Records -> RecordStates]
      BY <1>0, <2>2, AbandonCounts, AbandonedStates
    <3>3. /\ UNCHANGED <<inFlight, calling>> /\ queue' = <<>>
          /\ flush' = flush \/ WakeFlushes
      BY <2>2 DEF AbandonOutstanding
    <3>4. flush' \in [Flushes -> FlushStates] /\ notified' \in SUBSET Records
      <4>1. flush' \in [Flushes -> FlushStates]
        BY <1>0, <3>3 DEF TypeOK, FlushStates, WakeFlushes
      <4>2. notified' \in SUBSET Records
        BY <1>0, <2>2 DEF TypeOK, AbandonOutstanding
      <4> QED
        BY <4>1, <4>2
    <3>5. queue' \in Seq(Records)
      BY <3>3
    <3>6. TypeOK'
      BY <1>0, <2>1, <3>1, <3>2, <3>3, <3>4, <3>5 DEF TypeOK
    <3> QED
      BY <3>1, <3>6 DEF Inv
  <2>3. CASE ~AbandonOutstanding
    <3>u. UNCHANGED <<state, queue, unfinished, inFlight, counts, flush, calling, notified>>
      BY <1>9, <2>3 DEF StopReaps, StopCloses
    <3>1. TypeOK'
      BY <1>0, <2>1, <3>u DEF TypeOK
    <3>2. Held' = Held
      BY <3>u DEF Held
    <3>3. TasksExact'
      BY <1>0, <3>2, <3>u DEF TasksExact
    <3>4. QueueInv' /\ SizeInv' /\ HeldInv'
      BY <1>0, <2>1, <3>2, <3>u DEF PlaceInv, QueueInv, SizeInv, HeldInv, Distinct, Among
    <3>5. BatchInv'
      BY <1>0, <2>1, <3>u DEF PlaceInv, BatchInv, Distinct, Among
    <3>6. WorkInv' /\ HistoryInv'
      BY <1>0, <2>1, <3>u DEF PlaceInv, WorkInv, HistoryInv
    <3> QED
      BY <2>1, <3>1, <3>3, <3>4, <3>5, <3>6 DEF Inv, PlaceInv
  <2> QED
    BY <2>2, <2>3
<1>10. CASE UNCHANGED vars
  <2>u. UNCHANGED <<state, queue, unfinished, inFlight, worker, cancelled, work, attempted, counts,
                    draining, flush, wanted, stop, calling, notified>>
    BY <1>10 DEF vars
  <2>1. TypeOK'
    BY <1>0, <2>u DEF TypeOK
  <2>2. StopInv'
    BY <1>0, <2>u DEF PlaceInv, StopInv
  <2>3. PlaceInv' /\ TasksExact'
    BY <2>2, <2>u, QuietKeeps
  <2> QED
    BY <2>1, <2>3 DEF Inv
<1> QED
  BY <1>1, <1>2, <1>3, <1>4, <1>5, <1>6, <1>7, <1>8, <1>9, <1>10
  DEF Next, UserCall, LoopStep, QuietStep

(* Every record is where its state says, the task count of the queue is    *)
(* exact, and the types are right, in every state the client reaches.      *)
THEOREM PyInvariant == Spec => []Inv
<1>1. Init => Inv
  BY InvInit
<1>2. Inv /\ [Next]_vars => Inv'
  BY InvNext
<1> QED
  BY <1>1, <1>2, PTL DEF Spec
-----------------------------------------------------------------------------
(* max_queue_size and the task count.                                      *)

LEMMA ReleasedBounds ==
  ASSUME Inv
  PROVE  Released \in Nat /\ Released <= Len(inFlight)
<1>1. Len(inFlight) \in Nat /\ Len(work) \in Nat /\ Len(work) <= Len(inFlight)
  BY Numbers DEF Inv, PlaceInv, WorkInv
<1>2. calling /\ worker = "sweeping" => Len(work) < Len(inFlight)
  BY DEF Inv, PlaceInv, WorkInv
<1> QED
  BY <1>1, <1>2 DEF Released

(* With the task count exact the bound is one on the unfinished tasks. *)
Overrun == unfinished - Released <= MaxQueueSize + 1

LEMMA OverrunIsDepth ==
  ASSUME Inv
  PROVE  Overrun <=> DepthOverrunByOne
<1>1. unfinished = Len(queue) + Len(inFlight) + Cardinality(Held)
  BY Numbers
<1>2. /\ Len(queue) \in Nat /\ Len(inFlight) \in Nat /\ Cardinality(Held) \in Nat
      /\ Released \in Nat
  BY Numbers, ReleasedBounds
<1> QED
  BY <1>1, <1>2 DEF Overrun, DepthOverrunByOne

(* A step that adds no task, and gives back nothing that was released. *)
LEMMA OverrunKept ==
  ASSUME Inv, Inv', Overrun, unfinished' <= unfinished, Released' >= Released
  PROVE  Overrun'
<1>1. unfinished \in Nat /\ unfinished' \in Nat /\ MaxQueueSize \in Nat
  BY OptionsAssumption DEF Inv, TypeOK, ValidOptions
<1>2. Released \in Nat
  BY ReleasedBounds
<1>3. Len(inFlight') \in Nat /\ Len(work') \in Nat
  BY DEF Inv, TypeOK
<1>4. Released' \in Int
  BY <1>3 DEF Released
<1>5. unfinished - Released <= MaxQueueSize + 1
  BY DEF Overrun
<1>6. ASSUME NEW u \in Nat, NEW v \in Nat, NEW a \in Nat, NEW b \in Int, NEW m \in Nat,
             u - a <= m + 1, v <= u, b >= a
      PROVE  v - b <= m + 1
  BY <1>6
<1>7. unfinished' - Released' <= MaxQueueSize + 1
  BY <1>1, <1>2, <1>4, <1>5, <1>6
<1> QED
  BY <1>7 DEF Overrun

LEMMA OverrunNext == Inv /\ Inv' /\ Overrun /\ [Next]_vars => Overrun'
<1> SUFFICES ASSUME Inv, Inv', Overrun, [Next]_vars PROVE Overrun'
  OBVIOUS
<1> USE DEF batchVars, workerVars, callerVars, callbackVars
<1>0. TypeOK /\ PlaceInv /\ TasksExact
  BY DEF Inv
<1>n. /\ unfinished \in Nat /\ unfinished = Len(queue) + Len(inFlight) + Cardinality(Held)
      /\ Len(queue) \in Nat /\ Len(inFlight) \in Nat /\ Len(work) \in Nat
      /\ Cardinality(Held) \in {0, 1} /\ MaxQueueSize \in Nat
      /\ Released \in Nat /\ Released <= Len(inFlight)
  BY Numbers, ReleasedBounds
<1>k. ASSUME unfinished' = unfinished, UNCHANGED <<inFlight, work>>,
             worker' = "sweeping" <=> worker = "sweeping",
             worker = "sweeping" => (calling' => calling)
      PROVE  Overrun'
  <2>1. Released' >= Released
    BY <1>k, <1>n DEF Released
  <2> QED
    BY <1>k, <1>n, <2>1, OverrunKept
<1>1. ASSUME NEW r \in Records, RecordValid(r) \/ RecordInvalid(r) \/ RecordRefused(r)
      PROVE  Overrun'
  <2>1. /\ UNCHANGED <<inFlight, work>>
        /\ calling \/ worker \notin Sections
        /\ worker' = "sweeping" <=> worker = "sweeping"
    BY <1>1 DEF RecordValid, RecordInvalid, RecordRefused, EnsureStarted, Accepting, UserInControl
  <2>2. CASE unfinished' = unfinished
    BY <1>k, <2>1, <2>2 DEF Sections
  <2>3. CASE unfinished' # unfinished
    <3>1. /\ ~(Depth >= MaxQueueSize) /\ unfinished' = unfinished + 1 /\ calling' = calling
      BY <1>1, <2>3 DEF RecordValid, RecordInvalid, RecordRefused, Submit
    <3>2. Released' = Released
      BY <2>1, <3>1 DEF Released
    <3> QED
      BY <1>n, <3>1, <3>2 DEF Depth, Overrun
  <2> QED
    BY <2>2, <2>3
<1>2. CASE Start \/ LingerEnds \/ WorkerEnds \/ NotifyDelivered \/ QuietStep
  <2>1. /\ unfinished' = unfinished /\ UNCHANGED <<inFlight, work>>
        /\ worker' = "sweeping" <=> worker = "sweeping"
    BY <1>2 DEF QuietStep, CallbackReturns, Shutdown, StopExpires, StopCancelled, StopEnds,
         FlushDrains, FlushNotRunning, FlushExpires, FlushReturns, Start, LingerEnds, WorkerEnds,
         NotifyDelivered, EnsureStarted, CancelPoints
  <2>2. worker = "sweeping" => (calling' => calling)
    BY <1>2 DEF QuietStep, CallbackReturns, Shutdown, StopExpires, StopCancelled, StopEnds,
         FlushDrains, FlushNotRunning, FlushExpires, FlushReturns, Start, LingerEnds, WorkerEnds,
         NotifyDelivered
  <2> QED
    BY <1>k, <2>1, <2>2
<1>3. CASE WorkerGets \/ GatherEnds \/ GetTaskTakes
  <2>1. unfinished' = unfinished /\ worker # "sweeping"
    BY <1>3 DEF WorkerGets, GatherEnds, GetTaskTakes
  <2>2. worker' # "sweeping"
    <3>1. worker' \in {"delivering", "lingering"} \/ worker' = worker
      BY <1>3 DEF WorkerGets, GatherEnds, GetTaskTakes, Collect
    <3> QED
      BY <2>1, <3>1
  <2>3. Released = 0 /\ Released' = 0
    BY <2>1, <2>2 DEF Released
  <2> QED
    BY <1>n, <2>1, <2>3, OverrunKept
<1>4. CASE SinkAnswers \/ DeliveryCancelled
  <2>1. /\ worker = "delivering" /\ ~calling
        /\ UNCHANGED <<unfinished, inFlight, calling>>
    BY <1>4 DEF SinkAnswers, SinkAccepts, SinkFails, SinkRaises, SinkMisanswers,
                DeliveryCancelled, Answered, AtLoop
  <2>2. Len(work') <= Len(inFlight') /\ Len(work') \in Nat /\ Len(inFlight') \in Nat
    BY DEF Inv, TypeOK, PlaceInv, WorkInv
  <2>3. Released = 0 /\ Released' >= 0
    BY <2>1, <2>2 DEF Released
  <2> QED
    BY <1>n, <2>1, <2>3, OverrunKept
<1>5. CASE Settle
  <2>1. /\ unfinished' = unfinished /\ UNCHANGED <<inFlight, worker>> /\ ~calling
        /\ Len(work') = Len(work) - 1
    BY <1>5, SettleKeeps DEF Settle
  <2>2. Released' >= Released
    BY <1>n, <2>1 DEF Released
  <2> QED
    BY <1>n, <2>1, <2>2, OverrunKept
<1>6. CASE EndDeliver
  <2>1. Held = {} /\ worker' \in {"idle", "gone"}
    BY <1>6, EndDeliverKeeps
  <2>2. unfinished' = unfinished - Len(inFlight)
    BY <1>6 DEF EndDeliver
  <2>3. Released' = 0
    BY <2>1 DEF Released
  <2> QED
    BY <1>n, <2>2, <2>3 DEF Overrun
<1>7. CASE StopReaps \/ StopCloses
  <2>1. UNCHANGED <<worker, work>> /\ AtLoop
    BY <1>7 DEF StopReaps, StopCloses
  <2>2. unfinished' = unfinished \/ unfinished' = unfinished - Len(queue)
    BY <1>7 DEF StopReaps, StopCloses, AbandonOutstanding, AbandonedTasks
  <2>3. Released = 0 /\ Released' = 0
    BY <2>1 DEF Released, AtLoop, Sections
  <2>4. unfinished' <= unfinished
    BY <1>n, <2>2
  <2> QED
    BY <2>3, <2>4, OverrunKept
<1>8. CASE UNCHANGED vars
  BY <1>k, <1>8 DEF vars
<1> QED
  BY <1>1, <1>2, <1>3, <1>4, <1>5, <1>6, <1>7, <1>8 DEF Next, UserCall, LoopStep, QuietStep

(* The task count of the queue is exact, and the client never holds more   *)
(* than max_queue_size and the one record of get_task, however deliveries, *)
(* cancellation, callbacks that submit and shutdown() interleave.          *)
THEOREM PyQueueSound == Spec => []QueueSound
<1>1. Init => Overrun
  <2>1. Init => unfinished = 0 /\ Released = 0
    BY DEF Init, Released
  <2> QED
    BY <2>1, OptionsAssumption DEF Overrun, ValidOptions
<1>2. Inv /\ Inv' /\ Overrun /\ [Next]_vars => Overrun'
  BY OverrunNext
<1>3. Inv /\ Overrun => QueueSound
  BY OverrunIsDepth DEF Inv, QueueSound
<1> QED
  BY <1>1, <1>2, <1>3, PyInvariant, PTL DEF Spec
-----------------------------------------------------------------------------
(* What deliver() is called with.                                          *)

LEMMA DistinctCount ==
  ASSUME NEW s \in Seq(Records), Distinct(s)
  PROVE  Cardinality(Range(s)) = Len(s)
<1>1. /\ Len(s) \in Nat /\ s \in [1..Len(s) -> Range(s)]
      /\ Range(s) = {s[i] : i \in 1..Len(s)}
  BY DEF Range
<1>2. s \in Bijection(1..Len(s), Range(s))
  BY <1>1 DEF Bijection, Injection, Surjection, IsInjective, Distinct
<1>3. ExistsBijection(1..Len(s), Range(s))
  BY <1>2 DEF ExistsBijection
<1> QED
  BY <1>1, <1>3, FS_CountingElements

(* A batch is handed over in two places of the worker. *)
LEMMA HandoverSteps ==
  ASSUME Inv, [Next]_vars, worker # "delivering", worker' = "delivering"
  PROVE  WorkerGets \/ GatherEnds
<1> USE DEF batchVars, workerVars, callerVars, callbackVars
<1>1. ASSUME NEW r \in Records, RecordValid(r) \/ RecordInvalid(r) \/ RecordRefused(r)
      PROVE  FALSE
  BY <1>1 DEF RecordValid, RecordInvalid, RecordRefused, EnsureStarted
<1>2. ~(Start \/ LingerEnds \/ WorkerEnds \/ NotifyDelivered)
  BY DEF Start, LingerEnds, WorkerEnds, NotifyDelivered, EnsureStarted
<1>3. ~QuietStep
  BY DEF QuietStep, CallbackReturns, Shutdown, StopExpires, StopCancelled, StopEnds, FlushDrains,
         FlushNotRunning, FlushExpires, FlushReturns
<1>4. ~(SinkAnswers \/ DeliveryCancelled)
  BY DEF SinkAnswers, SinkAccepts, SinkFails, SinkRaises, SinkMisanswers, DeliveryCancelled,
         Answered
<1>5. ~(Settle \/ EndDeliver \/ GetTaskTakes)
  BY DEF Settle, EndDeliver, AfterDelivery, GetTaskTakes
<1>6. ~(StopReaps \/ StopCloses)
  BY DEF StopReaps, StopCloses
<1>7. ~(UNCHANGED vars)
  BY DEF vars
<1> QED
  BY <1>1, <1>2, <1>3, <1>4, <1>5, <1>6, <1>7 DEF Next, UserCall, LoopStep, QuietStep

(* deliver() gets batches of at most batch_max_size records, no record     *)
(* twice in a batch or in two batches, and none after close().             *)
THEOREM PySinkContract == Spec => SinkContract
<1>1. Inv /\ Inv' /\ [Next]_vars =>
        (worker # "delivering" /\ worker' = "delivering" =>
           /\ Len(inFlight') \in 1..BatchMaxSize
           /\ Cardinality(Range(inFlight')) = Len(inFlight')
           /\ Range(inFlight') \cap attempted = {}
           /\ ~SinkClosed')
  <2> SUFFICES ASSUME Inv, Inv', [Next]_vars, worker # "delivering", worker' = "delivering"
               PROVE  /\ Len(inFlight') \in 1..BatchMaxSize
                      /\ Cardinality(Range(inFlight')) = Len(inFlight')
                      /\ Range(inFlight') \cap attempted = {}
                      /\ ~SinkClosed'
    OBVIOUS
  <2>1. Handover
    BY HandoverSteps, WorkerGetsKeeps, GatherKeeps
  <2>2. inFlight' \in Seq(Records) /\ Distinct(inFlight')
    BY DEF Inv, TypeOK, PlaceInv, BatchInv, Distinct
  <2>3. Cardinality(Range(inFlight')) = Len(inFlight')
    BY <2>2, DistinctCount
  <2>4. ~SinkClosed'
    BY DEF Inv, PlaceInv, StopInv, SinkClosed
  <2> QED
    BY <2>1, <2>3, <2>4 DEF Handover
<1> QED
  BY <1>1, PyInvariant, PTL DEF Spec, SinkContract
-----------------------------------------------------------------------------
(* What becomes of a record.                                               *)

(* A record that is outstanding stays so or gets a verdict, and a verdict  *)
(* stands.                                                                 *)
Goes(r) ==
  \/ state'[r] = state[r]
  \/ state[r] = "new"
  \/ state[r] \in Outstanding /\ state'[r] \in Outstanding \cup Terminal

(* Steps with which no record changes. *)
StillStep ==
  \/ Start \/ LingerEnds \/ WorkerEnds \/ NotifyDelivered \/ EndDeliver
  \/ QuietStep \/ SinkAnswers \/ DeliveryCancelled

LEMMA StillStates == StillStep => UNCHANGED state
BY DEF StillStep, QuietStep, CallbackReturns, Shutdown, StopExpires, StopCancelled, StopEnds,
       FlushDrains, FlushNotRunning, FlushExpires, FlushReturns, Start, LingerEnds, WorkerEnds,
       NotifyDelivered, EndDeliver, SinkAnswers, SinkAccepts, SinkFails, SinkRaises,
       SinkMisanswers, DeliveryCancelled, Answered

(* The others, but for record(). *)
ActiveStep == WorkerGets \/ GatherEnds \/ GetTaskTakes \/ Settle \/ StopReaps \/ StopCloses

RecordStep(r) == RecordValid(r) \/ RecordInvalid(r) \/ RecordRefused(r)

LEMMA NextSteps ==
  ASSUME [Next]_vars
  PROVE  StillStep \/ ActiveStep \/ UNCHANGED vars \/ \E r \in Records : RecordStep(r)
BY DEF Next, UserCall, LoopStep, QuietStep, StillStep, ActiveStep, RecordStep

LEMMA RecordStepStates ==
  ASSUME Inv, NEW r \in Records, RecordStep(r)
  PROVE  /\ state[r] = "new" /\ state'[r] \in {"refused", "dropped", "queued"}
         /\ \A q \in Records : q # r => state'[q] = state[q]
<1>1. /\ state[r] = "new"
      /\ \E x \in {"refused", "dropped", "queued"} : state' = [state EXCEPT ![r] = x]
  BY DEF RecordStep, RecordValid, RecordInvalid, RecordRefused, Submit
<1>2. state \in [Records -> RecordStates]
  BY DEF Inv, TypeOK
<1> QED
  BY <1>1, <1>2

LEMMA StatesNext ==
  ASSUME Inv, [Next]_vars
  PROVE  \A r \in Records : Goes(r)
<1>0. state \in [Records -> RecordStates] /\ queue \in Seq(Records) /\ QueueInv
  BY DEF Inv, TypeOK, PlaceInv
<1>1. CASE StillStep \/ UNCHANGED vars
  BY <1>1, StillStates DEF vars, Goes
<1>2. ASSUME NEW r \in Records, RecordStep(r) PROVE \A q \in Records : Goes(q)
  BY <1>2, RecordStepStates DEF Goes
<1>3. CASE WorkerGets \/ GatherEnds
  <2>1. \A r \in Records : Moves(r)
    BY <1>3, WorkerGetsKeeps, GatherKeeps
  <2> QED
    BY <2>1 DEF Moves, Goes, Outstanding
<1>4. CASE GetTaskTakes
  <2>1. queue # <<>> /\ state' = [state EXCEPT ![Head(queue)] = "held"]
    BY <1>4 DEF GetTaskTakes
  <2>2. Head(queue) = queue[1] /\ 1 \in 1..Len(queue) /\ queue[1] \in Records
    BY <1>0, <2>1
  <2>3. state[queue[1]] = "queued"
    BY <1>0, <2>2 DEF QueueInv
  <2> QED
    BY <1>0, <2>1, <2>2, <2>3 DEF Goes, Outstanding
<1>5. CASE Settle
  <2>1. /\ work \in Seq(Verdicts) /\ Len(work) \in Nat \ {0}
    BY <1>5, SettleKeeps DEF Inv, TypeOK
  <2> DEFINE v == Head(work)
  <2>2. v \in Verdicts
    BY <2>1
  <2>3. \/ state[v.rec] = "in_flight" /\ state' = [state EXCEPT ![v.rec] = v.to]
        \/ UNCHANGED state
    BY <1>5 DEF Settle, Applies
  <2> HIDE DEF v
  <2>4. v.rec \in Records /\ v.to \in Terminal
    BY <2>2 DEF Verdicts
  <2> QED
    BY <1>0, <2>3, <2>4 DEF Goes, Outstanding
<1>6. CASE StopReaps \/ StopCloses
  <2>1. CASE AbandonOutstanding
    BY <2>1, AbandonedStates DEF Goes, Outstanding, Terminal
  <2>2. CASE ~AbandonOutstanding
    BY <1>6, <2>2 DEF StopReaps, StopCloses, Goes
  <2> QED
    BY <2>1, <2>2
<1> QED
  BY <1>1, <1>2, <1>3, <1>4, <1>5, <1>6, NextSteps DEF ActiveStep
-----------------------------------------------------------------------------
(* What callers are told.                                                  *)

(* No task is left: no record is outstanding. *)
LEMMA DoneMeansNone == Inv /\ unfinished = 0 => \A r \in Records : state[r] \notin Outstanding
<1> SUFFICES ASSUME Inv, unfinished = 0 PROVE \A r \in Records : state[r] \notin Outstanding
  OBVIOUS
<1>1. Len(queue) = 0 /\ Len(inFlight) = 0 /\ Held = {}
  BY Numbers
<1>2. \A r \in Records : state[r] # "queued" /\ state[r] # "in_flight"
  BY <1>1 DEF Inv, PlaceInv, QueueInv, BatchInv, Among
<1>3. \A r \in Records : state[r] # "held"
  BY <1>1 DEF Held
<1> QED
  BY <1>2, <1>3 DEF Outstanding

(* How the answer of a flush() comes about. *)
Answers(c) ==
  \/ flush'[c] = flush[c] /\ wanted'[c] = wanted[c]
  \/ flush'[c] = "resolved" /\ unfinished' = 0
  \/ flush[c] = "resolved" /\ flush'[c] = "true" /\ wanted'[c] = wanted[c]
  \/ flush'[c] \notin {"resolved", "true"}

LEMMA AnswersNext ==
  ASSUME Inv, [Next]_vars, NEW c \in Flushes
  PROVE  Answers(c)
<1> USE DEF batchVars, workerVars, callerVars, callbackVars
<1>0. flush \in [Flushes -> FlushStates] /\ wanted \in [Flushes -> SUBSET Records]
  BY DEF Inv, TypeOK
<1>1. CASE UNCHANGED <<flush, wanted>>
  BY <1>1 DEF Answers
<1>2. ASSUME WakeFlushes, unfinished' = 0, wanted' = wanted PROVE Answers(c)
  BY <1>0, <1>2 DEF WakeFlushes, Answers
<1>3. ASSUME NEW d \in Flushes,
             FlushDrains(d) \/ FlushNotRunning(d) \/ FlushExpires(d) \/ FlushReturns(d)
      PROVE  Answers(c)
  <2>1. CASE c # d
    BY <1>0, <1>3, <2>1 DEF FlushDrains, FlushNotRunning, FlushExpires, FlushReturns, NoteWanted,
                            Answers
  <2>2. CASE c = d /\ FlushDrains(d)
    BY <1>0, <2>2 DEF FlushDrains, AllDone, Answers
  <2>3. CASE c = d /\ ~FlushDrains(d)
    BY <1>0, <1>3, <2>3 DEF FlushNotRunning, FlushExpires, FlushReturns, Answers
  <2> QED
    BY <2>1, <2>2, <2>3
<1>4. CASE EndDeliver
  BY <1>1, <1>2, <1>4 DEF EndDeliver, AllDone
<1>5. CASE StopReaps \/ StopCloses
  BY <1>1, <1>2, <1>5 DEF StopReaps, StopCloses, AbandonOutstanding, AllDone
<1>6. CASE UNCHANGED vars
  BY <1>1, <1>6 DEF vars
<1>7. ASSUME NEW r \in Records, RecordStep(r) PROVE UNCHANGED <<flush, wanted>>
  BY <1>7 DEF RecordStep, RecordValid, RecordInvalid, RecordRefused
<1>8. CASE WorkerGets \/ GatherEnds \/ GetTaskTakes \/ Settle
  BY <1>1, <1>8 DEF WorkerGets, GatherEnds, GetTaskTakes, Settle
<1>9. CASE Start \/ LingerEnds \/ WorkerEnds \/ NotifyDelivered
  BY <1>1, <1>9 DEF Start, LingerEnds, WorkerEnds, NotifyDelivered
<1>10. CASE SinkAnswers \/ DeliveryCancelled
  BY <1>1, <1>10 DEF SinkAnswers, SinkAccepts, SinkFails, SinkRaises, SinkMisanswers,
                     DeliveryCancelled, Answered
<1>11. CASE CallbackReturns \/ Shutdown \/ StopExpires \/ StopCancelled \/ StopEnds
  BY <1>1, <1>11 DEF CallbackReturns, Shutdown, StopExpires, StopCancelled, StopEnds
<1> QED
  BY <1>1, <1>3, <1>4, <1>5, <1>6, <1>7, <1>8, <1>9, <1>10, <1>11, NextSteps
  DEF StillStep, ActiveStep, QuietStep

LEMMA FlushNext == Inv /\ Inv' /\ RunningFlushTruthful /\ [Next]_vars => RunningFlushTruthful'
<1>d. (Inv /\ unfinished = 0 => \A r \in Records : state[r] \notin Outstanding)'
  BY DoneMeansNone, PTL
<1> SUFFICES ASSUME Inv, Inv', RunningFlushTruthful, [Next]_vars, NEW c \in Flushes,
                    flush'[c] \in {"resolved", "true"}, NEW r \in wanted'[c]
             PROVE  r \in Records /\ state'[r] \in Terminal
  BY DEF RunningFlushTruthful, AnsweredTrue, In
<1>0. r \in Records /\ state'[r] \in Outstanding \cup Terminal
  BY DEF Inv, TypeOK, PlaceInv, HistoryInv
<1>1. CASE unfinished' = 0
  BY <1>0, <1>1, <1>d
<1>2. CASE flush[c] \in {"resolved", "true"} /\ wanted'[c] = wanted[c]
  <2>1. state[r] \in Terminal
    BY <1>2 DEF RunningFlushTruthful, AnsweredTrue, In
  <2> QED
    BY <1>0, <2>1, StatesNext DEF Goes, Outstanding, Terminal
<1> QED
  BY <1>1, <1>2, AnswersNext DEF Answers

(* Nothing is queued or in flight once shutdown() goes on to the sink. *)
Cleared == stop \in {"closing", "done"} => \A r \in Records : state[r] \notin {"queued", "in_flight"}

LEMMA StopStep ==
  ASSUME [Next]_vars, stop' \in {"closing", "done"}, stop \notin {"closing", "done"}
  PROVE  StopCloses
<1> USE DEF batchVars, workerVars, callerVars, callbackVars
<1>1. ASSUME NEW r \in Records, RecordStep(r) PROVE UNCHANGED stop
  BY <1>1 DEF RecordStep, RecordValid, RecordInvalid, RecordRefused
<1>2. CASE WorkerGets \/ GatherEnds \/ GetTaskTakes \/ Settle \/ UNCHANGED vars
  BY <1>2 DEF WorkerGets, GatherEnds, GetTaskTakes, Settle, vars
<1>3. CASE Start \/ LingerEnds \/ WorkerEnds \/ NotifyDelivered
  BY <1>3 DEF Start, LingerEnds, WorkerEnds, NotifyDelivered
<1>4. CASE SinkAnswers \/ DeliveryCancelled \/ EndDeliver
  BY <1>4 DEF SinkAnswers, SinkAccepts, SinkFails, SinkRaises, SinkMisanswers, DeliveryCancelled,
              Answered, EndDeliver
<1>5. CASE QuietStep
  BY <1>5 DEF QuietStep, CallbackReturns, Shutdown, StopExpires, StopCancelled, StopEnds,
              FlushDrains, FlushNotRunning, FlushExpires, FlushReturns
<1>6. CASE StopReaps
  BY <1>6 DEF StopReaps
<1> QED
  BY <1>1, <1>2, <1>3, <1>4, <1>5, <1>6, NextSteps DEF StillStep, ActiveStep

LEMMA ClearedNext == Inv /\ Cleared /\ [Next]_vars => Cleared'
<1> SUFFICES ASSUME Inv, Cleared, [Next]_vars, stop' \in {"closing", "done"}, NEW r \in Records
             PROVE  state'[r] \notin {"queued", "in_flight"}
  BY DEF Cleared
<1>1. CASE StopCloses
  BY <1>1, AbandonedStates DEF StopCloses
<1>2. CASE ~StopCloses
  <2>1. stop \in {"closing", "done"}
    BY <1>2, StopStep
  <2>2. worker \in {"none", "gone"} /\ state[r] \notin {"queued", "in_flight"}
    BY <2>1 DEF Cleared, Inv, PlaceInv, StopInv
  <2>3. ASSUME NEW q \in Records, RecordStep(q) PROVE state'[r] \notin {"queued", "in_flight"}
    <3>1. RecordRefused(q)
      BY <2>1, <2>3 DEF RecordStep, RecordValid, RecordInvalid, Accepting
    <3>2. state' = [state EXCEPT ![q] = "refused"]
      BY <3>1 DEF RecordRefused
    <3> QED
      BY <2>2, <3>2 DEF Inv, TypeOK
  <2>4. ~ActiveStep
    <3>1. ~Settle
      BY <2>2, SettleKeeps DEF Sections
    <3> QED
      BY <1>2, <2>1, <2>2, <3>1 DEF ActiveStep, WorkerGets, GatherEnds, GetTaskTakes, StopReaps
  <2>5. CASE StillStep \/ UNCHANGED vars
    BY <2>2, <2>5, StillStates DEF vars
  <2> QED
    BY <2>3, <2>4, <2>5, NextSteps
<1> QED
  BY <1>1, <1>2

(* Giving a record up and telling on_failure go together. *)
Told(r) == state'[r] \in {"dropped", "unknown"} => state'[r] = state[r] \/ r \in notified'

LEMMA ToldNext ==
  ASSUME Inv, [Next]_vars, HasOnFailure
  PROVE  notified \subseteq notified' /\ \A r \in Records : Told(r)
<1> USE DEF batchVars, workerVars, callerVars, callbackVars
<1>0. state \in [Records -> RecordStates] /\ notified \in SUBSET Records
  BY DEF Inv, TypeOK
<1>1. CASE StillStep \/ UNCHANGED vars
  <2>1. UNCHANGED state
    BY <1>1, StillStates DEF vars
  <2>2. UNCHANGED notified
    BY <1>1 DEF vars, StillStep, QuietStep, CallbackReturns, Shutdown, StopExpires, StopCancelled,
         StopEnds, FlushDrains, FlushNotRunning, FlushExpires, FlushReturns, Start, LingerEnds,
         WorkerEnds, NotifyDelivered, EndDeliver, SinkAnswers, SinkAccepts, SinkFails, SinkRaises,
         SinkMisanswers, DeliveryCancelled, Answered
  <2> QED
    BY <2>1, <2>2 DEF Told
<1>2. ASSUME NEW r \in Records, RecordStep(r)
      PROVE  notified \subseteq notified' /\ \A q \in Records : Told(q)
  <2>1. /\ state[r] = "new" /\ state'[r] \in {"refused", "dropped", "queued"}
        /\ \A q \in Records : q # r => state'[q] = state[q]
    BY <1>2, RecordStepStates
  <2>2. notified' \in {notified, notified \cup {r}}
    BY <1>2 DEF RecordStep, RecordValid, RecordInvalid, RecordRefused, Submit, NotifyFailure
  <2>3. state'[r] = "dropped" => r \in notified'
    BY <1>0, <1>2 DEF RecordStep, RecordValid, RecordInvalid, RecordRefused, Submit, NotifyFailure
  <2> QED
    BY <2>1, <2>2, <2>3 DEF Told
<1>3. CASE WorkerGets \/ GatherEnds
  <2>1. \A r \in Records : Moves(r)
    BY <1>3, WorkerGetsKeeps, GatherKeeps
  <2>2. UNCHANGED notified
    BY <1>3 DEF WorkerGets, GatherEnds
  <2> QED
    BY <2>1, <2>2 DEF Moves, Told
<1>4. CASE GetTaskTakes
  <2>1. UNCHANGED notified /\ state' = [state EXCEPT ![Head(queue)] = "held"]
    BY <1>4 DEF GetTaskTakes
  <2> QED
    BY <1>0, <2>1 DEF Told
<1>5. CASE Settle
  <2> DEFINE v == Head(work)
  <2>1. /\ work \in Seq(Verdicts) /\ Len(work) \in Nat \ {0}
    BY <1>5, SettleKeeps DEF Inv, TypeOK
  <2>2. v \in Verdicts
    BY <2>1
  <2>3. \/ /\ state' = [state EXCEPT ![v.rec] = v.to]
           /\ \/ v.to = "sent" /\ UNCHANGED notified
              \/ notified' = notified \cup {v.rec}
        \/ UNCHANGED <<state, notified>>
    BY <1>5 DEF Settle, NotifyFailure
  <2> HIDE DEF v
  <2>4. v.rec \in Records /\ v.to \in Terminal
    BY <2>2 DEF Verdicts
  <2> QED
    BY <1>0, <2>3, <2>4 DEF Told, Terminal
<1>6. CASE StopReaps \/ StopCloses
  <2>1. CASE AbandonOutstanding
    <3>1. notified' = notified \cup {r \in Records : Abandoned(r) # state[r]}
      BY <2>1 DEF AbandonOutstanding
    <3>2. \A r \in Records : state'[r] = Abandoned(r)
      BY <2>1, AbandonedStates
    <3> QED
      BY <3>1, <3>2 DEF Told
  <2>2. CASE ~AbandonOutstanding
    BY <1>6, <2>2 DEF StopReaps, StopCloses, Told
  <2> QED
    BY <2>1, <2>2
<1> QED
  BY <1>1, <1>2, <1>3, <1>4, <1>5, <1>6, NextSteps DEF ActiveStep

LEMMA ReportedNext == Inv /\ FailuresReported /\ [Next]_vars => FailuresReported'
<1> SUFFICES ASSUME Inv, FailuresReported, [Next]_vars, HasOnFailure, NEW r \in Records,
                    state'[r] \in {"dropped", "unknown"}
             PROVE  r \in notified'
  BY DEF FailuresReported, In
<1>1. notified \subseteq notified' /\ Told(r)
  BY ToldNext
<1>2. state'[r] = state[r] => r \in notified
  BY DEF FailuresReported, In
<1> QED
  BY <1>1, <1>2 DEF Told

(* A flush() that ran answers true only of settled records, shutdown()     *)
(* misses at most the record that get_task holds, and on_failure hears of  *)
(* every record that is given up.                                          *)
THEOREM PyLossesKnown == Spec => []LossesKnown
<1>1. Init => RunningFlushTruthful /\ Cleared /\ FailuresReported
  BY DEF Init, RunningFlushTruthful, AnsweredTrue, Cleared, FailuresReported, In
<1>2. Inv /\ Inv' /\ RunningFlushTruthful /\ [Next]_vars => RunningFlushTruthful'
  BY FlushNext
<1>3. Inv /\ Cleared /\ [Next]_vars => Cleared'
  BY ClearedNext
<1>4. Inv /\ FailuresReported /\ [Next]_vars => FailuresReported'
  BY ReportedNext
<1>5. Inv /\ Cleared => ShutdownMissesHeld
  <2> SUFFICES ASSUME Inv, Cleared, stop \in {"closing", "done"}
               PROVE  In(Outstanding) \subseteq Held /\ Cardinality(Held) <= 1
    BY DEF ShutdownMissesHeld
  <2>1. In(Outstanding) \subseteq Held
    BY DEF Cleared, In, Outstanding, Held
  <2>2. Cardinality(Held) \in {0, 1}
    BY Numbers
  <2> QED
    BY <2>1, <2>2
<1> QED
  BY <1>1, <1>2, <1>3, <1>4, <1>5, PyInvariant, PTL DEF Spec, LossesKnown
-----------------------------------------------------------------------------
(* DeliveryStats.                                                          *)

LEMMA InFinite ==
  ASSUME NEW S
  PROVE  IsFiniteSet(In(S)) /\ Cardinality(In(S)) \in Nat
<1>1. In(S) \in SUBSET Records
  BY DEF In
<1>2. IsFiniteSet(In(S))
  BY <1>1, FinitenessAssumption, FS_Subset
<1> QED
  BY <1>2, FS_CardinalityType

Submitted == Outstanding \cup Terminal

(* No counter moves, and no record moves between what they count. *)
LEMMA CountersKept ==
  ASSUME Accounting, \A n \in Terminal \cup {"submitted"} : counts'[n] = counts[n],
         \A r \in Records : /\ \A t \in Terminal : state'[r] = t <=> state[r] = t
                            /\ state'[r] \in Submitted <=> state[r] \in Submitted
  PROVE  Accounting'
<1>1. \A t \in Terminal : In({t})' = In({t})
  BY DEF In
<1>2. In(Outstanding \cup Terminal)' = In(Outstanding \cup Terminal)
  BY DEF In, Submitted
<1>3. \A t \in Terminal : counts'[t] = Cardinality(In({t})')
  BY <1>1 DEF Accounting
<1>4. counts'["submitted"] = Cardinality(In(Outstanding \cup Terminal)')
  BY <1>2 DEF Accounting
<1> QED
  BY <1>3, <1>4 DEF Accounting

(* One record more in state t, or one more submitted. *)
LEMMA OneMore ==
  ASSUME NEW r \in Records, NEW S, state[r] \notin S, state'[r] \in S,
         \A q \in Records : q # r => state'[q] = state[q]
  PROVE  Cardinality(In(S)') = Cardinality(In(S)) + 1
<1>1. In(S)' = In(S) \cup {r} /\ r \notin In(S)
  BY DEF In
<1>2. IsFiniteSet(In(S))
  BY InFinite
<1> QED
  BY <1>1, <1>2, FS_AddElement

(* record() counts what it takes, and what it drops at once. *)
LEMMA RecordCounts ==
  ASSUME Inv, Accounting, NEW r \in Records, RecordStep(r)
  PROVE  Accounting'
<1>0. /\ state \in [Records -> RecordStates] /\ counts \in [CounterNames -> Nat]
  BY DEF Inv, TypeOK
<1>1. /\ state[r] = "new" /\ state'[r] \in {"refused", "dropped", "queued"}
      /\ \A q \in Records : q # r => state'[q] = state[q]
  BY RecordStepStates
<1>a. /\ \A t \in Terminal : counts[t] = Cardinality(In({t}))
      /\ counts["submitted"] = Cardinality(In(Submitted))
  BY DEF Accounting, Submitted
<1>2. CASE state'[r] = "refused"
  <2>1. counts' = counts
    <3>1. ~RecordValid(r)
      BY <1>0, <1>2 DEF RecordValid, Submit
    <3> QED
      BY <3>1 DEF RecordStep, RecordInvalid, RecordRefused
  <2> QED
    BY <1>1, <1>2, <2>1, CountersKept DEF Submitted, Outstanding, Terminal
<1>3. CASE state'[r] = "queued"
  <2>1. counts' = [counts EXCEPT !["submitted"] = @ + 1]
    BY <1>0, <1>3 DEF RecordStep, RecordValid, RecordInvalid, RecordRefused, Submit
  <2>2. Cardinality(In(Submitted)') = Cardinality(In(Submitted)) + 1
    BY <1>1, <1>3, OneMore DEF Submitted, Outstanding, Terminal
  <2>3. counts'["submitted"] = counts["submitted"] + 1 /\ \A t \in Terminal : counts'[t] = counts[t]
    BY <1>0, <2>1 DEF CounterNames, Terminal
  <2>4. \A t \in Terminal : In({t})' = In({t})
    BY <1>1, <1>3 DEF In, Terminal
  <2>5. counts'["submitted"] = Cardinality(In(Outstanding \cup Terminal)')
    BY <1>a, <2>2, <2>3 DEF Submitted
  <2> QED
    BY <1>a, <2>3, <2>4, <2>5 DEF Accounting
<1>4. CASE state'[r] = "dropped"
  <2>1. counts' = [counts EXCEPT !["submitted"] = @ + 1, !["dropped"] = @ + 1]
    BY <1>0, <1>4 DEF RecordStep, RecordValid, RecordInvalid, RecordRefused, Submit
  <2>2. Cardinality(In(Submitted)') = Cardinality(In(Submitted)) + 1
    BY <1>1, <1>4, OneMore DEF Submitted, Outstanding, Terminal
  <2>3. Cardinality(In({"dropped"})') = Cardinality(In({"dropped"})) + 1
    BY <1>1, <1>4, OneMore
  <2>4. /\ counts'["submitted"] = counts["submitted"] + 1
        /\ counts'["dropped"] = counts["dropped"] + 1
        /\ counts'["sent"] = counts["sent"] /\ counts'["unknown"] = counts["unknown"]
    BY <1>0, <2>1 DEF CounterNames
  <2>5. In({"sent"})' = In({"sent"}) /\ In({"unknown"})' = In({"unknown"})
    BY <1>1, <1>4 DEF In
  <2>6. /\ counts["dropped"] = Cardinality(In({"dropped"}))
        /\ counts["sent"] = Cardinality(In({"sent"}))
        /\ counts["unknown"] = Cardinality(In({"unknown"}))
    BY <1>a DEF Terminal
  <2>7. /\ counts'["dropped"] = Cardinality(In({"dropped"})')
        /\ counts'["sent"] = Cardinality(In({"sent"})')
        /\ counts'["unknown"] = Cardinality(In({"unknown"})')
    BY <2>3, <2>4, <2>5, <2>6
  <2>8. counts'["submitted"] = Cardinality(In(Outstanding \cup Terminal)')
    BY <1>a, <2>2, <2>4 DEF Submitted
  <2> QED
    BY <2>7, <2>8 DEF Accounting, Terminal
<1> QED
  BY <1>1, <1>2, <1>3, <1>4

(* A verdict counts once. *)
LEMMA SettleCounts ==
  ASSUME Inv, Accounting, Settle
  PROVE  Accounting'
<1>0. /\ state \in [Records -> RecordStates] /\ counts \in [CounterNames -> Nat]
  BY DEF Inv, TypeOK
<1>1. \/ \E r \in Records, t \in Terminal :
           /\ state[r] = "in_flight" /\ state' = [state EXCEPT ![r] = t]
           /\ counts' = [counts EXCEPT ![t] = @ + 1]
      \/ UNCHANGED <<state, counts>>
  <2> DEFINE v == Head(work)
  <2>1. /\ work \in Seq(Verdicts) /\ Len(work) \in Nat \ {0}
    BY SettleKeeps DEF Inv, TypeOK
  <2>2. v \in Verdicts
    BY <2>1
  <2>3. \/ /\ state[v.rec] = "in_flight" /\ state' = [state EXCEPT ![v.rec] = v.to]
           /\ counts' = [counts EXCEPT ![v.to] = @ + 1]
        \/ UNCHANGED <<state, counts>>
    BY DEF Settle, Applies
  <2> HIDE DEF v
  <2>4. v.rec \in Records /\ v.to \in Terminal
    BY <2>2 DEF Verdicts
  <2> QED
    BY <2>3, <2>4
<1>2. CASE UNCHANGED <<state, counts>>
  BY <1>2, CountersKept
<1>3. ASSUME NEW r \in Records, NEW to \in Terminal,
             state[r] = "in_flight", state' = [state EXCEPT ![r] = to],
             counts' = [counts EXCEPT ![to] = @ + 1]
      PROVE  Accounting'
  <2>1. state'[r] = to /\ \A q \in Records : q # r => state'[q] = state[q]
    BY <1>0, <1>3
  <2>2. Cardinality(In({to})') = Cardinality(In({to})) + 1
    <3>1. to # "in_flight"
      BY DEF Terminal
    <3> QED
      BY <1>3, <2>1, <3>1, OneMore
  <2>3. \A t \in Terminal : t # to => In({t})' = In({t})
    BY <1>3, <2>1 DEF In, Terminal
  <2>4. In(Outstanding \cup Terminal)' = In(Outstanding \cup Terminal)
    BY <1>3, <2>1 DEF In, Outstanding
  <2>5. /\ counts'[to] = counts[to] + 1 /\ counts'["submitted"] = counts["submitted"]
        /\ \A t \in Terminal : t # to => counts'[t] = counts[t]
    BY <1>0, <1>3 DEF CounterNames, Terminal
  <2>6. counts'[to] = Cardinality(In({to})')
    BY <2>2, <2>5 DEF Accounting
  <2>7. ASSUME NEW t \in Terminal, t # to PROVE counts'[t] = Cardinality(In({t})')
    <3>1. counts'[t] = counts[t] /\ In({t})' = In({t})
      BY <2>3, <2>5, <2>7
    <3> QED
      BY <3>1 DEF Accounting
  <2>8. counts'["submitted"] = Cardinality(In(Outstanding \cup Terminal)')
    BY <2>4, <2>5 DEF Accounting
  <2>9. \A t \in Terminal : counts'[t] = Cardinality(In({t})')
    BY <2>6, <2>7
  <2> QED
    BY <2>8, <2>9 DEF Accounting
<1> QED
  BY <1>1, <1>2, <1>3

(* What shutdown() abandons is counted as what it becomes. *)
LEMMA AbandonAccounts ==
  ASSUME Inv, Accounting, AbandonOutstanding
  PROVE  Accounting'
<1> DEFINE S(n) == {r \in {q \in Records : Abandoned(q) # state[q]} : Abandoned(r) = n}
<1>0. /\ state \in [Records -> RecordStates] /\ counts \in [CounterNames -> Nat]
  BY DEF Inv, TypeOK
<1>1. \A n \in CounterNames : counts'[n] = counts[n] + Cardinality(S(n))
  BY DEF AbandonOutstanding
<1>s. \A r \in Records :
        /\ state'[r] = Abandoned(r)
        /\ state[r] = "queued" => state'[r] = "dropped"
        /\ state[r] = "in_flight" => state'[r] = "unknown"
        /\ state[r] \notin {"queued", "in_flight"} => state'[r] = state[r]
  BY AbandonedStates
<1>2. ASSUME NEW t \in Terminal
      PROVE  In({t})' = In({t}) \cup S(t) /\ In({t}) \cap S(t) = {}
  <2>1. \A r \in Records : state[r] = t => state'[r] = t
    BY <1>s DEF Terminal
  <2> QED
    BY <1>s, <2>1 DEF In
<1>3. S("submitted") = {}
  BY <1>0, <1>s DEF RecordStates, Outstanding, Terminal
<1>4. \A n : S(n) \in SUBSET Records
  OBVIOUS
<1> HIDE DEF S
<1>5. ASSUME NEW t \in Terminal PROVE counts'[t] = Cardinality(In({t})')
  <2>1. IsFiniteSet(In({t})) /\ IsFiniteSet(S(t))
    BY <1>4, InFinite, FinitenessAssumption, FS_Subset
  <2>2. Cardinality(In({t})) \in Nat /\ Cardinality(S(t)) \in Nat
    BY <2>1, FS_CardinalityType
  <2>3. Cardinality(In({t}) \cap S(t)) = 0
    BY <1>2, FS_EmptySet
  <2>4. Cardinality(In({t})') = Cardinality(In({t})) + Cardinality(S(t))
    <3>1. Cardinality(In({t}) \cup S(t)) =
            Cardinality(In({t})) + Cardinality(S(t)) - Cardinality(In({t}) \cap S(t))
      BY <2>1, FS_Union
    <3>2. Cardinality(In({t}) \cup S(t)) = Cardinality(In({t})) + Cardinality(S(t))
      BY <2>2, <2>3, <3>1
    <3> QED
      BY <1>2, <3>2
  <2>5. counts[t] = Cardinality(In({t})) /\ counts'[t] = counts[t] + Cardinality(S(t))
    BY <1>1 DEF Accounting, CounterNames, Terminal
  <2> QED
    BY <2>4, <2>5
<1>6. counts'["submitted"] = Cardinality(In(Outstanding \cup Terminal)')
  <2>1. In(Outstanding \cup Terminal)' = In(Outstanding \cup Terminal)
    BY <1>s DEF In, Outstanding, Terminal
  <2>2. counts'["submitted"] = counts["submitted"] + Cardinality(S("submitted"))
    BY <1>1 DEF CounterNames
  <2>3. counts["submitted"] \in Nat /\ Cardinality(S("submitted")) = 0
    BY <1>0, <1>3, FS_EmptySet DEF CounterNames
  <2>4. counts'["submitted"] = counts["submitted"]
    BY <2>2, <2>3
  <2> QED
    BY <2>1, <2>4 DEF Accounting
<1> QED
  BY <1>5, <1>6 DEF Accounting

LEMMA AccountingNext == Inv /\ Accounting /\ [Next]_vars => Accounting'
<1> SUFFICES ASSUME Inv, Accounting, [Next]_vars PROVE Accounting'
  OBVIOUS
<1> USE DEF batchVars, workerVars, callerVars, callbackVars
<1>0. state \in [Records -> RecordStates] /\ counts \in [CounterNames -> Nat] /\ QueueInv
      /\ queue \in Seq(Records)
  BY DEF Inv, TypeOK, PlaceInv
<1>1. CASE StillStep \/ UNCHANGED vars
  <2>1. UNCHANGED state
    BY <1>1, StillStates DEF vars
  <2>2. counts' = counts \/ CountBatch
    BY <1>1 DEF vars, StillStep, QuietStep, CallbackReturns, Shutdown, StopExpires, StopCancelled,
         StopEnds, FlushDrains, FlushNotRunning, FlushExpires, FlushReturns, Start, LingerEnds,
         WorkerEnds, NotifyDelivered, EndDeliver, SinkAnswers, SinkAccepts, SinkFails, SinkRaises,
         SinkMisanswers, DeliveryCancelled
  <2>3. \A n \in Terminal \cup {"submitted"} : counts'[n] = counts[n]
    BY <1>0, <2>2 DEF CountBatch, Terminal, CounterNames
  <2> QED
    BY <2>1, <2>3, CountersKept
<1>2. ASSUME NEW r \in Records, RecordStep(r) PROVE Accounting'
  BY <1>2, RecordCounts
<1>3. CASE WorkerGets \/ GatherEnds
  <2>1. \A r \in Records : Moves(r)
    BY <1>3, WorkerGetsKeeps, GatherKeeps
  <2>2. UNCHANGED counts
    BY <1>3 DEF WorkerGets, GatherEnds
  <2>3. \A r \in Records : /\ \A t \in Terminal : state'[r] = t <=> state[r] = t
                           /\ state'[r] \in Submitted <=> state[r] \in Submitted
    BY <2>1 DEF Moves, Submitted, Outstanding, Terminal
  <2> QED
    BY <2>2, <2>3, CountersKept
<1>4. CASE GetTaskTakes
  <2>1. UNCHANGED counts /\ queue # <<>> /\ state' = [state EXCEPT ![Head(queue)] = "held"]
    BY <1>4 DEF GetTaskTakes
  <2>2. Head(queue) = queue[1] /\ 1 \in 1..Len(queue) /\ queue[1] \in Records
    BY <1>0, <2>1
  <2>3. state[queue[1]] = "queued"
    BY <1>0, <2>2 DEF QueueInv
  <2>4. \A r \in Records : state'[r] = state[r] \/ (state[r] = "queued" /\ state'[r] = "held")
    BY <1>0, <2>1, <2>2, <2>3
  <2>5. \A r \in Records : /\ \A t \in Terminal : state'[r] = t <=> state[r] = t
                           /\ state'[r] \in Submitted <=> state[r] \in Submitted
    BY <2>4 DEF Submitted, Outstanding, Terminal
  <2> QED
    BY <2>1, <2>5, CountersKept
<1>5. CASE Settle
  BY <1>5, SettleCounts
<1>6. CASE StopReaps \/ StopCloses
  <2>1. CASE AbandonOutstanding
    BY <2>1, AbandonAccounts
  <2>2. CASE ~AbandonOutstanding
    <3>1. UNCHANGED <<state, counts>>
      BY <1>6, <2>2 DEF StopReaps, StopCloses
    <3> QED
      BY <3>1, CountersKept
  <2> QED
    BY <2>1, <2>2
<1> QED
  BY <1>1, <1>2, <1>3, <1>4, <1>5, <1>6, NextSteps DEF ActiveStep

(* stats counts every submission once, by what became of it.               *)
THEOREM PyAccounting == Spec => []Accounting
<1>1. Init => Accounting
  <2> SUFFICES ASSUME Init PROVE Accounting
    OBVIOUS
  <2>1. \A t \in Terminal : In({t}) = {}
    BY DEF Init, In, Terminal
  <2>2. In(Outstanding \cup Terminal) = {}
    BY DEF Init, In, Outstanding, Terminal
  <2>3. \A n \in CounterNames : counts[n] = 0
    BY DEF Init
  <2> QED
    BY <2>1, <2>2, <2>3, FS_EmptySet DEF Accounting, CounterNames, Terminal
<1>2. Inv /\ Accounting /\ [Next]_vars => Accounting'
  BY AccountingNext
<1> QED
  BY <1>1, <1>2, PyInvariant, PTL DEF Spec
=============================================================================
