--------------------------- MODULE LagoSinkProofs ---------------------------
(***************************************************************************)
(* What TLAPS proves of LagoSink for every batch, chunk size, number of    *)
(* attempts and passes, and every Lago instance: preflight judges the      *)
(* batch exactly, and the outcome of each record is true of what Lago      *)
(* holds.                                                                  *)
(***************************************************************************)
EXTENDS LagoSink, FiniteSetTheorems, TLAPS

(* Two records that encode, to the same event. *)
SameEvent(i, j) ==
  /\ Encoded[batch[i].body].issue = None
  /\ Encoded[batch[j].body].issue = None
  /\ Encoded[batch[i].body].properties = Encoded[batch[j].body].properties

(* The first n records that share the id of the i-th make the same event. *)
Agreed(i, n) == \A j \in 1..n : batch[j].id = batch[i].id => SameEvent(i, j)

(* The i-th record is the first of its id. *)
First(i) == \A j \in 1..i-1 : batch[j].id # batch[i].id

(* The loop invariant of preflight: of the records judged, the first of    *)
(* each id whose records agree is an event, and every other id is          *)
(* rejected.  That each id has a first record is part of it, for want of   *)
(* an induction over the batch.                                            *)
LoopInv ==
  /\ \A k \in 1..seen : \E i \in 1..k : batch[i].id = batch[k].id /\ First(i)
  /\ events = {i \in 1..seen : First(i) /\ Agreed(i, seen)}
  /\ unsendable = {batch[i].id : i \in {j \in 1..seen : ~Agreed(j, seen)}}

(* Where deliver() is: what was confirmed lies in the chunks up to the     *)
(* current one, and is no longer in the request.                           *)
SendInv ==
  /\ phase \in {"idle", "preflight"} =>
       confirmed = {} /\ rejected = {} /\ ingested = {} /\ late = {} /\ handled = "no"
  /\ phase = "idle" => seen = 0
  /\ phase \in {"posting", "waiting"} =>
       /\ seen = Len(batch)
       /\ pending \subseteq events
       /\ IdsOf(pending) \cap confirmed = {}
       /\ \A i \in events : batch[i].id \in confirmed \/ i \in pending =>
            Rank(i, events) <= start + ChunkSize
  /\ phase = "waiting" => attempt < MaxAttempts
  /\ phase # "returned" => stop = "none" /\ refused = {}
  /\ phase = "returned" => seen = Len(batch) \/ stop = "closed"

(* What Lago has done.  Until deliver() returns, Lago took nothing that is *)
(* neither confirmed nor in doubt, the request it has just read apart.     *)
HeldInv ==
  /\ stored \cap refusable = {}
  /\ confirmed \subseteq stored \cap IdsOf(events)
  /\ rejected \subseteq refusable
  /\ confirmed \cap refused = {}
  /\ refused # {} => stop = "permanent"
  /\ ingested \subseteq stored \cap IdsOf(events)
  /\ handled # "no" => phase = "posting"
  /\ handled = "ingested" => IdsOf(pending) \subseteq stored
  /\ phase # "returned" =>
       ingested \subseteq confirmed \cup unsure
                          \cup (IF handled = "ingested" THEN IdsOf(pending) ELSE {})
  /\ stop = "permanent" => ingested \subseteq confirmed \cup unsure
  /\ \A request \in late :
       /\ request \subseteq IdsOf(events)
       /\ phase # "returned" \/ stop = "permanent" => request \subseteq unsure

SinkInv == TypeOK /\ LoopInv /\ SendInv /\ HeldInv
-----------------------------------------------------------------------------
(* The batch, and places in it.                                            *)

LEMMA BatchType ==
  ASSUME batch \in Batches
  PROVE  /\ Len(batch) \in Nat
         /\ DOMAIN batch = 1..Len(batch)
         /\ \A i \in DOMAIN batch : batch[i].id \in Ids /\ batch[i].body \in DOMAIN Docs
<1> DEFINE R == [id : Ids, body : DOMAIN Docs]
<1>1. batch \in Seq(R)
  BY BatchAssumption
<1>2. \A x \in R : x.id \in Ids /\ x.body \in DOMAIN Docs
  OBVIOUS
<1> HIDE DEF R
<1>3. \A i \in DOMAIN batch : batch[i] \in R
  BY <1>1
<1> QED
  BY <1>1, <1>2, <1>3

LEMMA IdsType ==
  ASSUME batch \in Batches, NEW S \in SUBSET DOMAIN batch
  PROVE  IdsOf(S) \subseteq Ids /\ IsFiniteSet(S) /\ S \subseteq Nat
<1>1. IsFiniteSet(1..Len(batch)) /\ S \subseteq 1..Len(batch)
  BY BatchType, FS_Interval
<1>2. IsFiniteSet(S)
  BY <1>1, FS_Subset
<1> QED
  BY <1>1, <1>2, BatchType DEF IdsOf

(* A place has one rank in a list, and no two places share one. *)
LEMMA RankInjective ==
  ASSUME NEW S \in SUBSET Nat, IsFiniteSet(S)
  PROVE  /\ \A i \in S : Rank(i, S) \in Nat
         /\ \A i, j \in S : Rank(i, S) = Rank(j, S) => i = j
<1> DEFINE Upto(i) == {k \in S : k <= i}
<1>1. \A i \in S : IsFiniteSet(Upto(i)) /\ Cardinality(Upto(i)) \in Nat
  <2> SUFFICES ASSUME NEW i \in S
               PROVE  IsFiniteSet(Upto(i)) /\ Cardinality(Upto(i)) \in Nat
    OBVIOUS
  <2>1. Upto(i) \subseteq S
    OBVIOUS
  <2> HIDE DEF Upto
  <2> QED
    BY <2>1, FS_Subset, FS_CardinalityType
<1>2. ASSUME NEW i \in S, NEW j \in S, i < j, Rank(i, S) = Rank(j, S)
      PROVE  FALSE
  <2>0. i \in Nat /\ j \in Nat /\ i < j /\ \A k \in S : k \in Nat
    BY <1>2
  <2>1. Upto(i) \subseteq Upto(j) /\ j \in Upto(j) /\ j \notin Upto(i)
    <3>1. ASSUME NEW k \in Upto(i) PROVE k \in Upto(j)
      <4>1. k \in S /\ k <= i /\ k \in Nat
        BY <2>0
      <4>2. k <= j
        BY <2>0, <4>1
      <4> QED
        BY <4>1, <4>2
    <3>2. j \in Upto(j) /\ j \notin Upto(i)
      BY <2>0
    <3> QED
      BY <3>1, <3>2
  <2>2. Cardinality(Upto(i)) = Cardinality(Upto(j))
    BY <1>2 DEF Rank
  <2> HIDE DEF Upto
  <2>3. Upto(i) = Upto(j)
    BY <1>1, <2>1, <2>2, FS_Subset
  <2> QED
    BY <2>1, <2>3
<1>3. ASSUME NEW i \in S, NEW j \in S, Rank(i, S) = Rank(j, S) PROVE i = j
  <2>1. i < j \/ j < i \/ i = j
    OBVIOUS
  <2> QED
    BY <1>2, <1>3, <2>1
<1> QED
  BY <1>1, <1>3 DEF Rank

(* Agreement does not depend on the record it is read from. *)
LEMMA SameEventIsEquivalence ==
  /\ \A i, j : SameEvent(i, j) => SameEvent(j, i)
  /\ \A i, j, k : SameEvent(i, j) /\ SameEvent(i, k) => SameEvent(j, k)
BY DEF SameEvent

(* No id is both sent and rejected, and no id is sent twice. *)
LEMMA EventsApart ==
  ASSUME LoopInv, seen \in Nat
  PROVE  /\ IdsOf(events) \cap unsendable = {}
         /\ \A i, j \in events : batch[i].id = batch[j].id => i = j
<1>1. ASSUME NEW i \in events, NEW j \in 1..seen, ~Agreed(j, seen), batch[i].id = batch[j].id
      PROVE  FALSE
  <2>1. PICK k \in 1..seen : batch[k].id = batch[j].id /\ ~SameEvent(j, k)
    BY <1>1 DEF Agreed
  <2>2. SameEvent(i, j) /\ SameEvent(i, k)
    BY <1>1, <2>1 DEF LoopInv, Agreed
  <2> QED
    BY <2>1, <2>2, SameEventIsEquivalence
<1>2. ASSUME NEW i \in events, NEW j \in events, batch[i].id = batch[j].id
      PROVE  i = j
  <2>1. i \in Nat \ {0} /\ j \in Nat \ {0} /\ First(i) /\ First(j)
    BY DEF LoopInv
  <2> QED
    BY <1>2, <2>1 DEF First
<1> QED
  BY <1>1, <1>2 DEF IdsOf, LoopInv
-----------------------------------------------------------------------------
(* preflight.                                                              *)

LEMMA PassKeepsLoop ==
  ASSUME TypeOK, LoopInv, PreflightPass
  PROVE  LoopInv'
<1> DEFINE n == seen + 1
           id == batch[n].id
<1>t. seen \in Nat /\ n \in Nat \ {0} /\ seen' = n /\ batch' = batch /\ n \in 1..n
      /\ 1..n = (1..seen) \cup {n} /\ n \notin 1..seen
  BY DEF TypeOK, PreflightPass
<1>s. \A i, j : SameEvent(i, j)' <=> SameEvent(i, j)
  BY <1>t DEF SameEvent
<1>a. /\ \A i, k : Agreed(i, k)' <=> Agreed(i, k)
      /\ \A i : First(i)' <=> First(i)
  BY <1>t, <1>s DEF Agreed, First
<1>n. \A i : Agreed(i, n) <=> Agreed(i, seen) /\ (id = batch[i].id => SameEvent(i, n))
  BY <1>t DEF Agreed
<1>j. Judge(n)
  BY DEF PreflightPass
<1> HIDE DEF n
<1>f. First(n) <=> \A i \in 1..seen : batch[i].id # id
  BY <1>t DEF First, n
<1>1. \A k \in 1..n : \E i \in 1..k : batch[i].id = batch[k].id /\ First(i)
  <2>1. ASSUME NEW k \in 1..seen PROVE \E i \in 1..k : batch[i].id = batch[k].id /\ First(i)
    BY DEF LoopInv
  <2>2. ASSUME NEW k \in 1..seen, batch[k].id = id
        PROVE  \E i \in 1..n : batch[i].id = id /\ First(i)
    <3>1. PICK i \in 1..k : batch[i].id = batch[k].id /\ First(i)
      BY <2>1
    <3>2. i \in 1..n
      BY <1>t, <3>1
    <3> QED
      BY <2>2, <3>1, <3>2
  <2>3. \E i \in 1..n : batch[i].id = id /\ First(i)
    BY <1>f, <1>t, <2>2
  <2> QED
    BY <1>t, <2>1, <2>3
<1>e. \A i : i \in events <=> i \in 1..seen /\ First(i) /\ Agreed(i, seen)
  BY DEF LoopInv
<1>u. \A x : x \in unsendable <=> \E i \in 1..seen : ~Agreed(i, seen) /\ x = batch[i].id
  BY DEF LoopInv
(* Every record of the id is judged alike. *)
<1>2. ASSUME NEW i \in 1..n, NEW k \in 1..n, batch[i].id = id, batch[k].id = id, Agreed(i, n)
      PROVE  Agreed(k, n)
  <2>1. ASSUME NEW m \in 1..n, batch[m].id = batch[k].id PROVE SameEvent(k, m)
    <3>1. SameEvent(i, k) /\ SameEvent(i, m)
      BY <1>2, <2>1 DEF Agreed
    <3> QED
      BY <3>1, SameEventIsEquivalence
  <2> QED
    BY <2>1 DEF Agreed
(* The records of another id are not touched. *)
<1>3. \A i \in 1..seen : batch[i].id # id => (Agreed(i, n) <=> Agreed(i, seen))
  BY <1>n
(* Either the records of the id agree, or none of them can be sent. *)
<1>4. CASE Agreed(n, n)
  <2>1. Encoded[batch[n].body].issue = None
    BY <1>4, <1>t DEF Agreed, SameEvent
  <2>2. \A i \in 1..seen : batch[i].id = id => Agreed(i, n) /\ Agreed(i, seen)
    BY <1>4, <1>2, <1>n, <1>t
  <2>3. id \notin unsendable
    BY <1>u, <2>2
  <2>4. ASSUME NEW j \in Earlier(n)
        PROVE  Encoded[batch[j].body].properties = Encoded[batch[n].body].properties
    <3>1. j \in 1..seen /\ batch[j].id = id
      BY <2>4, <1>e DEF Earlier
    <3>2. SameEvent(n, j)
      BY <1>4, <1>t, <3>1 DEF Agreed
    <3> QED
      BY <3>2 DEF SameEvent
  <2>5. unsendable' = unsendable /\ events' = IF Earlier(n) = {} THEN events \cup {n} ELSE events
    BY <1>j, <2>1, <2>3, <2>4 DEF Judge
  <2>6. Earlier(n) = {} <=> First(n)
    <3>1. ASSUME Earlier(n) = {}, NEW k \in 1..seen, batch[k].id = id PROVE FALSE
      <4>1. PICK i \in 1..k : batch[i].id = batch[k].id /\ First(i)
        BY <1>t, <1>1
      <4>2. i \in 1..seen /\ batch[i].id = id
        BY <1>t, <3>1, <4>1
      <4>3. i \in events
        BY <1>e, <2>2, <4>1, <4>2
      <4> QED
        BY <3>1, <4>2, <4>3 DEF Earlier
    <3>2. ASSUME First(n), NEW j \in Earlier(n) PROVE FALSE
      BY <1>e, <1>f, <3>2 DEF Earlier
    <3> QED
      BY <1>f, <3>1, <3>2
  <2>7. \A i : i \in events' <=> i \in 1..n /\ First(i) /\ Agreed(i, n)
    <3>1. ASSUME NEW i \in 1..seen
          PROVE  i \in events' <=> First(i) /\ Agreed(i, n)
      BY <1>e, <1>t, <1>3, <2>2, <2>5
    <3>2. n \in events' <=> First(n) /\ Agreed(n, n)
      BY <1>4, <1>e, <1>t, <2>5, <2>6
    <3>3. \A i : i \in events' => i \in 1..n
      BY <1>e, <1>t, <2>5
    <3> QED
      BY <1>t, <3>1, <3>2, <3>3
  <2>8. \A x : x \in unsendable' <=> \E i \in 1..n : ~Agreed(i, n) /\ x = batch[i].id
    BY <1>4, <1>u, <1>t, <1>3, <2>2, <2>5
  <2> QED
    BY <1>t, <1>a, <1>1, <2>7, <2>8 DEF LoopInv
<1>5. CASE ~Agreed(n, n)
  <2>1. \A i \in 1..n : batch[i].id = id => ~Agreed(i, n)
    BY <1>2, <1>5, <1>t
  <2>2. /\ unsendable' = unsendable \cup {id}
        /\ events' = {i \in events : batch[i].id # id}
    <3>1. CASE Encoded[batch[n].body].issue # None
      BY <1>j, <3>1 DEF Judge, Reject
    <3>2. CASE id \in unsendable /\ Encoded[batch[n].body].issue = None
      <4>1. PICK k \in 1..seen : ~Agreed(k, seen) /\ batch[k].id = id
        BY <1>u, <3>2
      <4>2. ASSUME NEW j \in events, batch[j].id = id PROVE FALSE
        <5>1. PICK m \in 1..seen : batch[m].id = id /\ ~SameEvent(k, m)
          BY <4>1 DEF Agreed
        <5>2. SameEvent(j, k) /\ SameEvent(j, m)
          BY <1>e, <4>1, <4>2, <5>1 DEF Agreed
        <5> QED
          BY <5>1, <5>2, SameEventIsEquivalence
      <4>3. unsendable' = unsendable /\ events' = events
        BY <1>j, <3>2 DEF Judge
      <4> QED
        BY <3>2, <4>2, <4>3
    <3>3. CASE id \notin unsendable /\ Encoded[batch[n].body].issue = None
      <4>1. \A i \in 1..seen : batch[i].id = id => Agreed(i, seen)
        BY <1>u, <3>3
      <4>2. SameEvent(n, n)
        BY <3>3 DEF SameEvent
      <4>3. PICK k \in 1..seen : batch[k].id = id /\ ~SameEvent(n, k)
        BY <1>5, <1>t, <4>2 DEF Agreed
      <4>4. PICK i \in 1..k : batch[i].id = batch[k].id /\ First(i)
        BY <1>t, <1>1
      <4>5. i \in 1..seen /\ batch[i].id = id
        BY <1>t, <4>3, <4>4
      <4>6. i \in Earlier(n) /\ Agreed(i, seen)
        BY <1>e, <4>1, <4>4, <4>5 DEF Earlier
      <4>7. SameEvent(i, k)
        BY <4>3, <4>5, <4>6 DEF Agreed
      <4>8. ~SameEvent(i, n)
        BY <4>3, <4>7, SameEventIsEquivalence
      <4>9. Encoded[batch[i].body].properties # Encoded[batch[n].body].properties
        BY <3>3, <4>7, <4>8 DEF SameEvent
      <4> QED
        BY <1>j, <3>3, <4>6, <4>9 DEF Judge, Reject
    <3> QED
      BY <3>1, <3>2, <3>3
  <2>3. \A i : i \in events' <=> i \in 1..n /\ First(i) /\ Agreed(i, n)
    BY <1>5, <1>e, <1>t, <1>3, <2>1, <2>2
  <2>4. \A x : x \in unsendable' <=> \E i \in 1..n : ~Agreed(i, n) /\ x = batch[i].id
    <3>1. ASSUME NEW x \in unsendable PROVE \E i \in 1..n : ~Agreed(i, n) /\ x = batch[i].id
      BY <1>n, <1>t, <1>u
    <3>2. ASSUME NEW i \in 1..n, ~Agreed(i, n) PROVE batch[i].id \in unsendable \cup {id}
      BY <1>t, <1>u, <1>3, <3>2
    <3> QED
      BY <1>5, <1>t, <2>2, <3>1, <3>2
  <2> QED
    BY <1>t, <1>a, <1>1, <2>3, <2>4 DEF LoopInv
<1> QED
  BY <1>4, <1>5

(* The events of a request that Lago names: its positions are read back as *)
(* the events that stand there.                                            *)
LEMMA NamedEvents ==
  ASSUME TypeOK
  PROVE  /\ Named(DuplicateAt) = {i \in pending : lago.postgres /\ batch[i].id \in stored}
         /\ Named(InvalidAt) = {i \in pending : batch[i].id \in refusable}
         /\ Named(DuplicateAt \cup InvalidAt) = Named(DuplicateAt) \cup Named(InvalidAt)
<1>1. \A i, j \in pending : Rank(i, pending) = Rank(j, pending) => i = j
  <2>1. pending \in SUBSET Nat /\ IsFiniteSet(pending)
    BY IdsType DEF TypeOK
  <2> QED
    BY <2>1, RankInjective
<1> QED
  BY <1>1 DEF Named, DuplicateAt, InvalidAt

(* The ids of fewer places are fewer ids, and what is unchanged keeps them. *)
LEMMA IdsKept ==
  /\ \A S, T : S \subseteq T => IdsOf(S) \subseteq IdsOf(T)
  /\ UNCHANGED batch => \A S : IdsOf(S)' = IdsOf(S')
BY DEF IdsOf
-----------------------------------------------------------------------------
(* Sending.                                                                *)

LEMMA InterruptionStops ==
  Interruption \in {"none", "closed", "aborted"}
BY DEF Interruption

(* The next request is sent, or sending stops. *)
LEMMA PostFacts ==
  ASSUME NEW s, NEW q, NEW p, NEW n, Post(s, q, p, n)
  PROVE  \/ /\ phase' = "posting" /\ stop' = stop
            /\ start' = s /\ pending' = q /\ salvaged' = p /\ attempt' = n
         \/ /\ phase' = "returned" /\ stop' \in {"closed", "aborted"}
            /\ start' = start /\ pending' = pending
            /\ salvaged' = salvaged /\ attempt' = attempt
BY InterruptionStops DEF Post, MayPost, Return, requestVars

LEMMA PostChunkFacts ==
  ASSUME NEW s \in Nat, PostChunk(s)
  PROVE  \/ /\ phase' = "posting" /\ stop' = stop
            /\ start' = s /\ pending' = Chunk(s) /\ salvaged' = 0 /\ attempt' = 1
         \/ /\ phase' = "returned" /\ stop' \in {"none", "closed", "aborted"}
            /\ start' = start /\ pending' = pending
            /\ salvaged' = salvaged /\ attempt' = attempt
<1>1. CASE s < Cardinality(events)
  <2>1. Post(s, Chunk(s), 0, 1)
    BY <1>1 DEF PostChunk
  <2> QED
    BY <2>1, PostFacts
<1>2. CASE ~(s < Cardinality(events))
  BY <1>2 DEF PostChunk, Return, requestVars
<1> QED
  BY <1>1, <1>2

LEMMA ConstantTypes ==
  /\ ChunkSize \in Nat /\ MaxSalvagePasses \in Nat /\ MaxAttempts \in Nat \ {0}
  /\ 0 \in 0..MaxSalvagePasses /\ 1 \in 0..MaxAttempts
BY SinkAssumption DEF ValidRetry

(* LoopInv is about the batch alone. *)
LEMMA LoopKept ==
  ASSUME LoopInv, UNCHANGED batchVars
  PROVE  LoopInv'
BY DEF LoopInv, Agreed, First, SameEvent, batchVars

(* A step that changes what is typed by these variables alone. *)
LEMMA TypeKept ==
  ASSUME TypeOK, UNCHANGED <<batchVars, lago, stored, refusable, ingested>>,
         phase' \in Phases, stop' \in Stops,
         start' \in Nat, pending' \subseteq DOMAIN batch,
         salvaged' \in 0..MaxSalvagePasses, attempt' \in 0..MaxAttempts,
         confirmed' \subseteq Ids, rejected' \subseteq Ids, refused' \subseteq Ids,
         unsure' \subseteq Ids, late' \subseteq SUBSET Ids,
         closed' \in BOOLEAN, aborted' \in BOOLEAN, closing' \in {"no", "waiting", "done"},
         handled' \in {"no", "ingested", "named", "too_many"}
  PROVE  TypeOK'
BY DEF TypeOK, batchVars

(* deliver() goes on: what was confirmed or rejected has left the request. *)
LEMMA Resumes ==
  ASSUME SinkInv, phase = "posting", handled' = "no",
         UNCHANGED <<batchVars, lifeVars, lago, stored, refusable, ingested, late, unsure, refused>>,
         confirmed \subseteq confirmed', confirmed' \subseteq confirmed \cup IdsOf(pending),
         confirmed' \subseteq stored,
         handled = "ingested" => IdsOf(pending) \subseteq confirmed',
         rejected' \subseteq Ids \cap refusable,
         \/ PostChunk(start + ChunkSize)
         \/ \E q, p : /\ Post(start, q, p, 1)
                      /\ q \subseteq pending /\ IdsOf(q) \cap confirmed' = {}
                      /\ p \in 0..MaxSalvagePasses
  PROVE  SinkInv'
<1> USE DEF batchVars, lifeVars
<1>t. /\ TypeOK /\ batch \in Batches /\ start \in Nat /\ start + ChunkSize \in Nat
      /\ seen = Len(batch) /\ seen \in Nat /\ pending \subseteq events /\ stop = "none" /\ refused = {}
      /\ events \in SUBSET DOMAIN batch
  BY ConstantTypes DEF SinkInv, TypeOK, SendInv
<1>r. \A i \in events : Rank(i, events) \in Nat
  BY <1>t, IdsType, RankInjective
<1>c. \A i \in events : batch[i].id \in confirmed' => Rank(i, events) <= start + ChunkSize
  <2> SUFFICES ASSUME NEW i \in events, batch[i].id \in confirmed'
               PROVE  Rank(i, events) <= start + ChunkSize
    OBVIOUS
  <2>1. CASE batch[i].id \in confirmed
    BY <2>1 DEF SinkInv, SendInv
  <2>2. CASE batch[i].id \in IdsOf(pending)
    <3>1. PICK j \in pending : batch[j].id = batch[i].id
      BY <2>2 DEF IdsOf
    <3>2. j = i
      BY <1>t, <3>1, EventsApart DEF SinkInv
    <3> QED
      BY <3>1, <3>2 DEF SinkInv, SendInv
  <2> QED
    BY <2>1, <2>2
<1>1. \/ /\ phase' = "posting" /\ stop' = stop
         /\ start' \in Nat /\ pending' \subseteq events
         /\ salvaged' \in 0..MaxSalvagePasses /\ attempt' \in 0..MaxAttempts
         /\ \A i \in events : batch[i].id \in confirmed' \/ i \in pending' =>
              Rank(i, events) <= start' + ChunkSize
         /\ IdsOf(pending') \cap confirmed' = {}
      \/ /\ phase' = "returned" /\ stop' \in {"none", "closed", "aborted"}
         /\ start' = start /\ pending' = pending
         /\ salvaged' = salvaged /\ attempt' = attempt
  <2>1. CASE PostChunk(start + ChunkSize)
    <3>1. Chunk(start + ChunkSize) \subseteq events
      BY DEF Chunk
    <3>2. \A i \in Chunk(start + ChunkSize) :
            /\ Rank(i, events) <= (start + ChunkSize) + ChunkSize
            /\ ~(Rank(i, events) <= start + ChunkSize)
      BY <1>r, <1>t, ConstantTypes DEF Chunk
    <3>3. \A i \in events : batch[i].id \in confirmed' =>
            Rank(i, events) <= (start + ChunkSize) + ChunkSize
      BY <1>c, <1>r, <1>t, ConstantTypes
    <3>4. IdsOf(Chunk(start + ChunkSize)) \cap confirmed' = {}
      BY <1>c, <3>1, <3>2 DEF IdsOf
    <3>5. \/ /\ phase' = "posting" /\ stop' = stop
             /\ start' = start + ChunkSize /\ pending' = Chunk(start + ChunkSize)
             /\ salvaged' = 0 /\ attempt' = 1
          \/ /\ phase' = "returned" /\ stop' \in {"none", "closed", "aborted"}
             /\ start' = start /\ pending' = pending
             /\ salvaged' = salvaged /\ attempt' = attempt
      BY <1>t, <2>1, PostChunkFacts
    <3> QED
      BY <1>t, <3>1, <3>2, <3>3, <3>4, <3>5, ConstantTypes
  <2>2. CASE \E q, p : /\ Post(start, q, p, 1)
                       /\ q \subseteq pending /\ IdsOf(q) \cap confirmed' = {}
                       /\ p \in 0..MaxSalvagePasses
    <3>1. PICK q, p : /\ Post(start, q, p, 1)
                      /\ q \subseteq pending /\ IdsOf(q) \cap confirmed' = {}
                      /\ p \in 0..MaxSalvagePasses
      BY <2>2
    <3>2. \/ /\ phase' = "posting" /\ stop' = stop
             /\ start' = start /\ pending' = q /\ salvaged' = p /\ attempt' = 1
          \/ /\ phase' = "returned" /\ stop' \in {"closed", "aborted"}
             /\ start' = start /\ pending' = pending
             /\ salvaged' = salvaged /\ attempt' = attempt
      BY <3>1, PostFacts
    <3>3. \A i \in events : batch[i].id \in confirmed' \/ i \in q =>
            Rank(i, events) <= start + ChunkSize
      BY <1>c, <3>1 DEF SinkInv, SendInv
    <3> QED
      BY <1>t, <3>1, <3>2, <3>3, ConstantTypes
  <2> QED
    BY <2>1, <2>2
<1>i. IdsOf(events)' = IdsOf(events) /\ IdsOf(pending)' = IdsOf(pending') /\ IdsOf(pending) \subseteq IdsOf(events)
      /\ IdsOf(events) \subseteq Ids
      /\ Rank(1, events)' = Rank(1, events)
  BY <1>t, IdsKept, IdsType DEF Rank
<1>2. TypeOK'
  <2>1. /\ confirmed' \subseteq Ids /\ rejected' \subseteq Ids /\ refused' \subseteq Ids
        /\ unsure' \subseteq Ids /\ late' \subseteq SUBSET Ids
    BY <1>t, <1>i DEF TypeOK
  <2>2. /\ phase' \in Phases /\ stop' \in Stops /\ start' \in Nat
        /\ pending' \subseteq DOMAIN batch
        /\ salvaged' \in 0..MaxSalvagePasses /\ attempt' \in 0..MaxAttempts
    BY <1>t, <1>1 DEF TypeOK, Phases, Stops
  <2> QED
    BY <1>t, <2>1, <2>2, TypeKept DEF TypeOK
<1>3. LoopInv'
  BY LoopKept DEF SinkInv
<1>4. SendInv'
  <2>1. \A i : Rank(i, events)' = Rank(i, events)
    BY DEF Rank
  <2> QED
    BY <1>t, <1>1, <1>i, <2>1 DEF SendInv
<1>5. HeldInv'
  <2>1. /\ confirmed' \subseteq stored \cap IdsOf(events)
        /\ ingested \subseteq confirmed' \cup unsure
    BY <1>t, <1>i DEF SinkInv, HeldInv
  <2>2. \A request \in late : request \subseteq IdsOf(events) /\ request \subseteq unsure
    BY DEF SinkInv, HeldInv
  <2> QED
    BY <1>t, <1>1, <1>i, <2>1, <2>2 DEF SinkInv, HeldInv
<1> QED
  BY <1>2, <1>3, <1>4, <1>5 DEF SinkInv

(* deliver() stops for a reason. *)
LEMMA Stopped ==
  ASSUME SinkInv, NEW mayArrive \in BOOLEAN, GiveUp(mayArrive),
         NEW why \in Stops \ {"none"}, Return(why),
         UNCHANGED <<confirmed, rejected>>,
         \/ refused' = refused
         \/ refused' = refused \cup IdsOf(pending) /\ why = "permanent",
         unsure' \in {unsure, unsure \cup IdsOf(pending)},
         why = "permanent" => ~mayArrive /\ handled # "ingested"
  PROVE  SinkInv'
<1> USE DEF batchVars, lifeVars, requestVars
<1>t. /\ TypeOK /\ batch \in Batches /\ phase = "posting" /\ seen = Len(batch)
      /\ pending \subseteq events /\ events \in SUBSET DOMAIN batch
      /\ stop = "none" /\ refused = {} /\ IdsOf(pending) \cap confirmed = {}
  BY DEF SinkInv, TypeOK, SendInv, GiveUp
<1>u. /\ UNCHANGED <<batch, seen, events, unsendable, closed, closing, aborted, lago, stored,
                     refusable, ingested, start, pending, salvaged, attempt>>
      /\ handled' = "no" /\ phase' = "returned" /\ stop' = why
      /\ late' = late \/ (late' = late \cup {IdsOf(pending)} /\ mayArrive)
  BY DEF GiveUp, Return
<1>i. /\ IdsOf(events)' = IdsOf(events) /\ IdsOf(pending)' = IdsOf(pending)
      /\ IdsOf(pending) \subseteq IdsOf(events) /\ IdsOf(events) \subseteq Ids
  BY <1>t, <1>u, IdsKept, IdsType
<1>1. TypeOK'
  <2>1. /\ refused' \subseteq Ids /\ unsure' \subseteq Ids /\ late' \subseteq SUBSET Ids
        /\ confirmed' \subseteq Ids /\ rejected' \subseteq Ids
    BY <1>t, <1>u, <1>i DEF TypeOK
  <2> QED
    BY <1>t, <1>u, <2>1, TypeKept DEF TypeOK, Phases
<1>2. LoopInv'
  BY <1>u, LoopKept DEF SinkInv
<1>3. SendInv'
  BY <1>t, <1>u DEF SendInv
<1>4. HeldInv'
  <2>1. why = "permanent" => ingested \subseteq confirmed \cup unsure
    BY <1>t DEF SinkInv, HeldInv
  <2>2. \A request \in late : request \subseteq IdsOf(events) /\ request \subseteq unsure
    BY <1>t DEF SinkInv, HeldInv
  <2>3. \A request \in late' : /\ request \subseteq IdsOf(events)
                               /\ why = "permanent" => request \subseteq unsure
    BY <1>u, <1>i, <2>2
  <2> QED
    BY <1>t, <1>u, <1>i, <2>1, <2>3 DEF SinkInv, HeldInv
<1> QED
  BY <1>1, <1>2, <1>3, <1>4 DEF SinkInv

LEMMA AnswersKeep == SinkInv /\ (Answer \/ Interrupted) => SinkInv'
<1> SUFFICES ASSUME SinkInv, Answer \/ Interrupted PROVE SinkInv'
  OBVIOUS
<1> USE DEF tallyVars
<1>t. /\ TypeOK /\ TRUE \in BOOLEAN /\ FALSE \in BOOLEAN
      /\ {"closed", "aborted", "unconfirmed", "retryable", "permanent"} \subseteq Stops \ {"none"}
      /\ Interruption \in {"none", "closed", "aborted"}
  BY InterruptionStops DEF SinkInv, Stops
<1>g. ASSUME GiveUp(FALSE) PROVE /\ phase = "posting" /\ handled' = "no" /\ late' = late
                                 /\ UNCHANGED <<batchVars, lifeVars, lago, stored, refusable, ingested>>
  BY <1>g DEF GiveUp
<1>1. CASE Answer200
  <2>1. /\ handled = "ingested" /\ GiveUp(FALSE) /\ confirmed' = confirmed \cup IdsOf(pending)
        /\ PostChunk(start + ChunkSize) /\ UNCHANGED <<rejected, refused, unsure>>
    BY <1>1 DEF Answer200
  <2>2. confirmed' \subseteq stored /\ rejected' \subseteq Ids \cap refusable
    BY <1>t, <2>1 DEF SinkInv, HeldInv, TypeOK
  <2> QED
    BY <1>g, <2>1, <2>2, Resumes
<1>2. CASE AnswerUnconfirmed
  BY <1>2, <1>t, Stopped DEF AnswerUnconfirmed
<1>3. CASE AnswerTransient /\ LastAttempt
  BY <1>3, <1>t, Stopped DEF AnswerTransient, Unsure
<1>4. CASE AnswerTransient /\ ~LastAttempt
  <2>1. /\ phase = "posting" /\ phase' = "waiting" /\ handled' = "no"
        /\ unsure' = unsure \cup IdsOf(pending)
        /\ UNCHANGED <<batch, seen, events, unsendable, closed, closing, aborted, lago, stored,
                       refusable, ingested, start, pending, salvaged, attempt, stop,
                       confirmed, rejected, refused>>
        /\ late' = late \/ late' = late \cup {IdsOf(pending)}
    BY <1>4 DEF AnswerTransient, GiveUp, Unsure, requestVars, batchVars, lifeVars
  <2>2. attempt < MaxAttempts
    BY <1>4, <1>t, SinkAssumption DEF LastAttempt, TypeOK, ValidRetry
  <2>3. /\ pending \subseteq events /\ events \in SUBSET DOMAIN batch /\ batch \in Batches
        /\ IdsOf(pending) \cap confirmed = {} /\ seen = Len(batch)
    BY <1>t, <2>1 DEF SinkInv, SendInv, TypeOK
  <2>4. /\ IdsOf(events)' = IdsOf(events) /\ IdsOf(pending)' = IdsOf(pending)
        /\ IdsOf(pending) \subseteq IdsOf(events) /\ IdsOf(events) \subseteq Ids
        /\ \A i : Rank(i, events)' = Rank(i, events)
    BY <2>1, <2>3, IdsKept, IdsType DEF Rank
  <2>5. TypeOK'
    <3>1. /\ unsure' \subseteq Ids /\ late' \subseteq SUBSET Ids
          /\ confirmed' \subseteq Ids /\ rejected' \subseteq Ids /\ refused' \subseteq Ids
      BY <1>t, <2>1, <2>4 DEF TypeOK
    <3> QED
      BY <1>t, <2>1, <3>1, TypeKept DEF TypeOK, Phases, batchVars
  <2>6. LoopInv'
    BY <2>1, LoopKept DEF SinkInv, batchVars
  <2>7. SendInv'
    BY <2>1, <2>2, <2>3, <2>4 DEF SinkInv, SendInv
  <2>8. HeldInv'
    BY <2>1, <2>3, <2>4 DEF SinkInv, HeldInv
  <2> QED
    BY <2>5, <2>6, <2>7, <2>8 DEF SinkInv
<1>5. CASE AnswerPermanent
  BY <1>5, <1>t, Stopped DEF AnswerPermanent, RefuseAll
<1>6. CASE AnswerTooMany
  BY <1>6, <1>t, Stopped DEF AnswerTooMany, RefuseAll
<1>7. CASE AnswerGarbled
  <2>1. GiveUp(FALSE) /\ handled # "ingested"
    BY <1>7 DEF AnswerGarbled
  <2>2. CASE Interruption # "none" /\ Return(Interruption) /\ UNCHANGED <<tallyVars, unsure>>
    BY <1>t, <2>1, <2>2, Stopped
  <2>3. CASE GiveUpSalvage \/ RefuseAll
    BY <1>t, <2>1, <2>3, Stopped DEF GiveUpSalvage, RefuseAll
  <2> QED
    BY <1>7, <2>2, <2>3 DEF AnswerGarbled
<1>8. CASE Interrupted
  <2>1. /\ Interruption \in Stops \ {"none"} /\ Interruption # "permanent"
        /\ GiveUp(TRUE) /\ Return(Interruption) /\ UNCHANGED <<tallyVars, unsure>>
    BY <1>8, <1>t DEF Interrupted
  <2> QED
    BY <1>t, <2>1, Stopped
<1>9. CASE AnswerNamed /\ salvaged = MaxSalvagePasses
  <2>1. GiveUp(FALSE) /\ handled # "ingested" /\ GiveUpSalvage
    BY <1>9 DEF AnswerNamed
  <2> QED
    BY <1>t, <2>1, Stopped DEF GiveUpSalvage
<1>10. CASE AnswerNamed /\ salvaged # MaxSalvagePasses
  <2> DEFINE dup == {i \in pending : lago.postgres /\ batch[i].id \in stored}
             bad == {i \in pending : batch[i].id \in refusable}
             survivors == pending \ (dup \cup bad)
  <2>1. /\ handled = "named" /\ GiveUp(FALSE)
        /\ confirmed' = confirmed \cup IdsOf(dup)
        /\ rejected' = rejected \cup IdsOf(bad)
        /\ \/ PostChunk(start + ChunkSize)
           \/ Post(start, survivors, salvaged + 1, 1)
        /\ UNCHANGED <<refused, unsure>>
    BY <1>10, <1>t, NamedEvents DEF AnswerNamed
  <2>2. /\ pending \subseteq events /\ phase = "posting" /\ events \subseteq DOMAIN batch
        /\ batch \in Batches /\ seen \in Nat /\ IdsOf(pending) \cap confirmed = {}
    BY <1>t, <2>1, <1>g, BatchType DEF SinkInv, SendInv, TypeOK
  <2>3. /\ IdsOf(dup) \subseteq IdsOf(pending) \cap stored
        /\ IdsOf(bad) \subseteq IdsOf(pending) \cap refusable /\ IdsOf(pending) \subseteq Ids
    BY <2>2, IdsType DEF IdsOf
  <2>4. /\ confirmed' \subseteq confirmed \cup IdsOf(pending) /\ confirmed' \subseteq stored
        /\ rejected' \subseteq Ids \cap refusable
    BY <1>t, <2>1, <2>3 DEF SinkInv, HeldInv, TypeOK
  <2>5. IdsOf(survivors) \cap confirmed' = {} /\ survivors \subseteq pending
    <3>1. ASSUME NEW i \in survivors, batch[i].id \in IdsOf(dup) PROVE FALSE
      <4>1. PICK j \in dup : batch[j].id = batch[i].id
        BY <3>1 DEF IdsOf
      <4>2. i \in events /\ j \in events
        BY <2>2, <4>1
      <4>3. i = j
        BY <2>2, <4>1, <4>2, EventsApart DEF SinkInv
      <4> QED
        BY <3>1, <4>1, <4>3
    <3>2. \A i \in survivors : batch[i].id \notin confirmed
      BY <2>2 DEF IdsOf
    <3> QED
      BY <2>1, <3>1, <3>2 DEF IdsOf
  <2>6. salvaged + 1 \in 0..MaxSalvagePasses
    BY <1>10, <1>t, ConstantTypes DEF TypeOK
  <2>7. /\ phase = "posting" /\ handled' = "no" /\ handled # "ingested"
        /\ UNCHANGED <<batchVars, lifeVars, lago, stored, refusable, ingested, late, unsure, refused>>
    BY <1>g, <2>1
  <2>8. \/ PostChunk(start + ChunkSize)
        \/ \E q, p : /\ Post(start, q, p, 1)
                     /\ q \subseteq pending /\ IdsOf(q) \cap confirmed' = {}
                     /\ p \in 0..MaxSalvagePasses
    <3> HIDE DEF survivors, dup, bad
    <3> QED
      BY <2>1, <2>5, <2>6
  <2> HIDE DEF survivors, dup, bad
  <2> QED
    BY <2>1, <2>4, <2>7, <2>8, Resumes
<1> QED
  BY <1>1, <1>2, <1>3, <1>4, <1>5, <1>6, <1>7, <1>8, <1>9, <1>10 DEF Answer

(* deliver() begins, and judges one record after the other. *)
LEMMA PreflightKeeps == SinkInv /\ (Deliver \/ PreflightPass \/ PreflightEnds) => SinkInv'
<1> SUFFICES ASSUME SinkInv, Deliver \/ PreflightPass \/ PreflightEnds PROVE SinkInv'
  OBVIOUS
<1> USE DEF batchVars, requestVars, tallyVars, lifeVars, lagoVars
<1>t. /\ TypeOK /\ batch \in Batches /\ events \in SUBSET DOMAIN batch /\ seen \in Nat
      /\ stop = "none" /\ refused = {} /\ phase \in {"idle", "preflight"}
      /\ confirmed = {} /\ rejected = {} /\ ingested = {} /\ late = {} /\ handled = "no"
      /\ UNCHANGED <<batch, closed, closing, aborted, lago, handled, stored, refusable, late,
                     ingested, unsure, confirmed, rejected, refused>>
  BY DEF SinkInv, TypeOK, SendInv, Deliver, PreflightPass, PreflightEnds
<1>h. ASSUME phase' = "returned" => stop' # "permanent", stop' = "none" \/ phase' = "returned"
      PROVE  HeldInv'
  BY <1>t, <1>h DEF SinkInv, HeldInv
<1>1. CASE Deliver
  <2>1. /\ UNCHANGED <<seen, events, unsendable, start, pending, salvaged, attempt>>
        /\ seen = 0
        /\ \/ phase' = "returned" /\ stop' = "closed"
           \/ phase' = "preflight" /\ stop' = stop
    BY <1>1 DEF Deliver, Return, SinkInv, SendInv
  <2>2. TypeOK'
    BY <1>t, <2>1, TypeKept DEF TypeOK, Phases, Stops
  <2>3. LoopInv'
    BY <1>t, <2>1, LoopKept DEF SinkInv
  <2>4. SendInv' /\ HeldInv'
    BY <1>t, <1>h, <2>1 DEF SendInv
  <2> QED
    BY <2>2, <2>3, <2>4 DEF SinkInv
<1>2. CASE PreflightPass
  <2>1. /\ seen + 1 \in 1..Len(batch) /\ seen' = seen + 1 /\ phase = "preflight"
        /\ UNCHANGED <<phase, start, pending, salvaged, attempt, stop>> /\ Judge(seen + 1)
    BY <1>2, <1>t, BatchType DEF PreflightPass
  <2>2. batch[seen + 1].id \in Ids /\ seen + 1 \in DOMAIN batch
    BY <1>t, <2>1, BatchType
  <2>3. events' \subseteq DOMAIN batch /\ unsendable' \subseteq Ids
    BY <1>t, <2>1, <2>2 DEF Judge, Reject, TypeOK
  <2>4. TypeOK'
    BY <1>t, <2>1, <2>3, BatchType DEF TypeOK
  <2>5. LoopInv'
    BY <1>2, PassKeepsLoop DEF SinkInv
  <2>6. SendInv' /\ HeldInv'
    BY <1>t, <1>h, <2>1 DEF SendInv
  <2> QED
    BY <2>4, <2>5, <2>6 DEF SinkInv
<1>3. CASE PreflightEnds
  <2>1. /\ UNCHANGED <<seen, events, unsendable>> /\ seen = Len(batch) /\ PostChunk(0)
    BY <1>3 DEF PreflightEnds
  <2>2. \/ /\ phase' = "posting" /\ stop' = stop
           /\ start' = 0 /\ pending' = Chunk(0) /\ salvaged' = 0 /\ attempt' = 1
        \/ /\ phase' = "returned" /\ stop' \in {"none", "closed", "aborted"}
           /\ start' = start /\ pending' = pending
           /\ salvaged' = salvaged /\ attempt' = attempt
    <3>1. 0 \in Nat
      OBVIOUS
    <3> QED
      BY <2>1, <3>1, PostChunkFacts
  <2>3. Chunk(0) \subseteq events /\ \A i \in Chunk(0) : Rank(i, events) <= 0 + ChunkSize
    <3>1. \A i \in events : Rank(i, events) \in Nat
      BY <1>t, IdsType, RankInjective
    <3> QED
      BY <3>1, ConstantTypes DEF Chunk
  <2>4. TypeOK'
    BY <1>t, <2>1, <2>2, <2>3, TypeKept, ConstantTypes DEF TypeOK, Phases, Stops
  <2>5. LoopInv'
    BY <1>t, <2>1, LoopKept DEF SinkInv
  <2>6. SendInv' /\ HeldInv'
    <3>1. \A i : Rank(i, events)' = Rank(i, events)
      BY <2>1 DEF Rank
    <3> QED
      BY <1>t, <1>h, <2>1, <2>2, <2>3, <3>1 DEF SendInv
  <2> QED
    BY <2>4, <2>5, <2>6 DEF SinkInv
<1> QED
  BY <1>1, <1>2, <1>3

LEMMA BackOffKeeps == SinkInv /\ BackOffEnds => SinkInv'
<1> SUFFICES ASSUME SinkInv, BackOffEnds PROVE SinkInv'
  OBVIOUS
<1> USE DEF batchVars, tallyVars, lifeVars, lagoVars
<1>t. /\ TypeOK /\ phase = "waiting" /\ attempt + 1 \in 0..MaxAttempts /\ stop = "none"
      /\ UNCHANGED <<batch, seen, events, unsendable, closed, closing, aborted, lago, handled,
                     stored, refusable, late, ingested, unsure, confirmed, rejected, refused>>
  BY ConstantTypes DEF SinkInv, SendInv, TypeOK, BackOffEnds
<1>1. \/ /\ phase' = "posting" /\ stop' = stop /\ attempt' = attempt + 1
         /\ UNCHANGED <<start, pending, salvaged>>
      \/ /\ phase' = "returned" /\ stop' \in {"closed", "aborted"}
         /\ UNCHANGED <<start, pending, salvaged, attempt>>
  BY PostFacts DEF BackOffEnds, NextAttempt
<1>2. UNCHANGED <<start, pending, salvaged>> /\ attempt' \in 0..MaxAttempts
  BY <1>t, <1>1 DEF TypeOK
<1>3. TypeOK'
  BY <1>t, <1>1, <1>2, TypeKept DEF TypeOK, Phases, Stops
<1>4. LoopInv'
  BY <1>t, LoopKept DEF SinkInv
<1>5. /\ IdsOf(events)' = IdsOf(events) /\ IdsOf(pending)' = IdsOf(pending)
      /\ \A i : Rank(i, events)' = Rank(i, events)
  BY <1>t, <1>2 DEF IdsOf, Rank
<1>6. SendInv'
  BY <1>t, <1>1, <1>2, <1>5 DEF SinkInv, SendInv
<1>7. HeldInv'
  BY <1>t, <1>1, <1>5 DEF SinkInv, HeldInv
<1> QED
  BY <1>3, <1>4, <1>6, <1>7 DEF SinkInv

(* Lago takes a request that is on its way, or one that was given up. *)
LEMMA LagoKeeps ==
  ASSUME SinkInv, LagoHandles \/ \E ids \in late : LagoHandlesLate(ids)
  PROVE  SinkInv'
<1> USE DEF batchVars, requestVars, tallyVars, lifeVars
<1>t. /\ TypeOK /\ batch \in Batches /\ events \in SUBSET DOMAIN batch
      /\ UNCHANGED <<batch, seen, events, unsendable, phase, start, pending, salvaged, attempt,
                     confirmed, rejected, refused, stop, closed, closing, aborted, lago,
                     refusable, unsure>>
      /\ phase \notin {"idle", "preflight"}
  BY DEF SinkInv, SendInv, TypeOK, LagoHandles, LagoHandlesLate
<1>i. /\ IdsOf(events)' = IdsOf(events) /\ IdsOf(pending)' = IdsOf(pending)
      /\ IdsOf(events) \subseteq Ids
      /\ \A i : Rank(i, events)' = Rank(i, events)
  BY <1>t, IdsType DEF IdsOf, Rank
<1>1. LoopInv'
  BY <1>t, LoopKept DEF SinkInv
<1>2. CASE LagoHandles
  <2>1. /\ phase = "posting" /\ handled = "no" /\ late' = late
        /\ IdsOf(pending) \subseteq IdsOf(events)
    BY <1>2, IdsKept DEF LagoHandles, SinkInv, SendInv
  <2>2. \/ /\ handled' = "ingested" /\ IdsOf(pending) \cap refusable = {}
           /\ stored' = stored \cup IdsOf(pending)
           /\ ingested' = ingested \cup IdsOf(pending)
        \/ handled' \in {"too_many", "named"} /\ stored' = stored /\ ingested' = ingested
    BY <1>2 DEF LagoHandles, Takes, Ingest
  <2>3. TypeOK'
    BY <1>t, <1>i, <2>1, <2>2 DEF TypeOK
  <2>4. SendInv'
    BY <1>t, <1>i, <2>1 DEF SinkInv, SendInv
  <2>5. HeldInv'
    <3>1. ingested \subseteq confirmed \cup unsure /\ stop = "none"
      BY <2>1 DEF SinkInv, HeldInv, SendInv
    <3> QED
      BY <1>t, <1>i, <2>1, <2>2, <3>1 DEF SinkInv, HeldInv
  <2> QED
    BY <1>1, <2>3, <2>4, <2>5 DEF SinkInv
<1>3. ASSUME NEW ids \in late, LagoHandlesLate(ids) PROVE SinkInv'
  <2>1. /\ late' = late \ {ids} /\ handled' = handled
        /\ \/ /\ ids \cap refusable = {}
              /\ stored' = stored \cup ids /\ ingested' = ingested \cup ids
           \/ stored' = stored /\ ingested' = ingested
    BY <1>3 DEF LagoHandlesLate, Takes, Ingest
  <2>2. /\ ids \subseteq IdsOf(events)
        /\ phase # "returned" \/ stop = "permanent" => ids \subseteq unsure
    BY DEF SinkInv, HeldInv
  <2>3. TypeOK'
    BY <1>t, <1>i, <2>1, <2>2 DEF TypeOK
  <2>4. SendInv'
    BY <1>t, <1>i, <2>1 DEF SinkInv, SendInv
  <2>5. HeldInv'
    BY <1>t, <1>i, <2>1, <2>2 DEF SinkInv, HeldInv
  <2> QED
    BY <1>1, <2>3, <2>4, <2>5 DEF SinkInv
<1> QED
  BY <1>2, <1>3

LEMMA LifeKeeps ==
  ASSUME SinkInv, Close \/ CloseReturns \/ Abort \/ UNCHANGED vars
  PROVE  SinkInv'
<1> USE DEF batchVars, requestVars, tallyVars, lagoVars
<1>1. UNCHANGED <<batch, seen, events, unsendable, phase, start, pending, salvaged, attempt,
                  confirmed, rejected, refused, stop, lago, handled, stored, refusable, late,
                  ingested, unsure>>
  BY DEF Close, CloseReturns, Abort, vars
<1>2. closed' \in BOOLEAN /\ aborted' \in BOOLEAN /\ closing' \in {"no", "waiting", "done"}
  BY DEF Close, CloseReturns, Abort, vars, lifeVars, SinkInv, TypeOK
<1>3. TypeOK'
  BY <1>1, <1>2, TypeKept DEF SinkInv, TypeOK
<1>4. LoopInv'
  BY <1>1, LoopKept DEF SinkInv
<1>i. /\ IdsOf(events)' = IdsOf(events) /\ IdsOf(pending)' = IdsOf(pending)
      /\ \A i : Rank(i, events)' = Rank(i, events)
  BY <1>1 DEF IdsOf, Rank
<1>5. SendInv' /\ HeldInv'
  BY <1>1, <1>i DEF SinkInv, SendInv, HeldInv
<1> QED
  BY <1>3, <1>4, <1>5 DEF SinkInv

LEMMA SinkInvNext == SinkInv /\ [Next]_vars => SinkInv'
BY AnswersKeep, PreflightKeeps, BackOffKeeps, LagoKeeps, LifeKeeps DEF Next

LEMMA SinkInvInit == Init => SinkInv
<1> SUFFICES ASSUME Init PROVE SinkInv
  OBVIOUS
<1>1. batch \in Batches /\ IdsOf(DOMAIN batch) \subseteq Ids /\ Len(batch) \in Nat
  BY BatchType, IdsType DEF Init
<1>2. IdsOf({}) = {}
  BY DEF IdsOf
<1>3. TypeOK
  <2>1. stored \subseteq Ids /\ refusable \subseteq Ids /\ seen \in 0..Len(batch)
        /\ salvaged \in 0..MaxSalvagePasses /\ attempt \in 0..MaxAttempts
    BY <1>1, ConstantTypes DEF Init
  <2> QED
    BY <1>1, <2>1 DEF Init, TypeOK, Phases, Stops
<1>4. LoopInv
  BY DEF Init, LoopInv
<1>5. SendInv
  BY DEF Init, SendInv
<1>6. HeldInv
  BY <1>2 DEF Init, HeldInv
<1> QED
  BY <1>3, <1>4, <1>5, <1>6 DEF SinkInv
-----------------------------------------------------------------------------
(* What the invariant says of a record's outcome. *)
LEMMA InvIsTrue == SinkInv => OutcomesTrue
<1> SUFFICES ASSUME SinkInv PROVE OutcomesTrue
  OBVIOUS
<1>t. /\ stop \in Stops /\ (stop = "none" => refused = {})
      /\ IdsOf(events) \cap unsendable = {}
  <2>1. seen \in Nat
    BY BatchType DEF SinkInv, TypeOK
  <2> QED
    BY <2>1, EventsApart DEF SinkInv, TypeOK, HeldInv
<1>1. SentIsHeld
  <2> SUFFICES ASSUME NEW id \in IdsOf(events), Outcome(id) = "sent" PROVE id \in stored
    BY DEF SentIsHeld
  <2>1. AnsweredAccepted
    BY <1>t DEF Outcome, Stops
  <2>2. /\ id \notin Unresolved
        /\ id \notin unsendable \cup rejected \cup (IF stop = "none" THEN {} ELSE refused)
    BY <2>1 DEF Outcome
  <2>3. id \in confirmed
    BY <1>t, <2>2 DEF Unresolved
  <2> QED
    BY <2>3 DEF SinkInv, HeldInv
<1>2. \A id \in confirmed : Outcome(id) = "sent"
  <2> SUFFICES ASSUME NEW id \in confirmed PROVE Outcome(id) = "sent"
    OBVIOUS
  <2>1. AnsweredAccepted
    BY DEF AnsweredAccepted, Settled
  <2>2. id \notin unsendable /\ id \notin rejected /\ id \notin refused /\ id \notin Unresolved
    BY <1>t DEF SinkInv, HeldInv, Unresolved
  <2> QED
    BY <2>1, <2>2 DEF Outcome
<1>3. TakenNotLost
  <2> SUFFICES ASSUME NEW id \in ingested, id \notin unsure
               PROVE  Outcome(id) \in {"sent", "unknown", "retryable", "closed"}
    BY DEF TakenNotLost
  <2>1. CASE id \in confirmed
    BY <1>2, <2>1
  <2>2. CASE id \notin confirmed
    <3>1. stop # "permanent" /\ refused = {}
      BY <2>2 DEF SinkInv, HeldInv
    <3>2. id \notin unsendable /\ id \notin rejected
      BY <1>t DEF SinkInv, HeldInv
    <3>3. CASE AnsweredAccepted
      BY <3>1, <3>2, <3>3 DEF Outcome
    <3>4. CASE ~AnsweredAccepted
      BY <1>t, <3>1, <3>4 DEF Outcome, AnsweredAccepted, Stops
    <3> QED
      BY <3>3, <3>4
  <2> QED
    BY <2>1, <2>2
<1> QED
  BY <1>1, <1>2, <1>3 DEF OutcomesTrue, ConfirmedStaysSent, RejectedWereRefused, SinkInv, HeldInv

(* For every batch and every way Lago and the network behave, what         *)
(* deliver() answers for a record agrees with what Lago holds.             *)
THEOREM LagoOutcomes == Spec => []OutcomesTrue
BY SinkInvInit, SinkInvNext, InvIsTrue, PTL DEF Spec
-----------------------------------------------------------------------------
(* The loop invariant says what preflight promises, if encode is faithful. *)
LEMMA LoopIsExact ==
  ASSUME EncodingExact, SinkInv
  PROVE  PreflightExact
<1> DEFINE Records(id) == {batch[i].body : i \in {j \in DOMAIN batch : batch[j].id = id}}
           Usable(id) == \A b \in Records(id) : Records(id) \subseteq AlikeDocs[b]
<1> SUFFICES ASSUME phase \notin {"idle", "preflight"}, stop # "closed"
             PROVE  /\ IdsOf(events) = {id \in IdsOf(DOMAIN batch) : Usable(id)}
                    /\ unsendable = IdsOf(DOMAIN batch) \ IdsOf(events)
                    /\ \A i \in events : \A j \in 1..i-1 : batch[j].id # batch[i].id
                    /\ \A id \in IdsOf(events) : Records(id) \subseteq FaithfulDocs
  BY DEF PreflightExact
<1>t. /\ seen = Len(batch) /\ seen \in Nat /\ DOMAIN batch = 1..seen
      /\ \A i \in 1..seen : batch[i].body \in DOMAIN Docs
  BY BatchType DEF SinkInv, TypeOK, SendInv, Phases
<1>l. /\ \A k \in 1..seen : \E i \in 1..k : batch[i].id = batch[k].id /\ First(i)
      /\ \A i : i \in events <=> i \in 1..seen /\ First(i) /\ Agreed(i, seen)
      /\ \A x : x \in unsendable <=> \E i \in 1..seen : ~Agreed(i, seen) /\ x = batch[i].id
  BY DEF SinkInv, LoopInv
(* Two records make the same event just if they are alike. *)
<1>1. \A i, j \in 1..seen :
        SameEvent(i, j) <=> /\ Encoded[batch[i].body].issue = None
                            /\ batch[j].body \in AlikeDocs[batch[i].body]
  BY <1>t DEF EncodingExact, SameEvent, AlikeDocs
(* Agreement of the records of one id, whichever of them is asked. *)
<1>2. ASSUME NEW k \in 1..seen, Agreed(k, seen)
      PROVE  /\ batch[k].id \in IdsOf(events)
             /\ Usable(batch[k].id)
             /\ Records(batch[k].id) \subseteq FaithfulDocs
  <2>1. ASSUME NEW i \in 1..seen, NEW j \in 1..seen,
               batch[i].id = batch[k].id, batch[j].id = batch[k].id
        PROVE  SameEvent(i, j)
    <3>1. SameEvent(k, i) /\ SameEvent(k, j)
      BY <1>2, <2>1 DEF Agreed
    <3> QED
      BY <3>1, SameEventIsEquivalence
  <2>2. PICK i \in 1..k : batch[i].id = batch[k].id /\ First(i)
    BY <1>l
  <2>3. i \in 1..seen
    BY <1>t, <2>2
  <2>4. i \in events
    BY <1>l, <2>1, <2>2, <2>3 DEF Agreed
  <2>5. Usable(batch[k].id)
    BY <1>t, <1>1, <2>1
  <2>6. Records(batch[k].id) \subseteq FaithfulDocs
    <3>1. ASSUME NEW j \in 1..seen, batch[j].id = batch[k].id
          PROVE  batch[j].body \in FaithfulDocs
      <4>1. Encoded[batch[j].body].issue = None
        BY <2>1, <3>1 DEF SameEvent
      <4> QED
        BY <1>t, <4>1 DEF EncodingExact
    <3> QED
      BY <1>t, <3>1
  <2> QED
    BY <2>2, <2>4, <2>5, <2>6 DEF IdsOf
<1>3. ASSUME NEW k \in 1..seen, ~Agreed(k, seen)
      PROVE  ~Usable(batch[k].id)
  <2>1. PICK j \in 1..seen : batch[j].id = batch[k].id /\ ~SameEvent(k, j)
    BY <1>3 DEF Agreed
  <2>2. \/ batch[j].body \notin AlikeDocs[batch[k].body]
        \/ batch[k].body \notin AlikeDocs[batch[k].body]
    BY <1>1, <1>t, <2>1 DEF AlikeDocs
  <2>3. batch[j].body \in Records(batch[k].id) /\ batch[k].body \in Records(batch[k].id)
    BY <1>t, <2>1
  <2> QED
    BY <2>2, <2>3
<1>4. ASSUME NEW id \in IdsOf(events)
      PROVE  \E k \in 1..seen : id = batch[k].id /\ Agreed(k, seen)
  BY <1>l DEF IdsOf
<1>5. IdsOf(DOMAIN batch) = {batch[k].id : k \in 1..seen}
  BY <1>t DEF IdsOf
<1>6. IdsOf(events) \cap unsendable = {}
  BY <1>t, EventsApart DEF SinkInv
<1> HIDE DEF Records, Usable
<1>7. IdsOf(events) = {id \in IdsOf(DOMAIN batch) : Usable(id)}
  BY <1>2, <1>3, <1>4, <1>5
<1>8. unsendable = IdsOf(DOMAIN batch) \ IdsOf(events)
  BY <1>2, <1>5, <1>6, <1>l
<1>9. \A id \in IdsOf(events) : Records(id) \subseteq FaithfulDocs
  BY <1>2, <1>4
<1> QED
  BY <1>7, <1>8, <1>9, <1>l DEF First

(* For every batch, in whatever order it holds the records of one id:      *)
(* preflight sends one event for each id whose records all encode and are  *)
(* alike and rejects every other id, given that encode is faithful to the  *)
(* records and tells them apart.                                           *)
THEOREM PreflightCorrect == EncodingExact => (Spec => []PreflightExact)
<1> SUFFICES ASSUME EncodingExact PROVE Spec => []PreflightExact
  OBVIOUS
<1>1. SinkInv => PreflightExact
  BY LoopIsExact
<1> QED
  BY <1>1, SinkInvInit, SinkInvNext, PTL DEF Spec
-----------------------------------------------------------------------------
(* close().                                                                *)

QuietInv == (closing # "no" => closed) /\ ClosedIsQuiet

LEMMA PostIsOpen ==
  ASSUME NEW s, NEW q, NEW p, NEW n, Post(s, q, p, n), phase' = "posting"
  PROVE  ~closed
BY DEF Post, MayPost, Interruption, Return

LEMMA PostChunkIsOpen ==
  ASSUME NEW s, PostChunk(s), phase' = "posting"
  PROVE  ~closed
BY PostIsOpen DEF PostChunk, Return

LEMMA QuietNext == QuietInv /\ [Next]_vars => QuietInv'
<1> SUFFICES ASSUME QuietInv, [Next]_vars PROVE QuietInv'
  OBVIOUS
<1> USE DEF lifeVars
<1>1. CASE Close
  BY <1>1 DEF Close, QuietInv, ClosedIsQuiet
<1>2. CASE CloseReturns
  BY <1>2 DEF CloseReturns, QuietInv, ClosedIsQuiet
<1>3. CASE UNCHANGED <<closed, closing>>
  <2>1. ASSUME phase' = "posting", phase # "posting" PROVE ~closed
    <3>1. CASE Deliver \/ PreflightPass \/ PreflightEnds
      BY <2>1, <3>1, PostChunkIsOpen DEF Deliver, PreflightPass, PreflightEnds, Return
    <3>2. CASE BackOffEnds
      BY <2>1, <3>2, PostIsOpen DEF BackOffEnds
    <3>3. CASE Answer \/ Interrupted
      BY <2>1, <3>3 DEF Answer, Answer200, AnswerUnconfirmed, AnswerTransient, AnswerPermanent,
                        AnswerTooMany, AnswerGarbled, AnswerNamed, Interrupted, GiveUp
    <3>4. CASE LagoHandles \/ (\E ids \in late : LagoHandlesLate(ids)) \/ Abort
      BY <2>1, <3>4 DEF LagoHandles, LagoHandlesLate, Abort
    <3>5. CASE Close \/ CloseReturns \/ UNCHANGED vars
      BY <2>1, <3>5 DEF Close, CloseReturns, vars
    <3> QED
      BY <3>1, <3>2, <3>3, <3>4, <3>5 DEF Next
  <2> QED
    BY <1>3, <2>1 DEF QuietInv, ClosedIsQuiet
<1>4. Close \/ CloseReturns \/ UNCHANGED <<closed, closing>>
  <2>1. CASE Answer \/ Interrupted
    BY <2>1 DEF Answer, Answer200, AnswerUnconfirmed, AnswerTransient, AnswerPermanent,
                AnswerTooMany, AnswerGarbled, AnswerNamed, Interrupted, GiveUp
  <2>2. CASE Deliver \/ PreflightPass \/ PreflightEnds \/ BackOffEnds \/ Abort
    BY <2>2 DEF Deliver, PreflightPass, PreflightEnds, BackOffEnds, Abort
  <2>3. CASE LagoHandles \/ (\E ids \in late : LagoHandlesLate(ids)) \/ UNCHANGED vars
    BY <2>3 DEF LagoHandles, LagoHandlesLate, vars
  <2> QED
    BY <2>1, <2>2, <2>3 DEF Next
<1> QED
  BY <1>1, <1>2, <1>3, <1>4

(* Once close() has returned no request is on its way and none is sent, by *)
(* no retry, resend or later chunk.                                        *)
THEOREM LagoQuiet == Spec => []ClosedIsQuiet
<1>1. Init => QuietInv
  BY DEF Init, QuietInv, ClosedIsQuiet
<1>2. QuietInv => ClosedIsQuiet
  BY DEF QuietInv
<1> QED
  BY <1>1, <1>2, QuietNext, PTL DEF Spec
=============================================================================
