-------------------------- MODULE DeliveryContract --------------------------
(***************************************************************************)
(* What the delivery core of either language promises its caller, without  *)
(* saying how: adapters/core/README.md, the DeliveryStats documentation    *)
(* and the doc comments of Client.record, Client.flush, Client.shutdown.   *)
(*                                                                         *)
(*   - a submission is refused, or it becomes pending, or it is dropped    *)
(*     at once because the queue is full;                                  *)
(*   - a pending submission ends in exactly one of sent, dropped, unknown, *)
(*     and is never relabelled;                                            *)
(*   - a flush that answers TRUE answers for every submission that was     *)
(*     pending when it was called;                                         *)
(*   - the sink is closed once, when nothing is pending any more, and      *)
(*     nothing is accepted afterwards.                                     *)
(*                                                                         *)
(* Pipeline.tla (TypeScript) implements this specification.                *)
(***************************************************************************)

CONSTANTS Submissions,   \* one identity per call of Client.record
          Flushes        \* one identity per call of Client.flush

VARIABLES status,   \* [Submissions -> Statuses]
          asked,    \* [Flushes -> SUBSET Submissions], pending at the flush call
          answer,   \* [Flushes -> Answers]
          closed    \* whether the owned sink has been told to close

contractVars == <<status, asked, answer, closed>>

Terminal == {"sent", "dropped", "unknown"}

Statuses == {"new", "refused", "pending"} \cup Terminal

Answers == {"none", "waiting", "true", "false"}

Init ==
  /\ status = [r \in Submissions |-> "new"]
  /\ asked = [c \in Flushes |-> {}]
  /\ answer = [c \in Flushes |-> "none"]
  /\ closed = FALSE

(* record(): validated, refused, queued, or dropped because the queue is full. *)
Submit(r, s) ==
  /\ status[r] = "new"
  /\ s = "refused" \/ ~closed
  /\ status' = [status EXCEPT ![r] = s]
  /\ UNCHANGED <<asked, answer, closed>>

(* A pending submission reaches its one terminal state. *)
Settle(r, s) ==
  /\ status[r] = "pending"
  /\ status' = [status EXCEPT ![r] = s]
  /\ UNCHANGED <<asked, answer, closed>>

Flush(c) ==
  /\ answer[c] = "none"
  /\ asked' = [asked EXCEPT ![c] = {r \in Submissions : status[r] = "pending"}]
  /\ answer' = [answer EXCEPT ![c] = "waiting"]
  /\ UNCHANGED <<status, closed>>

FlushAnswer(c, a) ==
  /\ answer[c] = "waiting"
  /\ a = "true" => \A r \in asked[c] : status[r] \in Terminal
  /\ answer' = [answer EXCEPT ![c] = a]
  /\ UNCHANGED <<status, asked, closed>>

Close ==
  /\ ~closed
  /\ \A r \in Submissions : status[r] # "pending"
  /\ closed' = TRUE
  /\ UNCHANGED <<status, asked, answer>>

Next ==
  \/ \E r \in Submissions : \E s \in {"refused", "pending", "dropped"} : Submit(r, s)
  \/ \E r \in Submissions : \E s \in Terminal : Settle(r, s)
  \/ \E c \in Flushes : Flush(c)
  \/ \E c \in Flushes : \E a \in {"true", "false"} : FlushAnswer(c, a)
  \/ Close

Spec == Init /\ [][Next]_contractVars
=============================================================================
