----------------------------- MODULE AtLeastOnce -----------------------------
(***************************************************************************)
(* What the outbox promises (outbox/outbox.go:1-6): an event is recorded    *)
(* with a transaction; once that commits the event reaches the broker at    *)
(* least once before it is settled, unless it is quarantined; an event      *)
(* whose transaction has not committed, or aborted, never reaches it.       *)
(***************************************************************************)
EXTENDS Integers

CONSTANT Event

VARIABLES phase,   \* "none", "recorded", "aborted", "accepted", "settled", "dead"
          sent     \* sent[e]: copies of e the broker has received

promiseVars == <<phase, sent>>

PromiseInit ==
  /\ phase = [e \in Event |-> "none"]
  /\ sent  = [e \in Event |-> 0]

Move(S, from, to) ==
  /\ \A e \in S : phase[e] = from
  /\ phase' = [e \in Event |-> IF e \in S THEN to ELSE phase[e]]
  /\ UNCHANGED sent

Record(e)    == Move({e}, "none", "recorded")
Accept(e)    == Move({e}, "recorded", "accepted")
AbortEvent(e) == Move({e}, "recorded", "aborted")

Deliver(e) ==
  /\ phase[e] = "accepted"
  /\ sent' = [sent EXCEPT ![e] = @ + 1]
  /\ UNCHANGED phase

(* A batch settles at once: each event of S was sent, those of D are given up. *)
Settle(S, D) ==
  /\ \A e \in S \cup D : phase[e] = "accepted"
  /\ \A e \in S : sent[e] > 0
  /\ phase' = [e \in Event |-> IF e \in S THEN "settled"
                               ELSE IF e \in D THEN "dead" ELSE phase[e]]
  /\ UNCHANGED sent

PromiseNext ==
  \/ \E e \in Event : Record(e) \/ Accept(e) \/ AbortEvent(e) \/ Deliver(e)
  \/ \E S, D \in SUBSET Event : Settle(S, D)

Promise == PromiseInit /\ [][PromiseNext]_promiseVars
=============================================================================
