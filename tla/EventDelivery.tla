---------------------------- MODULE EventDelivery ----------------------------
(***************************************************************************)
(* What the integration outbox promises about each event it is handed,     *)
(* whatever the workers, retries and owner interventions behind it do:     *)
(* a queued event reaches its receiver's books at most once, it is called  *)
(* delivered only after it did, what was delivered is never reopened or    *)
(* rewritten, and a dead letter comes back only by being revived.          *)
(***************************************************************************)
EXTENDS Naturals

CONSTANTS Events,      \* the unique keys (destination, source, external id)
          MaxVersion   \* how often the business record behind a key changes

VARIABLES phase,       \* what the outbox says of the event
          content,     \* the version of the record the event carries
          received     \* the version the receiver applied, 0 for none

vars == <<phase, content, received>>

Versions == 1..MaxVersion

TypeOK ==
  /\ phase \in [Events -> {"none", "queued", "delivered", "dead"}]
  /\ content \in [Events -> 0..MaxVersion]
  /\ received \in [Events -> 0..MaxVersion]

Init ==
  /\ phase = [e \in Events |-> "none"]
  /\ content = [e \in Events |-> 0]
  /\ received = [e \in Events |-> 0]

Move(e, from, to) ==
  /\ phase[e] = from
  /\ phase' = [phase EXCEPT ![e] = to]

\* An event is queued with the first version of its content ...
Queue(e) ==
  /\ Move(e, "none", "queued")
  /\ \E v \in Versions : content' = [content EXCEPT ![e] = v]
  /\ UNCHANGED received

\* ... which may be replaced while the event is still waiting.
Amend(e) ==
  /\ phase[e] = "queued"
  /\ \E v \in Versions : content' = [content EXCEPT ![e] = v]
  /\ UNCHANGED <<phase, received>>

\* The receiver applies the event, once.
Receive(e) ==
  /\ phase[e] = "queued"
  /\ received[e] = 0
  /\ received' = [received EXCEPT ![e] = content[e]]
  /\ UNCHANGED <<phase, content>>

Settle(e) ==
  /\ received[e] # 0
  /\ Move(e, "queued", "delivered")
  /\ UNCHANGED <<content, received>>

Bury(e) ==
  /\ Move(e, "queued", "dead")
  /\ UNCHANGED <<content, received>>

Revive(e) ==
  /\ Move(e, "dead", "queued")
  /\ UNCHANGED <<content, received>>

Next ==
  \E e \in Events :
    Queue(e) \/ Amend(e) \/ Receive(e) \/ Settle(e) \/ Bury(e) \/ Revive(e)

Spec == Init /\ [][Next]_vars
=============================================================================
