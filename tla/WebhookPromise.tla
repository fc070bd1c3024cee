--------------------------- MODULE WebhookPromise ---------------------------
(***************************************************************************)
(* What the webhooks of an organization promise about each delivery: its   *)
(* event is noticed only while the endpoint is on, it is recorded only if  *)
(* its event was noticed, even if the endpoint was switched off since, and *)
(* it is sent a bounded number of times; it ends as a success only if the  *)
(* receiver accepted it and as a failure only if all its attempts were     *)
(* made or it met the endpoint off, and once it has ended nothing more is  *)
(* sent.                                                                   *)
(*                                                                         *)
(* An accident (a worker dies, a statement fails) may have the work on its *)
(* delivery done again: an ended delivery may then be opened and sent      *)
(* again, as often as it was promised once more for each accident.  What   *)
(* is said of successes and failures, and everything said of the other     *)
(* deliveries, stands.                                                     *)
(*                                                                         *)
(* The statuses are those of the webhookDelivery table, and their meaning  *)
(* that of its comments and of processWebhookJob.                          *)
(***************************************************************************)
EXTENDS Naturals

CONSTANTS
    Delivery,       \* deliveries of events to the endpoint
    MaxAttempts     \* attempts promised to a delivery

VARIABLES
    serving,     \* the endpoint is on
    noticed,     \* the deliveries whose event found the endpoint on
    status,      \* status[d]: "none", "pending", "retrying", "success" or "failed"
    sent,        \* sent[d]: times d was sent
    accepted,    \* the deliveries the receiver has accepted
    turnedAway,  \* the deliveries that met the endpoint when it was off
    accidents    \* accidents[d]: times the work on d was broken off

vars == <<serving, noticed, status, sent, accepted, turnedAway, accidents>>

Init ==
    /\ serving = TRUE
    /\ noticed = {}
    /\ status = [d \in Delivery |-> "none"]
    /\ sent = [d \in Delivery |-> 0]
    /\ accepted = {}
    /\ turnedAway = {}
    /\ accidents = [d \in Delivery |-> 0]

Open(d) == status[d] \in {"pending", "retrying"}

\* Work on d goes on: it is open, or is done again after an accident.
AtWork(d) == Open(d) \/ accidents[d] > 0

AttemptsLeft(d) == sent[d] < MaxAttempts * (accidents[d] + 1)

Conclude(d, outcome) ==
    /\ status' = [status EXCEPT ![d] = outcome]
    /\ UNCHANGED <<serving, noticed, sent, accepted, turnedAway, accidents>>

Notice(d) ==
    /\ serving
    /\ noticed' = noticed \cup {d}
    /\ UNCHANGED <<serving, status, sent, accepted, turnedAway, accidents>>

Record(d) == d \in noticed /\ status[d] = "none" /\ Conclude(d, "pending")

\* d is sent, and the receiver may accept it, whatever answer comes back.
Send(d) ==
    /\ AtWork(d) /\ AttemptsLeft(d)
    /\ sent' = [sent EXCEPT ![d] = @ + 1]
    /\ accepted' \in {accepted, accepted \cup {d}}
    /\ UNCHANGED <<serving, noticed, status, turnedAway, accidents>>

Succeed(d) == AtWork(d) /\ d \in accepted /\ Conclude(d, "success")

\* Another attempt follows.
Retry(d) == AtWork(d) /\ 0 < sent[d] /\ AttemptsLeft(d) /\ Conclude(d, "retrying")

GiveUp(d) == AtWork(d) /\ (sent[d] >= MaxAttempts \/ d \in turnedAway) /\ Conclude(d, "failed")

\* d meets the endpoint when it is off, and may be given up for that.
TurnAway(d) ==
    /\ AtWork(d) /\ ~serving
    /\ turnedAway' = turnedAway \cup {d}
    /\ UNCHANGED <<serving, noticed, status, sent, accepted, accidents>>

Accident(d) ==
    /\ status[d] # "none"
    /\ accidents' = [accidents EXCEPT ![d] = @ + 1]
    /\ UNCHANGED <<serving, noticed, status, sent, accepted, turnedAway>>

\* After an accident the first attempt is made again.
StartOver(d) == accidents[d] > 0 /\ AttemptsLeft(d) /\ Conclude(d, "pending")

\* An admin switches the endpoint, or its failures disable it.
Switch == serving' = ~serving /\ UNCHANGED <<noticed, status, sent, accepted, turnedAway, accidents>>

Next ==
    \/ \E d \in Delivery :
          \/ Notice(d) \/ Record(d) \/ Send(d) \/ Succeed(d) \/ Retry(d) \/ GiveUp(d)
          \/ TurnAway(d) \/ Accident(d) \/ StartOver(d)
    \/ Switch

Spec == Init /\ [][Next]_vars
=============================================================================
