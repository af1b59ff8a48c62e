----------------------------- MODULE MessageLane -----------------------------
(***************************************************************************)
(* What a lane of the outbox promises to those who enqueue and to those    *)
(* who read the chats, without a table, attempts, delays, formats or       *)
(* goroutines: only the first message that is not settled is worked on;    *)
(* the platform gets it again only when every delivery so far was lost to  *)
(* the process; and it is settled by what the platform did with it.        *)
(***************************************************************************)
EXTENDS Naturals, Sequences

CONSTANT MaxAttempts   \* refusals after which a message is given up

VARIABLES
    outcome,    \* "pending", "sent" or "dead", by message, in the order they were enqueued
    delivered,  \* how often the platform has accepted each message
    lost,       \* how many of these acceptances the process could not record
    refused,    \* how often the platform has refused it
    reported    \* messages whose chat was told that they could not be sent

counts == <<delivered, lost, refused>>
vars == <<outcome, counts, reported>>

Init == outcome = <<>> /\ delivered = <<>> /\ lost = <<>> /\ refused = <<>> /\ reported = {}

Messages == 1 .. Len(outcome)

\* The message that is worked on.
First(i) ==
    /\ i \in Messages /\ outcome[i] = "pending"
    /\ \A j \in Messages : j < i => outcome[j] # "pending"

\* No acceptance of the message is known to the process, or one is.
Unknown(i) == delivered[i] = lost[i]
Known(i) == delivered[i] = lost[i] + 1

Enqueue ==
    /\ outcome' = Append(outcome, "pending")
    /\ delivered' = Append(delivered, 0)
    /\ lost' = Append(lost, 0)
    /\ refused' = Append(refused, 0)
    /\ UNCHANGED reported

Deliver(i) ==
    /\ First(i) /\ Unknown(i)
    /\ delivered' = [delivered EXCEPT ![i] = @ + 1]
    /\ UNCHANGED <<outcome, lost, refused, reported>>

\* The answer, the write or the process that knew of the acceptance is lost.
Lose(i) ==
    /\ First(i) /\ Known(i)
    /\ lost' = [lost EXCEPT ![i] = @ + 1]
    /\ UNCHANGED <<outcome, delivered, refused, reported>>

Refuse(i) ==
    /\ First(i) /\ Unknown(i)
    /\ refused' = [refused EXCEPT ![i] = @ + 1]
    /\ UNCHANGED <<outcome, delivered, lost, reported>>

Settle(i) ==
    /\ First(i) /\ Known(i)
    /\ outcome' = [outcome EXCEPT ![i] = "sent"]
    /\ UNCHANGED <<counts, reported>>

\* The chat is told, also when the message cannot be marked.
GiveUp(i) ==
    /\ First(i) /\ Unknown(i) /\ refused[i] >= MaxAttempts
    /\ \/ outcome' = [outcome EXCEPT ![i] = "dead"]
       \/ UNCHANGED outcome
    /\ reported' = reported \cup {i}
    /\ UNCHANGED counts

Next ==
    \/ Enqueue
    \/ \E i \in Messages : Deliver(i) \/ Lose(i) \/ Refuse(i) \/ Settle(i) \/ GiveUp(i)

Spec == Init /\ [][Next]_vars

-----------------------------------------------------------------------------
(* What follows from it.                                                   *)

Outcome == {"pending", "sent", "dead"}

TypeOK ==
    /\ outcome \in Seq(Outcome)
    /\ delivered \in Seq(Nat) /\ Len(delivered) = Len(outcome)
    /\ lost \in Seq(Nat) /\ Len(lost) = Len(outcome)
    /\ refused \in Seq(Nat) /\ Len(refused) = Len(outcome)
    /\ reported \subseteq Messages

\* The platform hears of a message once all earlier ones are settled; it has a message that is
\* settled as sent once more than it was lost, one that is settled as dead not even once more,
\* and only a message it refused MaxAttempts times is dead or reported to be.
Promise ==
    \A i \in Messages :
        /\ delivered[i] + refused[i] > 0 => \A j \in Messages : j < i => outcome[j] # "pending"
        /\ CASE outcome[i] = "sent" -> Known(i)
             [] outcome[i] = "dead" -> Unknown(i)
             [] OTHER -> Known(i) \/ Unknown(i)
        /\ outcome[i] = "dead" \/ i \in reported => refused[i] >= MaxAttempts
=============================================================================
