---------------------------- MODULE LossyChannel ----------------------------
(***************************************************************************)
(* What a service may expect of a Kafka topic: messages, numbered as they  *)
(* are handed over, arrive in that order, though not each of them, unless  *)
(* the way to the channel failed for them: those may come late and more    *)
(* than once. Only when the receiver has lost its connection may its place *)
(* change, forward (messages are skipped) or back (they are repeated).     *)
(***************************************************************************)
EXTENDS Naturals

VARIABLES
  accepted,   \* messages handed to the channel
  retried,    \* the messages that may come late, or more than once
  connected,  \* the receiver has a place in it
  passed,     \* the messages behind the receiver's place
  last        \* the message received last, 0 before the first

vars == <<accepted, retried, connected, passed, last>>

Init == accepted = 0 /\ retried = {} /\ connected = FALSE /\ passed = {} /\ last = 0

Accept == accepted' = accepted + 1 /\ UNCHANGED <<retried, connected, passed, last>>

\* Never a message that the receiver has behind it.
Retry ==
  /\ \E n \in 1 .. accepted : (\A m \in passed : m < n) /\ retried' = retried \cup {n}
  /\ UNCHANGED <<accepted, connected, passed, last>>

Receive ==
  /\ connected
  /\ last' \in 1 .. accepted \ retried
  /\ \A m \in passed : m < last'
  /\ passed' = passed \cup {last'}
  /\ UNCHANGED <<accepted, retried, connected>>

ReceiveRetried ==
  /\ connected
  /\ last' \in retried /\ passed' = passed \cup {last'}
  /\ UNCHANGED <<accepted, retried, connected>>

Disconnect == connected /\ connected' = FALSE /\ UNCHANGED <<accepted, retried, passed, last>>

Connect ==
  /\ ~ connected /\ connected' = TRUE
  /\ passed' \subseteq 1 .. accepted
  /\ UNCHANGED <<accepted, retried, last>>

Next == Accept \/ Retry \/ Receive \/ ReceiveRetried \/ Disconnect \/ Connect

Spec == Init /\ [][Next]_vars

=============================================================================
