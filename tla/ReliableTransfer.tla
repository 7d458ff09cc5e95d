-------------------------- MODULE ReliableTransfer --------------------------
(***************************************************************************)
(* What one reliable_send / reliable_recv pair promises its callers: the   *)
(* receiving side accumulates the data in order, and each call returns     *)
(* normally ("ok") only when the receiving side holds all of it.  Either   *)
(* call may raise instead ("failed"); raising promises nothing, so one     *)
(* side may succeed while the other fails.                                 *)
(***************************************************************************)
EXTENDS Naturals, Sequences

CONSTANT Files  \* the chunk sequences that may be sent

VARIABLES
  raw_data,       \* the chunks to send
  received_data,  \* the chunks the receiving side has accepted
  sender,         \* "open", "ok" or "failed"
  receiver        \* "open", "ok" or "failed"

vars == <<raw_data, received_data, sender, receiver>>

Complete == received_data = raw_data

Init ==
  /\ raw_data \in Files
  /\ received_data = <<>>
  /\ sender = "open"
  /\ receiver = "open"

(* The next chunk is accepted, while neither side has an outcome that rests *)
(* on the data being complete.                                              *)
Deliver ==
  /\ receiver = "open"
  /\ sender # "ok"
  /\ Len(received_data) < Len(raw_data)
  /\ received_data' = Append(received_data, raw_data[Len(received_data) + 1])
  /\ UNCHANGED <<raw_data, sender, receiver>>

ReceiverReturns ==
  /\ receiver = "open"
  /\ Complete
  /\ receiver' = "ok"
  /\ UNCHANGED <<raw_data, received_data, sender>>

SenderReturns ==
  /\ sender = "open"
  /\ Complete
  /\ sender' = "ok"
  /\ UNCHANGED <<raw_data, received_data, receiver>>

SenderRaises ==
  /\ sender = "open"
  /\ sender' = "failed"
  /\ UNCHANGED <<raw_data, received_data, receiver>>

ReceiverRaises ==
  /\ receiver = "open"
  /\ receiver' = "failed"
  /\ UNCHANGED <<raw_data, received_data, sender>>

Next ==
  \/ Deliver
  \/ ReceiverReturns
  \/ SenderReturns
  \/ SenderRaises
  \/ ReceiverRaises

Spec == Init /\ [][Next]_vars
=============================================================================
