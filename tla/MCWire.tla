-------------------------------- MODULE MCWire --------------------------------
(* The two codings of the wire, which share no state: a behaviour is one     *)
(* control connection or one file.  Streams hold every sequence of up to     *)
(* seven bytes that are CR, LF or other; a file has up to three lines.       *)
EXTENDS Framing, DataPath

MCStreams == UNION {[1..n -> {CR, LF, 65}] : n \in 0..7}
MCLines == {<<>>, <<65>>, <<65, 66>>, <<255>>}

Init ==
  \/ /\ FramingInit
     /\ lines = <<<<>>>> /\ breaks = <<>> /\ transfer_type = "I" /\ transfer_mode = "S"
     /\ linesep = <<10>> /\ stage = "idle" /\ wire = <<>> /\ arrived = <<>>
     /\ unpacked = NothingYet /\ result = <<>>
  \/ /\ PathInit
     /\ stream = <<>> /\ taken = 0 /\ buffer = <<>> /\ dispatched = <<>> /\ refused = FALSE

Next ==
  \/ FramingNext /\ UNCHANGED path_vars
  \/ PathNext /\ UNCHANGED framing_vars

Spec == Init /\ [][Next]_<<framing_vars, path_vars>>
=============================================================================
