---------------------------- MODULE RecordStream ----------------------------
(***************************************************************************)
(* What reading an archive promises, without chunks or compression: the    *)
(* records that can be recovered from the file are handed over once each   *)
(* and in order, and the reader ends well only when all of them were.      *)
(***************************************************************************)
EXTENDS Integers, Sequences, SequencesExt

VARIABLES
  source,     \* the records that can be recovered, in file order
  sound,      \* whether the file can be read to its end
  delivered,  \* those handed over so far
  ended       \* "no", "yes" or "failed"

vars == <<source, sound, delivered, ended>>

Init ==
  /\ delivered = <<>>
  /\ ended = "no"

(* A step hands over any number of further records. *)
Deliver ==
  /\ ended = "no"
  /\ IsPrefix(delivered, delivered')
  /\ IsPrefix(delivered', source)
  /\ UNCHANGED <<source, sound>>

Read == Deliver /\ ended' = "no"
End  == Deliver /\ ended' = "yes" /\ delivered' = source
Fail == Deliver /\ ended' = "failed" /\ ~sound

Next == Read \/ End \/ Fail

Spec == Init /\ [][Next]_vars

=============================================================================
