------------------------------ MODULE MCOutbox ------------------------------
(***************************************************************************)
(* Two intents of one type for one recording and a third of another type;  *)
(* two dispatch calls; a claim takes two rows at most.                     *)
(***************************************************************************)
EXTENDS Outbox

MCEvents == 1 .. 3
MCTypeOf == [e \in MCEvents |-> IF e = 2 THEN "youtube.poll-processing" ELSE "youtube.upload"]
MCRecordingOf == [e \in MCEvents |-> "r1"]
=============================================================================
