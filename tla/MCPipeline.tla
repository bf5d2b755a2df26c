----------------------------- MODULE MCPipeline ------------------------------
(***************************************************************************)
(* Instances of RecordingPipeline, and of PipelineLiveness, for TLC.       *)
(***************************************************************************)
EXTENDS PipelineLiveness, TLC

CONSTANTS r1, o1

MCOwnerOf == [r \in Recordings |-> o1]

\* Intents, requests and slots of one worker are interchangeable.  The runs that
\* check liveness do without.
Symmetry == Permutations(EventIds) \cup Permutations(Requests) \cup Permutations(YoutubeSlots)
=============================================================================
