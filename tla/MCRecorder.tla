----------------------------- MODULE MCRecorder ------------------------------
(* One stream, one SEC poller with an aged filing and the manifest, over a   *)
(* small queue.                                                              *)
EXTENDS Recorder

CONSTANTS main, stream, poller, StreamEvents, PollerEvents

MCMaxEvents ==
    [s \in {main, stream, poller} |->
        IF s = main THEN 1 ELSE IF s = stream THEN StreamEvents ELSE PollerEvents]
MCAged == [p \in {poller} |-> 1]

=============================================================================
