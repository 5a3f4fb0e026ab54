------------------------- MODULE MCStreamingManager -------------------------
(* A small instance of StreamingManager for TLC.                           *)
EXTENDS StreamingManager

CONSTANTS ingest

On(p) == [enabled |-> TRUE, protocol |-> p, endpoint |-> ingest]
Off   == [enabled |-> FALSE, protocol |-> "RTMP", endpoint |-> ingest]

MCEndpoint == {ingest}
MCConfig   == {On("RTMP"), On("SRT"), Off}

\* for liveness: one enabled configuration and a disabled one
MCSmallConfig == {On("SRT"), Off}

=============================================================================
