-------------------------- MODULE MCSessionTranscript --------------------------
EXTENDS SessionTranscript
================================================================================
