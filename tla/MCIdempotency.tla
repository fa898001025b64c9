---------------------------- MODULE MCIdempotency ----------------------------
EXTENDS Idempotency, TLC

\* Requests, and payloads, are interchangeable.
Symmetry == Permutations(Requests) \cup Permutations(Fingerprints)
=============================================================================
