------------------------------- MODULE MCJobs -------------------------------
\* StartJobs and jobs are interchangeable.
EXTENDS Jobs, TLC

CONSTANTS h1, h2, j1, j2

JobSymmetry == Permutations({h1, h2}) \cup Permutations({j1, j2})
=============================================================================
