-------------------------------- MODULE MCJobs --------------------------------
\* Two clients, two commands over HTTP: their identities do not matter.
EXTENDS Jobs
MCSym == Permutations(Reqs)
===============================================================================
