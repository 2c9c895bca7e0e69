---------------------------- MODULE MCWorkerCapacity ----------------------------
EXTENDS WorkerCapacity

\* Job executors as threads of the main process, and each in a process of its own.
AllInMain == [j \in Interview |-> Main]
OnePerProcess == [j \in Interview |-> IF j = "j1" THEN "p1" ELSE IF j = "j2" THEN "p2" ELSE "p3"]
================================================================================
