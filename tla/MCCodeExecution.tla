----------------------------- MODULE MCCodeExecution -----------------------------
EXTENDS CodeExecution

AllTests == [c \in Call |-> Test]
OneLanguage == [c \in Call |-> "python"]
Heavier == [t \in Test |-> IF t = "t1" THEN 2 ELSE 1]
================================================================================
