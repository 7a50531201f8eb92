----------------------------- MODULE MCCt10Api -----------------------------
(* Instances of Ct10Api: one message per kind of recovery, and a file that *)
(* makes the retries few and the escalation near.                          *)
EXTENDS Ct10Api

Deadlock == [layer |-> "server", no |-> 1205, severity |-> 13, kills |-> FALSE]
Notice == [layer |-> "server", no |-> 0, severity |-> 0, kills |-> FALSE]
Raised == [layer |-> "server", no |-> 20001, severity |-> 16, kills |-> FALSE]
Timeout == [layer |-> "ctlib", no |-> 63, severity |-> 2, kills |-> FALSE]
Dead == [layer |-> "ctlib", no |-> 50, severity |-> 1, kills |-> TRUE]
NoHost == [layer |-> "ctlib", no |-> 4, severity |-> 5, kills |-> FALSE]

MCMessages == {Deadlock, Notice, Raised, Timeout, Dead, NoHost}

FewRetries ==
  {[class |-> "DEADLOCK", attr |-> "maxRetry", val |-> 1],
   [class |-> "DEAD_CONNECTION", attr |-> "maxRetry", val |-> 1],
   [class |-> "DISCONNECTED_BY_PEER", attr |-> "maxRetry", val |-> 11],
   [class |-> "TIMEOUT", attr |-> "maxRetry", val |-> 1],
   [class |-> "SEV_MISC_USER_ERROR", attr |-> "maxEsc", val |-> 2]}
=============================================================================
