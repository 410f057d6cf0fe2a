-------------------------- MODULE MCConnectionPool --------------------------
(* Instances of ConnectionPool for TLC.                                    *)
EXTENDS ConnectionPool, TLC

\* Every call that takes one connection at a time.
Calls == {"send", "sendBatch", "receive", "deleteMessages", "changeVisibility", "purge",
          "adminWrite", "setPaused", "createQueue", "deleteQueue", "setAttributes", "tagQueue",
          "createNamespace", "deleteNamespace", "createToken", "createUser", "deleteUser",
          "grant", "setOwner", "listMessages", "queueDepth", "listAllQueues", "sweep"}
Listers == {"listQueues"}

Symmetry == Permutations(Request)
=============================================================================
