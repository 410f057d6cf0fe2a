------------------------- MODULE MCAuthorizedQueues -------------------------
(* Instances of AuthorizedQueues for TLC.                                  *)
EXTENDS AuthorizedQueues, TLC

AccessOperations == {"send", "createQueue", "deleteQueue", "createNamespace", "deleteNamespace",
                     "revoke", "grant", "setNamespaces", "setOwner", "promote", "demote",
                     "deleteUser"}
QueueOperations == {"send", "sendBatch", "receive", "purge", "createQueue", "deleteQueue",
                    "createNamespace", "deleteNamespace"}

Symmetry == Permutations(User) \cup Permutations(Request)
=============================================================================
