----------------------------- MODULE MCQueueApi -----------------------------
(* Instances of QueueApi for TLC.                                         *)
EXTENDS QueueApi, TLC

Sent(id, size, body, attributes, delay) ==
    [id |-> id, size |-> size, body |-> body, attributes |-> attributes, delay |-> delay]

MCCreates == {
    [attributes |-> << >>, tags |-> << >>],
    [attributes |-> [VisibilityTimeout |-> 30, MaximumMessageSize |-> 1048576], tags |-> << >>],
    [attributes |-> [VisibilityTimeout |-> 0], tags |-> ("team" :> "a")],
    [attributes |-> [Policy |-> ""], tags |-> << >>],
    [attributes |-> [MaximumMessageSize |-> 1023], tags |-> << >>],
    [attributes |-> << >>, tags |-> ("aws:key" :> "a")]}

MCSets == {
    [MaximumMessageSize |-> 1024, VisibilityTimeout |-> 0],
    [FifoQueue |-> "true"],
    [MessageRetentionPeriod |-> 59],
    << >>}

MCTags == {("team" :> "b") @@ ("stage" :> "b"), ("" :> "b")}

MCBatches == {
    [batch |-> TRUE, entries |-> <<Sent("a", 1025, "plain", 1, None),
                                  Sent("b", 1, "odd", 0, None),
                                  Sent("c", 1, "plain", 0, 901)>>],
    [batch |-> TRUE, entries |-> <<Sent("a", 0, "plain", 0, None),
                                  Sent("a", 5, "plain", 0, 900)>>],
    [batch |-> TRUE, entries |-> <<Sent("a", 1048576, "plain", 0, None),
                                  Sent("b", 1, "plain", 0, None)>>],
    [batch |-> TRUE, entries |-> << >>],
    [batch |-> FALSE, entries |-> <<Sent("a", 1025, "plain", 1, 0)>>]}

=============================================================================
