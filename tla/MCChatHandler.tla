---------------------------- MODULE MCChatHandler ----------------------------
(***************************************************************************)
(* ChatHandler with a route of three backends, one of them configured twice.*)
(***************************************************************************)
EXTENDS ChatHandler

ThreeTargets == <<[model |-> "main", weight |-> 2], [model |-> "canary", weight |-> 1],
                  [model |-> "main", weight |-> 1]>>

=============================================================================
