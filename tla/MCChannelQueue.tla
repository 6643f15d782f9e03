---------------------------- MODULE MCChannelQueue ----------------------------
(* Instances of ChannelQueue for TLC: pushers and data are interchangeable  *)
(* where no liveness is checked.                                            *)
EXTENDS ChannelQueue, TLC

Symmetric == Permutations(Pusher) \cup Permutations(Item)
===============================================================================
