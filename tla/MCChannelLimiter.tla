-------------------------- MODULE MCChannelLimiter --------------------------
(* Instances of ChannelLimiter for TLC. *)
EXTENDS ChannelLimiter, TLC

Symmetric == Permutations(Req) \cup Permutations(Counter)
=============================================================================
