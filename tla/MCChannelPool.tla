---------------------------- MODULE MCChannelPool ---------------------------
(* Small instances of ChannelPool for TLC. *)
EXTENDS ChannelPool

CONSTANTS c1, c2

\* One channel with one slot.
OneChannel == {c1}
OneSlot == [c \in Channels |-> 1]
Flat == [c \in Channels |-> 0]

\* Two channels, the first preferred.
TwoChannels == {c1, c2}
FirstPreferred == [c \in Channels |-> IF c = c1 THEN 1 ELSE 0]
TwoAndOneSlots == [c \in Channels |-> IF c = c1 THEN 1 ELSE 2]

HandlersAndReplicas == Permutations(Requests) \union Permutations(Replicas)
=============================================================================
