---------------------------- MODULE FrameChannel ----------------------------
(***************************************************************************)
(* What a connection promises its user: the frames sent on it arrive in    *)
(* the order in which they were sent, each once, until it is reset.        *)
(***************************************************************************)
EXTENDS Naturals, Sequences

CONSTANT Frames

VARIABLES
    sent,       \* the frames sent since the last reset
    received    \* the frames received since then

ChannelInit == sent = <<>> /\ received = <<>>

Submit(frame) == sent' = Append(sent, frame) /\ UNCHANGED received

Receive ==
    /\ Len(received) < Len(sent)
    /\ received' = Append(received, sent[Len(received) + 1])
    /\ UNCHANGED sent

Reset == sent' = <<>> /\ received' = <<>>

ChannelNext == (\E frame \in Frames : Submit(frame)) \/ Receive \/ Reset

ChannelSpec == ChannelInit /\ [][ChannelNext]_<<sent, received>>
=============================================================================
