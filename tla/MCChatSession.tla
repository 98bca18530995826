-------------------------- MODULE MCChatSession --------------------------
(* Instances of ChatSession for TLC. *)
EXTENDS ChatSession, SequencesExt

\* Frames are their payload lengths: short, long, and too long for the field.
MCFrames == {1, 3, 5}
MCBytes == [f \in MCFrames |-> f]

\* The byte count of the queue, which Send and HandleWrite keep incrementally,
\* is that of the frames in it.
BytesAreCounted ==
  sendBytes = FoldLeft(LAMBDA n, f : n + Bytes[f] + HeadLen, 0, sendq)
=============================================================================
