---------------------------- MODULE FrameContract ----------------------------
(***************************************************************************)
(* What stream_message promises whoever reads a stream: START first, then  *)
(* live events, then the final TOKEN and DONE, or ERROR in their place,    *)
(* and nothing after.  Where the events come from is left open;            *)
(* StreamRelay implements this specification.                              *)
(***************************************************************************)
EXTENDS Sequences

CONSTANT Events         \* the runtime events a run may emit

VARIABLE sent           \* the frames sent so far

\* Frames are tuples that begin with the frame's type.
Start == <<"start">>
Token == <<"token">>
Done  == <<"done">>
Error == <<"error">>
Frames == {Start, Token, Done, Error} \cup Events

Send(frame) == sent' = Append(sent, frame)

\* The last frame is the first one or an event: the stream is under way.
UnderWay == sent # <<>> /\ sent[Len(sent)] \in {Start} \cup Events

Begin    == sent = <<>> /\ Send(Start)
Relay    == UnderWay /\ \E e \in Events : Send(e)
Answer   == UnderWay /\ Send(Token)
Complete == sent # <<>> /\ sent[Len(sent)] = Token /\ Send(Done)
GiveUp   == UnderWay /\ Send(Error)

ContractInit == sent = <<>>
ContractNext == Begin \/ Relay \/ Answer \/ Complete \/ GiveUp

ContractSpec == ContractInit /\ [][ContractNext]_sent
=============================================================================
