---------------------------- MODULE ResultChannel ----------------------------
(***************************************************************************)
(* What the edge promises about the results it produces: they travel to    *)
(* the server through a bounded channel that keeps their order, sends each *)
(* at most once, and may lose any of them (but only the oldest one it      *)
(* holds).  A result offered to a full channel never enters it.            *)
(***************************************************************************)
EXTENDS Naturals, Sequences

CONSTANTS
  Result,     \* the results that can be offered
  Capacity    \* how many results the channel holds

VARIABLES
  pending,    \* results in the channel, oldest first
  sent        \* results handed to the network, in that order

chanVars == <<pending, sent>>

ChanTypeOK ==
  /\ pending \in Seq(Result) /\ Len(pending) <= Capacity
  /\ sent \in Seq(Result)

ChanInit == pending = <<>> /\ sent = <<>>

Accept(r) ==
  /\ Len(pending) < Capacity
  /\ pending' = Append(pending, r)
  /\ UNCHANGED sent

Transmit ==
  /\ pending # <<>>
  /\ sent' = Append(sent, Head(pending))
  /\ pending' = Tail(pending)

Lose ==
  /\ pending # <<>>
  /\ pending' = Tail(pending)
  /\ UNCHANGED sent

ChanNext == (\E r \in Result : Accept(r)) \/ Transmit \/ Lose

ChanSpec == ChanInit /\ [][ChanNext]_chanVars
=============================================================================
