--------------------------- MODULE MessageChannel ---------------------------
(***************************************************************************)
(* What the code above the protocol takes for granted: a connection is a   *)
(* first-in first-out channel of whole messages.  A message that cannot be *)
(* represented (one of its lists is longer than a field count can say)     *)
(* ends the promise: from then on the receiver may be given anything.      *)
(***************************************************************************)
EXTENDS Sequences

CONSTANTS Message, Representable(_)

VARIABLES transit,   \* messages sent and not yet delivered
          received,  \* messages delivered
          exact      \* no unrepresentable message was sent

Init == transit = <<>> /\ received = <<>> /\ exact = TRUE

Send(m) ==
    /\ exact
    /\ Representable(m)
    /\ transit' = Append(transit, m)
    /\ UNCHANGED <<received, exact>>

Deliver ==
    /\ exact
    /\ transit # <<>>
    /\ received' = Append(received, Head(transit))
    /\ transit' = Tail(transit)
    /\ UNCHANGED exact

Overflow == ~exact'

Next == Deliver \/ Overflow \/ \E m \in Message : Send(m)

Spec == Init /\ [][Next]_<<transit, received, exact>>
=============================================================================
