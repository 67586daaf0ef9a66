---------------------------- MODULE MCTransport ----------------------------
(***************************************************************************)
(* Transport with two clients, names of different lengths, and info        *)
(* objects from none to two pairs with values from none to two characters. *)
(***************************************************************************)
EXTENDS TransportInvariants

a == 1
b == 2
Empty == << <<>> >>
OnePair == << << <<<<a, b>>, <<b>>>> >> >>
TwoPairs == << << <<<<a>>, <<b, a>>>>, <<<<b>>, <<>>>> >> >>

MCRequest ==
  {Plain(k) : k \in {"SESSION_CREATE", "SESSION_INFO", "SESSION_FINALIZE", "RC"}}
  \cup {Call("PSET_INFO", <<a, b>>, <<>>, 0)}
  \cup {Call("PSET_LOOKUP", n, <<>>, 0) : n \in {<<a>>, <<a, b>>}}
  \cup {Call("PSET_FREE", <<b>>, <<>>, 0)}
  \cup {Call("GET_PSETS", <<>>, <<>>, 0), Call("PSET_OP", <<a, b>>, OnePair, 0)}
  \cup {Call("RC_ACCEPT", <<>>, i, t) : i \in {<<>>, TwoPairs}, t \in {1, 2}}
MCInfoAnswer == {<<>>, OnePair}
=============================================================================
