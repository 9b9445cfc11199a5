------------------------------ MODULE MCEspNow ------------------------------
(* Small instances of EspNowLink. *)
EXTENDS EspNowLink

CONSTANTS n1, n2, x1

\* One scenario: who is paired already, how often each node wakes, and the
\* troubles, by name.
With(home, wakes, r) ==
    [k \in Troubles \cup {"home", "wakes"} |->
        IF k = "home" THEN (n1 :> home[1] @@ n2 :> home[2])
        ELSE IF k = "wakes" THEN (n1 :> wakes[1] @@ n2 :> wakes[2])
        ELSE IF k \in DOMAIN r THEN r[k] ELSE 0]
Paired   == <<1, 0>>
Unpaired == <<0, 0>>
Both     == <<1, 2>>
Scenarios ==
    { \* A channel that moves; out of touch for half the sequence numbers.
      With(Paired, <<Always, 0>>, [lost |-> 1, move |-> 1]),
      With(Paired, <<6, 0>>, [lost |-> 3]),
      With(Paired, <<5, 0>>, [radio |-> 1, lost |-> 1]),
      \* Cold starts; frames twice, ACKs late.
      With(Paired, <<5, 0>>, [cold |-> 2]),
      With(Paired, <<3, 0>>, [cold |-> 1, lost |-> 1]),
      With(Paired, <<Always, 0>>, [twice |-> 1, late |-> 1, lost |-> 1]),
      \* The collector restarts, with its file or without.
      With(Unpaired, <<Always, 0>>, [saves |-> 2, restart |-> 1, busy |-> 1]),
      \* Somebody forgets a node, or types an address in.
      With(Paired, <<Always, 0>>, [forget |-> 1, close |-> 1]),
      With(Both, <<2, 1>>, [forget |-> 1]),
      With(Paired, <<2, 1>>, [add |-> 1]),
      With(Unpaired, <<2, 0>>, [add |-> 1, saves |-> 1]),
      \* Forgotten and typed in again between the two copies of a frame.
      With(Paired, <<2, 0>>, [twice |-> 1, forget |-> 1, add |-> 1]) }
Silences == {With(Paired, <<7, 0>>, [lost |-> 3])}
=============================================================================
