------------------------- MODULE MCSessionRequests -------------------------
(* The instances of SessionRequests that TLC checks.                       *)
EXTENDS SessionRequests

Asks(kind, key) == [kind |-> kind, key |-> key, player |-> "phone", previous |-> NoSession]
Scene(asks, n) ==
  [ask |-> [c \in Creates |-> IF c \in DOMAIN asks THEN asks[c] ELSE NotMade], holds |-> n]

(* One session and its producer, held once;                                *)
Alone == {Scene([c1 |-> Asks(kind, NoKey)], 1) : kind \in {"software", "hardware", "copy"}}

(* a session with a producer that the next create supersedes;              *)
Superseded == {Scene([c1 |-> Asks(kind, NoKey), c2 |-> Asks("cached", NoKey)], 0)
                 : kind \in {"hardware", "copy"}}

(* a repeated request beside a new one, a stall reopen, and a request id   *)
(* that is used for something else.                                        *)
Cached == Asks("cached", "k1")
Repeated ==
  {Scene([c1 |-> Cached, c2 |-> Cached, c3 |-> Asks("cached", NoKey)], 0),
   Scene([c1 |-> Cached, c2 |-> [Asks("cached", "k2") EXCEPT !.previous = "c1"]], 0),
   Scene([c1 |-> Cached, c2 |-> [Cached EXCEPT !.player = "tv"]], 0)}

(* Not in the run: a request is repeated beside that of another player.    *)
Beside ==
  {Scene([c1 |-> Cached, c2 |-> [Asks("cached", "k2") EXCEPT !.player = "tv"], c3 |-> Cached], 0)}

(* Not in the run: two holds, for two callers.                             *)
HeldTwice == {Scene([c1 |-> Asks("software", NoKey)], 2)}

MainScenes == Alone \cup Superseded \cup Repeated
=============================================================================
