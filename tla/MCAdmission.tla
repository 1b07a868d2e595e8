---------------------------- MODULE MCAdmission ----------------------------
(* The instance of Admission that TLC checks: two starts that may choose   *)
(* either encoder, and a producer in each pool.                            *)
EXTENDS Admission, TLC

CONSTANTS s1, s2, p1, p2

TwoStarts == {s1, s2}
TwoProducers == {p1, p2}

AnyEncoder == [s \in TwoStarts |-> {"hardware", "software"}]
OnePoolEach == p1 :> "hardware" @@ p2 :> "software"

(* The starts do not fit beside each other in the software pool.           *)
Weights == s1 :> 2 @@ s2 :> 1 @@ p1 :> 1 @@ p2 :> 2
=============================================================================
