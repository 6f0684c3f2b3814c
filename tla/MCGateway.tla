---------------------------- MODULE MCGateway ----------------------------
(* Instances of Gateway for TLC: two servos in two slots; the other list   *)
(* moves the second servo to the first slot and leaves the second unused.  *)
EXTENDS Gateway

MCIdList == [first |-> [k \in Slots |-> k + 1],
             other |-> [k \in Slots |-> IF k = 0 THEN 2 ELSE SKIP_ID]]
MCRequests == {<<"mode", "manual">>, <<"mode", "readwrite">>, <<"ids", "other">>,
               <<"goal", "new">>, <<"raw", "other">>, <<"read", "beyond">>}
=============================================================================
