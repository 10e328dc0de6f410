----------------------------- MODULE MCAsyncPoll -----------------------------
(***************************************************************************)
(* AsyncPoll for TLC: the provider's own budget of two, one failure of     *)
(* every class, a timeout of the call itself, and one completion code on   *)
(* each side of every boundary of isSuccessStatus and of the conflict      *)
(* test.                                                                   *)
(***************************************************************************)
EXTENDS AsyncPoll

MCFailures ==
  {[resp |-> 500, fragment |-> FALSE, wraps |-> "none"],
   [resp |-> 0,   fragment |-> TRUE,  wraps |-> "none"],
   [resp |-> 0,   fragment |-> TRUE,  wraps |-> "deadline"],
   [resp |-> 0,   fragment |-> FALSE, wraps |-> "none"],
   [resp |-> 200, fragment |-> TRUE,  wraps |-> "none"],
   [resp |-> 403, fragment |-> FALSE, wraps |-> "none"],
   [resp |-> 404, fragment |-> FALSE, wraps |-> "none"],
   [resp |-> 409, fragment |-> FALSE, wraps |-> "none"]}

MCCodes == {0, 199, 200, 299, 300, 400, 409, 500}
=============================================================================
