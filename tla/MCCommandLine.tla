---------------------------- MODULE MCCommandLine ----------------------------
(* One subscriber with two texts, and another: what a file brings is new,    *)
(* known, or known with another text.  At first there is an ordinary data    *)
(* file and a backup of another format; or none from where the program is    *)
(* run, and next to the program one edited by hand, with a line of junk and  *)
(* two that clash.  Tokens are told apart and nothing else: symmetric.       *)
EXTENDS CommandLine, TLC

Sub(imsi, msisdn, text) == [imsi |-> imsi, msisdn |-> msisdn, text |-> text]
MCSubscribers == {Sub("i1", "m1", "x"), Sub("i1", "m1", "y"), Sub("i2", "m2", "x")}
MCInitialDisks ==
  {[data |-> File({Sub("i2", "m2", "x")}), beside |-> Absent, backup |-> Headless],
   [data |-> Absent, backup |-> Absent,
    beside |-> File({Junk, Sub("i1", "m1", "x"), Sub("i1", "m1", "y")})]}

TokenSymmetry == Permutations(Tokens)
=============================================================================
