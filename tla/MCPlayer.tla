------------------------------- MODULE MCPlayer -------------------------------
(* Instances of Player for TLC. *)
EXTENDS Player, TLC

CONSTANTS s1, s2, s3

\* Two songs have the same length, and two albums differ in their case.
Titles    == s1 :> 1 @@ s2 :> 3 @@ s3 :> 2
Durations == s1 :> 5 @@ s2 :> 3 @@ s3 :> 3
Albums    == s1 :> "X" @@ s2 :> "x" @@ s3 :> "c"
Artists   == s1 :> "b" @@ s2 :> "a" @@ s3 :> "c"
Files     == s1 :> "a" @@ s2 :> "c" @@ s3 :> "b"
LowerCase == "X" :> 24 @@ "x" :> 24 @@ "a" :> 1 @@ "b" :> 2 @@ "c" :> 3
SomeLists == {{}, {s1, s2, s3}}
=============================================================================
