-------------------------- MODULE MCServerMessages ---------------------------
(* ServerMessages with two or three slots.  The hashes are chosen so that,   *)
(* as the table grows from 2 to 4 and 8 buckets, s1 moves twice (buckets 1,  *)
(* 3, 7), s2 stays in bucket 1 and s3 shares it until the table has 8.       *)
EXTENDS ServerMessages, TLC

CONSTANTS s1, s2, s3

HashThree == s1 :> 7 @@ s2 :> 1 @@ s3 :> 5
HashTwo == s1 :> 7 @@ s2 :> 1
Counts == <<2, 4, 8>>
=============================================================================
