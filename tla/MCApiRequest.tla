--------------------------- MODULE MCApiRequest ---------------------------
(* ApiRequest with the limits of the code but a shorter buffer of digits;   *)
(* numbers of five and of six digits on either side of it, of nine, and     *)
(* none; texts around the longest that fits, and answers in up to three     *)
(* pieces.                                                                  *)
EXTENDS ApiRequest

MCChats == {-31, 0, 7, 120, 98765, 987654, 987654321}
MCNumbers == MCChats \union {n \div d : n \in MCChats \ {-31}, d \in {10, 100, 1000, 10000}}
  \union {987654321 \div d : d \in {100000, 1000000, 10000000, 100000000}}
MCDecimal[n \in MCNumbers] ==
  IF n <= 0 THEN <<>> ELSE Append(MCDecimal[n \div 10], n % 10)

(* What is left of MAX_PARMS_SIZE for the text of a private reply to user 7 *)
Longest == MaxParms - (AddressLen("private") + 13 + 1 + TokenLen + 8 + 2 + 9)
MCMessages == {0, 5, Longest - 17, Longest - 16, Longest, Longest + 1, 8191}
MCError == <<"e", "r">>
===========================================================================
