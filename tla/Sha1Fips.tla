------------------------------ MODULE Sha1Fips ------------------------------
(***************************************************************************)
(* The SHA-1 compression function as FIPS 180-1 states it: a schedule of   *)
(* 80 words W[0..79] built from the 16 big-endian words of the block, and *)
(* 80 rounds over five registers A..E that shift down by one each round.   *)
(* This is the abstract specification that sha1_transform (modelled in     *)
(* Sha1Transform) implements; a run of successive calls chains H.         *)
(***************************************************************************)
EXTENDS Sha1Word, Sequences

CONSTANTS Blocks, MaxCalls

VARIABLES blk, t, reg, H, calls
vars == <<blk, t, reg, H, calls>>

\* Word j of a 64-byte block, most significant byte first.
BlockWord(b, j) ==
    b[4 * j] * 2^(3 * ByteBits) + b[4 * j + 1] * 2^(2 * ByteBits)
      + b[4 * j + 2] * 2^ByteBits + b[4 * j + 3]

\* W[s] = rol(W[s-3] xor W[s-8] xor W[s-14] xor W[s-16], 1); sequence
\* index s + 1 holds W[s].
RECURSIVE Expand(_)
Expand(w) ==
    IF Len(w) = 80 THEN w
    ELSE LET n == Len(w)
         IN Expand(Append(w, Rol(((w[n - 2] ^^ w[n - 7]) ^^ w[n - 13]) ^^ w[n - 15], 1)))

Schedule(b) == Expand([j \in 1..16 |-> BlockWord(b, j - 1)])

Init ==
    /\ blk \in Blocks
    /\ t = 0
    /\ reg = H0
    /\ H = H0
    /\ calls = 1

Round ==
    /\ t < 80
    /\ LET s    == t \div 20 + 1
           temp == Add(Add(Add(Add(Rol(reg[1], 5), F(s, reg[2], reg[3], reg[4])),
                                   reg[5]), Schedule(blk)[t + 1]), K(s))
       IN reg' = <<temp, reg[1], Rol(reg[2], Width - 2), reg[3], reg[4]>>
    /\ t' = t + 1
    /\ UNCHANGED <<blk, H, calls>>

AddBack ==
    /\ t = 80
    /\ H' = [j \in 1..5 |-> Add(H[j], reg[j])]
    /\ t' = 81
    /\ UNCHANGED <<blk, reg, calls>>

NextBlock ==
    /\ t = 81
    /\ calls < MaxCalls
    /\ blk' \in Blocks
    /\ reg' = H
    /\ t' = 0
    /\ calls' = calls + 1
    /\ UNCHANGED H

Next == Round \/ AddBack \/ NextBlock

Spec == Init /\ [][Next]_vars

=============================================================================
