------------------------------ MODULE Sha1Word ------------------------------
(***************************************************************************)
(* Word arithmetic of sha1_imp.c at word width Width.  The code's words    *)
(* are uint32_t; TLC integers are 32-bit signed, so the compression is     *)
(* checked on narrower words: constants keep their low Width bits,         *)
(* rol(x, 30) (a rotation right by 2) is Rol(x, Width - 2) and a byte has  *)
(* Width \div 4 bits, so that a word is still four bytes.                  *)
(***************************************************************************)
EXTENDS Naturals, Bitwise

CONSTANT Width
ASSUME Width \in {8, 12, 16}

Mod == 2^Width
ByteBits == Width \div 4
Word == 0..(Mod - 1)

\* A slip: addition without the wrap of uint32_t.
AddUnbounded(x, y) == x + y

Add(x, y) == (x + y) % Mod

\* rol(x, n)
Rol(x, n) == ((x * 2^n) % Mod) | (x \div 2^(Width - n))

\* F1..F4
F1(x, y, z) == z ^^ (x & (y ^^ z))
F2(x, y, z) == (x ^^ y) ^^ z
F3(x, y, z) == (x & y) | (z & (x | y))
F4(x, y, z) == (x ^^ y) ^^ z

\* K1..K4 and the initial chaining values of sha1_init, low 16 bits.
K(stage) == (<<\h7999, \hEBA1, \hBCDC, \hC1D6>>[stage]) % Mod
H0 == [j \in 1..5 |-> (<<\h2301, \hAB89, \hDCFE, \h5476, \hE1F0>>[j]) % Mod]

\* The round function of rounds 20*(stage-1) .. 20*stage-1.
F(stage, x, y, z) ==
    CASE stage = 1 -> F1(x, y, z)
      [] stage = 2 -> F2(x, y, z)
      [] stage = 3 -> F3(x, y, z)
      [] stage = 4 -> F4(x, y, z)

=============================================================================
