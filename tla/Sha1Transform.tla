---------------------------- MODULE Sha1Transform ----------------------------
(***************************************************************************)
(* sha1_transform as the code computes it: the block is loaded into a      *)
(* 16-word window x[] that the macro M(i) overwrites in place with the     *)
(* expanded schedule, and the 80 unrolled R(...) calls keep five fixed     *)
(* variables a..e, passing them in a rotated order instead of shifting    *)
(* them.  One step is one R(...) line; the last step adds a..e into       *)
(* hd->h0..h4.  Successive calls chain h, as sha1_write does.              *)
(***************************************************************************)
EXTENDS Sha1Word, Sequences

CONSTANTS Blocks, MaxCalls

VARIABLES
    data,   \* the 64 bytes sha1_transform is called with
    i,      \* the next R(...) line, 0..79; 80 = add back; 81 = returned
    regs,   \* a, b, c, d, e as regs[1..5]
    x,      \* the window x[0..15]
    h,      \* hd->h0..h4 as h[1..5]
    calls   \* number of sha1_transform calls so far

vars == <<data, i, regs, x, h, calls>>

\* The load loop: p2[3] = *data++ ... stores each group of four bytes
\* most significant first into x[w].
Load(d) ==
    [w \in 0..15 |-> ((d[4 * w] * 2^ByteBits + d[4 * w + 1]) * 2^ByteBits
                        + d[4 * w + 2]) * 2^ByteBits + d[4 * w + 3]]

\* The variable that the r-th R(...) line passes as its j-th argument:
\* R(a,b,c,d,e), R(e,a,b,c,d), R(d,e,a,b,c), ... repeating every 5 lines.
Role(r, j) == ((j - 1 + 4 * r) % 5) + 1

\* A slip in M(i): x[(i - 13) & 0x0f] for x[(i - 14) & 0x0f].
MsgWordOffByOne(win, r) ==
    IF r < 16 THEN <<win[r], win>>
    ELSE LET tm == ((win[r % 16] ^^ win[(r - 13) % 16]) ^^ win[(r - 8) % 16])
                    ^^ win[(r - 3) % 16]
         IN <<Rol(tm, 1), [win EXCEPT ![r % 16] = Rol(tm, 1)]>>

\* The message word of line r: x[r] for r < 16, else M(r), which also
\* stores its result back into the window.
MsgWord(win, r) ==
    IF r < 16 THEN <<win[r], win>>
    ELSE LET tm == ((win[r % 16] ^^ win[(r - 14) % 16]) ^^ win[(r - 8) % 16])
                    ^^ win[(r - 3) % 16]
         IN <<Rol(tm, 1), [win EXCEPT ![r % 16] = Rol(tm, 1)]>>

\* sha1_transform entry: chaining vars into a..e, block into x.
Enter(d) ==
    /\ data' = d
    /\ regs' = h
    /\ x' = Load(d)
    /\ i' = 0

Init ==
    /\ h = H0
    /\ calls = 1
    /\ data \in Blocks
    /\ regs = h
    /\ x = Load(data)
    /\ i = 0

\* R(a, b, c, d, e, f, k, m): e += rol(a, 5) + f(b, c, d) + k + m;
\* b = rol(b, 30); with the line's argument order and stage.
R ==
    /\ i < 80
    /\ LET s  == i \div 20 + 1
           mw == MsgWord(x, i)
           v  == [j \in 1..5 |-> regs[Role(i, j)]]
       IN /\ regs' = [regs EXCEPT
                        ![Role(i, 5)] = Add(@, Add(Add(Add(Rol(v[1], 5), F(s, v[2], v[3], v[4])),
                                                       K(s)), mw[1])),
                        ![Role(i, 2)] = Rol(@, Width - 2)]
          /\ x' = mw[2]
    /\ i' = i + 1
    /\ UNCHANGED <<data, h, calls>>

\* Update chaining vars.
UpdateChain ==
    /\ i = 80
    /\ h' = [j \in 1..5 |-> Add(h[j], regs[j])]
    /\ i' = 81
    /\ UNCHANGED <<data, regs, x, calls>>

\* The next block of the message.
Call ==
    /\ i = 81
    /\ calls < MaxCalls
    /\ \E d \in Blocks : Enter(d)
    /\ calls' = calls + 1
    /\ UNCHANGED h

Next == R \/ UpdateChain \/ Call

Spec == Init /\ [][Next]_vars

TypeOK ==
    /\ i \in 0..81
    /\ regs \in [1..5 -> Word]
    /\ x \in [0..15 -> Word]
    /\ h \in [1..5 -> Word]

\* The refinement mapping: FIPS register A..E is the variable the next
\* R(...) line passes first..fifth (after the last line, the order of
\* line 80, which is a..e again); t is the line number.
Fips == INSTANCE Sha1Fips WITH
    blk <- data, t <- i, H <- h,
    reg <- [j \in 1..5 |-> regs[Role(IF i = 81 THEN 80 ELSE i, j)]]

\* Every step of sha1_transform (each unrolled round with its in-place
\* schedule word, and the final addition into h0..h4) is a step of the
\* FIPS 180-1 compression, over chained calls.
RefinesFips == Fips!Spec

=============================================================================
