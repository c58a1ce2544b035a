----------------------------- MODULE Sha1Stream -----------------------------
(***************************************************************************)
(* The streaming part of the SHA-1 engine of sha1_imp.c: the context       *)
(* sha1_context_t and the operations sha1_init, sha1_write, sha1_final and *)
(* sha1_hash.                                                              *)
(*                                                                         *)
(* Data abstraction.  The five chaining words h0..h4 are a deterministic   *)
(* function of the sequence of 64-byte blocks handed to sha1_transform     *)
(* since sha1_init, so the context keeps that sequence (field h); the      *)
(* compression function itself is modelled in Sha1Transform.  A byte is   *)
(* 0..255, or MsgByte(k), a symbolic byte that stands for the k-th byte   *)
(* of the caller's message (distinct from every other byte, so a lost,    *)
(* duplicated or reordered byte shows), or DigestByte(k), the k-th byte of *)
(* the digest that sha1_final serialises into hd->buf.                     *)
(***************************************************************************)
EXTENDS Integers, Sequences, SequencesExt

CONSTANTS
    MaxMsg,           \* bound on the length of one message
    Chunks,           \* lengths the caller passes to one sha1_write
    HashLens,         \* lengths the caller passes to sha1_hash
    ReuseWithoutInit  \* whether the caller writes/finalises after sha1_final
                      \* without calling sha1_init first

ASSUME /\ MaxMsg \in Nat
       /\ Chunks \subseteq Nat /\ HashLens \subseteq 0..MaxMsg
       /\ ReuseWithoutInit \in BOOLEAN

VARIABLES
    hd,      \* the sha1_context_t the caller owns
    msg,     \* ghost: the bytes of the caller's current message
    phase,   \* ghost: "absorbing" or "finalized" (the caller's view)
    digest,  \* ghost: the chaining value the last sha1_final serialised
    out      \* the last result of sha1_hash: [len, digest], or <<>>

vars == <<hd, msg, phase, digest, out>>

Idx == 0..63

MsgByte(k) == 255 + k
DigestByte(k) == -k
Byte == 0..255 \cup {MsgByte(k) : k \in 1..MaxMsg} \cup {DigestByte(k) : k \in 1..20}

MsgBytes(n) == [i \in 1..n |-> MsgByte(i)]

MinOf(a, b) == IF a <= b THEN a ELSE b

\* Big-endian encoding of n in k bytes.
RECURSIVE BigEndian(_, _)
BigEndian(n, k) == IF k = 0 THEN <<>> ELSE BigEndian(n \div 256, k - 1) \o <<n % 256>>

-----------------------------------------------------------------------------
(* The code.                                                               *)

\* sha1_init: fixed chaining constants, no blocks, no buffered bytes;
\* hd->buf is left as it was.
InitCtx(buf) == [h |-> <<>>, nblocks |-> 0, count |-> 0, buf |-> buf]

\* sha1_transform folds one 64-byte block into the chaining value.
Transform(ctx, block) == [ctx EXCEPT !.h = Append(@, block)]

BufBlock(ctx) == [j \in 1..64 |-> ctx.buf[j - 1]]

\* A slip in Flush: the block is compressed but count is not reset.
FlushNoReset(ctx) ==
    IF ctx.count = 64
    THEN [Transform(ctx, BufBlock(ctx)) EXCEPT !.nblocks = @ + 1]
    ELSE ctx

\* The head of sha1_write (also reached as sha1_write(hd, NULL, 0)):
\* a full buffer is compressed and emptied.
Flush(ctx) ==
    IF ctx.count = 64
    THEN [Transform(ctx, BufBlock(ctx)) EXCEPT !.count = 0, !.nblocks = @ + 1]
    ELSE ctx

\* A slip in the fill loop: the count < 64 bound is dropped.
FillLenUnbounded(ctx, data) == Len(data)

\* How many bytes the fill loop takes: while inlen && count < 64.
FillLen(ctx, data) == MinOf(Len(data), 64 - ctx.count)

\* A copy loop: the bytes of data go to buf[count..], count advances.
CopyIn(ctx, data) ==
    [ctx EXCEPT
       !.buf = [j \in Idx |-> IF ctx.count <= j /\ j < ctx.count + Len(data)
                              THEN data[j - ctx.count + 1] ELSE @[j]],
       !.count = @ + Len(data)]

\* sha1_write(hd, inbuf, inlen) with inbuf # NULL.
Write(ctx, data) ==
    LET c1   == Flush(ctx)
        k    == IF c1.count # 0 THEN FillLen(c1, data) ELSE 0
        c2   == IF c1.count # 0 THEN Flush(CopyIn(c1, SubSeq(data, 1, k))) ELSE c1
        rest == SubSeq(data, k + 1, Len(data))
        full == Len(rest) \div 64
        c3   == IF full = 0 THEN c2
                ELSE [c2 EXCEPT
                        !.h = @ \o [i \in 1..full |-> SubSeq(rest, 64 * i - 63, 64 * i)],
                        !.nblocks = @ + full,
                        !.count = 0]
    IN IF c1.count # 0 /\ rest = <<>>
       THEN c2
       ELSE CopyIn(c3, SubSeq(rest, 64 * full + 1, Len(rest)))

\* A slip in the length: the byte count instead of the bit count.
LengthFieldBytes(ctx) == BigEndian(ctx.nblocks * 64 + ctx.count, 8)

\* The 64-bit message length in bits, from nblocks and count: what the
\* msb/lsb shifts and carry compute.
LengthField(ctx) == BigEndian((ctx.nblocks * 64 + ctx.count) * 8, 8)

\* buf[count] = 0x80, then zeros up to (not including) upto.
PadTo(ctx, upto) ==
    [ctx EXCEPT
       !.buf = [j \in Idx |-> IF j = ctx.count THEN 128
                              ELSE IF ctx.count < j /\ j < upto THEN 0 ELSE @[j]],
       !.count = upto]

\* A slip in the padding boundary: 55 for 56.
PadBoundary55(ctx) ==
    IF ctx.count < 55
    THEN PadTo(ctx, 56)
    ELSE LET fl == Flush(PadTo(ctx, 64))
         IN [fl EXCEPT !.buf = [j \in Idx |-> IF j < 56 THEN 0 ELSE @[j]]]

\* Padding: in place if the length field still fits, else an extra block.
Pad(ctx) ==
    IF ctx.count < 56
    THEN PadTo(ctx, 56)
    ELSE LET fl == Flush(PadTo(ctx, 64))
         IN [fl EXCEPT !.buf = [j \in Idx |-> IF j < 56 THEN 0 ELSE @[j]]]

\* sha1_final: flush, length, padding, last transform, serialisation of
\* h0..h4 into buf[0..19].
Final(ctx) ==
    LET c1   == Flush(ctx)
        len  == LengthField(c1)
        c2   == Pad(c1)
        c3   == [c2 EXCEPT !.buf = [j \in Idx |-> IF j >= 56 THEN len[j - 55] ELSE @[j]]]
        c4   == Transform(c3, BufBlock(c3))
    IN [c4 EXCEPT !.buf = [j \in Idx |-> IF j < 20 THEN DigestByte(j + 1) ELSE @[j]]]

\* sha1_hash: a local context, init, one write, final.
Hash(data) == Final(Write(InitCtx([j \in Idx |-> 0]), data))

-----------------------------------------------------------------------------
(* The reference: FIPS 180-1 padding and blocking of a message m.          *)

ZeroCount(m) == (119 - (Len(m) % 64)) % 64
Padded(m) == m \o <<128>> \o [i \in 1..ZeroCount(m) |-> 0] \o BigEndian(8 * Len(m), 8)
BlocksOf(s) == [i \in 1..(Len(s) \div 64) |-> SubSeq(s, 64 * i - 63, 64 * i)]
Sha1Ref(m) == BlocksOf(Padded(m))

-----------------------------------------------------------------------------
(* The caller's steps.                                                     *)

Init ==
    /\ hd = InitCtx([j \in Idx |-> 0])
    /\ msg = <<>>
    /\ phase = "absorbing"
    /\ digest = <<>>
    /\ out = <<>>

Sha1Init ==
    /\ hd' = InitCtx(hd.buf)
    /\ msg' = <<>>
    /\ phase' = "absorbing"
    /\ digest' = <<>>
    /\ UNCHANGED out

Sha1Write(n) ==
    /\ phase = "absorbing" \/ ReuseWithoutInit
    /\ LET base == IF phase = "absorbing" THEN msg ELSE <<>>
           data == [i \in 1..n |-> MsgByte(Len(base) + i)]
       IN /\ Len(base) + n <= MaxMsg
          /\ hd' = Write(hd, data)
          /\ msg' = base \o data
    /\ phase' = "absorbing"
    /\ UNCHANGED <<digest, out>>

Sha1Final ==
    /\ phase = "absorbing" \/ ReuseWithoutInit
    /\ hd' = Final(hd)
    /\ digest' = hd'.h
    /\ phase' = "finalized"
    /\ UNCHANGED <<msg, out>>

Sha1Hash(n) ==
    /\ out' = [len |-> n, digest |-> Hash(MsgBytes(n)).h]
    /\ UNCHANGED <<hd, msg, phase, digest>>

Next ==
    \/ Sha1Init
    \/ \E n \in Chunks : Sha1Write(n)
    \/ Sha1Final
    \/ \E n \in HashLens : Sha1Hash(n)

Spec == Init /\ [][Next]_vars

\* The bytes of hd->buf at or beyond count are never read before they are
\* overwritten (sha1_write fills from count upwards, sha1_final pads from
\* count upwards), so states that differ only there behave alike.
View == <<[hd EXCEPT !.buf = [j \in 0..(MinOf(hd.count, 64) - 1) |-> hd.buf[j]]], msg, phase, digest, out>>

-----------------------------------------------------------------------------
(* Properties.                                                             *)

TypeOK ==
    /\ hd.count \in 0..64
    /\ hd.nblocks \in Nat
    /\ hd.buf \in [Idx -> Byte]
    /\ phase \in {"absorbing", "finalized"}

\* While a message is being absorbed by sha1_write, the blocks already
\* compressed followed by the buffered bytes are exactly the message written
\* so far, whatever the chunking; no complete block is left in the buffer
\* between calls, and nblocks counts the compressed blocks.
StreamConsistent ==
    phase = "absorbing" =>
        /\ FlattenSeq(hd.h) \o SubSeq(BufBlock(hd), 1, hd.count) = msg
        /\ hd.count < 64
        /\ hd.nblocks = Len(hd.h)

\* sha1_final hands the compression exactly the FIPS 180-1 padded blocks of
\* the message written since sha1_init, for every chunking and for every
\* length, on both sides of the 55/56-byte padding boundary.
DigestCorrect ==
    phase = "finalized" => digest = Sha1Ref(msg)

\* sha1_hash of n bytes compresses the padded blocks of those n bytes.
HashCorrect ==
    out # <<>> => out.digest = Sha1Ref(MsgBytes(out.len))

=============================================================================
