--------------------------------- MODULE Checksum --------------------------------
(***************************************************************************)
(* src/contrib/in_cksum.c: the checksum of the Internet protocols, on a        *)
(* little-endian machine, over data in pieces that need not begin at an even   *)
(* address or have an even length.                                          *)
(*                                                                          *)
(* A piece is [odd, bytes]: whether it begins at an odd address, and its bytes. *)
(***************************************************************************)
EXTENDS Integers, Sequences

Short(first, second) == first + 256 * second

\* sum is brought down to 16 bits, the carry added.
REDUCE(sum) ==
    LET folded == (sum % 65536) + (sum \div 65536) IN
    IF folded > 65535 THEN folded - 65535 ELSE folded

SumWords(bytes) ==
    LET words[i \in 0..Len(bytes) \div 2] ==
            IF i = 0 THEN 0 ELSE words[i - 1] + Short(bytes[2 * i - 1], bytes[2 * i])
    IN words[Len(bytes) \div 2]

\* The loop's variables: the sum, and what is left of the last piece: the first
\* byte of a word that goes on in the next one (mlen is -1), or nothing.
Start == [sum |-> 0, first |-> <<>>]

\* The first byte of a piece completes the word that the last one began.
Continued(acc, piece) ==
    IF acc.first = <<>> THEN <<acc.sum, piece>>
    ELSE <<acc.sum + Short(acc.first[1], piece.bytes[1]),
           [odd |-> ~piece.odd, bytes |-> Tail(piece.bytes)]>>

\* A piece at an odd address is summed from its second byte on, with the bytes of
\* every word exchanged.
Aligned(sum, bytes) ==
    LET total == REDUCE(REDUCE(sum) * 256 + SumWords(Tail(bytes))) * 256 IN
    IF Len(bytes) % 2 = 0
    THEN [sum |-> total + Short(bytes[1], bytes[Len(bytes)]), first |-> <<>>]
    ELSE [sum |-> total, first |-> <<bytes[1]>>]

Unaligned(sum, bytes) ==
    [sum |-> REDUCE(sum + SumWords(bytes)),
     first |-> IF Len(bytes) % 2 = 1 THEN <<bytes[Len(bytes)]>> ELSE <<>>]

AddPiece(acc, piece) ==
    IF piece.bytes = <<>> THEN acc
    ELSE LET next == Continued(acc, piece) IN
         IF next[2].odd /\ next[2].bytes # <<>> THEN Aligned(next[1], next[2].bytes)
                                                ELSE Unaligned(next[1], next[2].bytes)

in_cksum(vec) ==
    LET acc[i \in 0..Len(vec)] == IF i = 0 THEN Start ELSE AddPiece(acc[i - 1], vec[i])
        last == acc[Len(vec)]
    IN 65535 - REDUCE(last.sum + (IF last.first = <<>> THEN 0 ELSE last.first[1]))

Swapped(word) == Short(word \div 256, word % 256)

EndAroundCarry(n) == (n % 65536) + (n \div 65536)

in_cksum_shouldbe(sum, computed_sum) ==
    EndAroundCarry(EndAroundCarry(sum + Swapped(computed_sum)))

================================================================================
