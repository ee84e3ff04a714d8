---------------------------------- MODULE G711 ----------------------------------
(***************************************************************************)
(* src/contrib/g711.c: A-law and mu-law codes of 16-bit samples.  A code is a *)
(* number from 0 to 255; the decoders of the program hand over a char, whose  *)
(* sign makes no difference to the eight bits that are looked at.           *)
(***************************************************************************)
EXTENDS Integers, Sequences, Bitwise

SIGN_BIT == 128
BIAS == 132
CLIP == 8159

seg_aend == [i \in 0..7 |-> 32 * 2^i - 1]
seg_uend == [i \in 0..7 |-> 64 * 2^i - 1]

\* The first segment that ends at val or behind it, or size.
search(val, table, size) ==
    IF \A i \in 0..size - 1 : val > table[i] THEN size
    ELSE CHOOSE i \in 0..size - 1 : val <= table[i] /\ \A j \in 0..i - 1 : val > table[j]

\* The magnitude of a negative number is one less, so that 0 is positive.
linear2alaw(sample) ==
    LET scaled == sample \div 8
        mask == IF scaled >= 0 THEN 213 ELSE 85
        val == IF scaled >= 0 THEN scaled ELSE -scaled - 1
        seg == search(val, seg_aend, 8)
        quant == (IF seg < 2 THEN val \div 2 ELSE val \div 2^seg) % 16
    IN (IF seg >= 8 THEN 127 ELSE seg * 16 + quant) ^^ mask

alaw2linear(code) ==
    LET a_val == code ^^ 85
        quant == (a_val % 16) * 16
        seg == (a_val \div 16) % 8
        t == IF seg = 0 THEN quant + 8 ELSE (quant + 264) * 2^(seg - 1)
    IN IF a_val >= SIGN_BIT THEN t ELSE -t

linear2ulaw(sample) ==
    LET scaled == sample \div 4
        mask == IF scaled < 0 THEN 127 ELSE 255
        magnitude == IF scaled < 0 THEN -scaled ELSE scaled
        val == (IF magnitude > CLIP THEN CLIP ELSE magnitude) + BIAS \div 4
        seg == search(val, seg_uend, 8)
    IN (IF seg >= 8 THEN 127 ELSE seg * 16 + ((val \div 2^(seg + 1)) % 16)) ^^ mask

ulaw2linear(code) ==
    LET u_val == 255 - code
        t == ((u_val % 16) * 8 + BIAS) * 2^((u_val \div 16) % 8)
    IN IF u_val >= SIGN_BIT THEN BIAS - t ELSE t - BIAS

\* The tables between the laws, indexed from 0.
u2a == [i \in 0..127 |-> <<
      1,   1,   2,   2,   3,   3,   4,   4,   5,   5,   6,   6,   7,   7,   8,   8,
      9,  10,  11,  12,  13,  14,  15,  16,  17,  18,  19,  20,  21,  22,  23,  24,
     25,  27,  29,  31,  33,  34,  35,  36,  37,  38,  39,  40,  41,  42,  43,  44,
     46,  48,  49,  50,  51,  52,  53,  54,  55,  56,  57,  58,  59,  60,  61,  62,
     64,  65,  66,  67,  68,  69,  70,  71,  72,  73,  74,  75,  76,  77,  78,  79,
     80,  82,  83,  84,  85,  86,  87,  88,  89,  90,  91,  92,  93,  94,  95,  96,
     97,  98,  99, 100, 101, 102, 103, 104, 105, 106, 107, 108, 109, 110, 111, 112,
    113, 114, 115, 116, 117, 118, 119, 120, 121, 122, 123, 124, 125, 126, 127, 128>>[i + 1]]

a2u == [i \in 0..127 |-> <<
      1,   3,   5,   7,   9,  11,  13,  15,  16,  17,  18,  19,  20,  21,  22,  23,
     24,  25,  26,  27,  28,  29,  30,  31,  32,  32,  33,  33,  34,  34,  35,  35,
     36,  37,  38,  39,  40,  41,  42,  43,  44,  45,  46,  47,  48,  48,  49,  49,
     50,  51,  52,  53,  54,  55,  56,  57,  58,  59,  60,  61,  62,  63,  64,  64,
     65,  66,  67,  68,  69,  70,  71,  72,  73,  74,  75,  76,  77,  78,  79,  80,
     80,  81,  82,  83,  84,  85,  86,  87,  88,  89,  90,  91,  92,  93,  94,  95,
     96,  97,  98,  99, 100, 101, 102, 103, 104, 105, 106, 107, 108, 109, 110, 111,
    112, 113, 114, 115, 116, 117, 118, 119, 120, 121, 122, 123, 124, 125, 126, 127>>[i + 1]]

\* Mutant of alaw2ulaw: the table as it was before line 91.
alaw2ulawUncorrected(aval) ==
    LET table == [a2u EXCEPT ![79] = 79]
    IN IF aval >= SIGN_BIT THEN 255 ^^ table[aval ^^ 213] ELSE 127 ^^ table[aval ^^ 85]

alaw2ulaw(aval) ==
    IF aval >= SIGN_BIT THEN 255 ^^ a2u[aval ^^ 213] ELSE 127 ^^ a2u[aval ^^ 85]

ulaw2alaw(uval) ==
    IF uval >= SIGN_BIT THEN 213 ^^ (u2a[255 ^^ uval] - 1) ELSE 85 ^^ (u2a[127 ^^ uval] - 1)

================================================================================
