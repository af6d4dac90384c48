------------------------------ MODULE Firmware ------------------------------
(***************************************************************************)
(* The program of the 8052 of a board (Infra/firmware.c, P8052AH_9028):    *)
(* the parts the diag bus protocol and the experiments of this project     *)
(* execute.  The bytes outside them are no opcodes (-1), so that a run     *)
(* that leaves them stops with an error.                                   *)
(***************************************************************************)
EXTENDS Integers, Sequences

\* Reset vector, the serial interrupt, and the loops and calls of experiments: 0x000..0x05f, firmware.c 4356-4361
Vectors == <<
    194, 187, 194, 136, 117, 208,  16, 117, 129,   6, 117, 137,  17, 117, 144, 255,
    117, 160, 255, 117,   4,   5, 209,  38,  33, 120,   0,   0,   0,   0,   0,   0,
      0,   0,   0, 193,  94, 146, 224, 245,   5, 136,   6, 161,  28, 134,   5,   8,
    136,   6, 161,  28, 213,   5,   2, 161,  28, 168,   6, 161,  28,  32, 185,  17,
    161,  28,  32, 184,  12, 161,  28,  48, 185,   7, 161,  28,  48, 184,   2, 161,
     28, 192,  16, 146, 224,  84,   3,  36,  24, 249, 135,  16, 161,  28,  32, 185 >>

\* UNTIL and RETURN: 0x070..0x09f, firmware.c 4363-4365
Calls == <<
     48, 184,   3,   8, 161,  28, 134,  16, 161,  28,  32, 185,  17, 161,  28,  32,
    184,  12, 161,  28,  48, 185,   7, 161,  28,  48, 184,   2, 161,  28, 208,  16,
    161,  28, 134,  17,   8, 231, 134,  17,   8, 135,  21,  80,   1, 205, 181,  21 >>

\* the ends of an experiment, the idle loop, LOOP: 0x160..0x19f, firmware.c 4378-4381
Idle == <<
     28, 231, 112,   2,  23,  25,  23, 134,  16, 161,  28, 117,   4,   3,  33, 125,
    117,   4,   4,  33, 120, 117,   4,   1, 117, 129,   6, 194, 138, 229,   4, 180,
      6, 251, 161,  28, 230,   8,  96,  19,  32, 138,   7, 210, 138, 117,   4,   2,
      1, 118, 229,   4, 180,   2,   2,   1, 118, 194, 138,   8, 161,  28, 230,   8 >>

\* the interpreter of experiments and its jump table: 0x510..0x60f, firmware.c 4437-4452
Interpreter == <<
    242,  32, 179, 253, 161,  28,   2,  15, 102,   2,  16,   0, 230,   8, 162, 224,
    194, 224, 144,   5,  38, 115,   1,  45,   1,  37,   1,  37,   1,  37,   1,  37,
      1,  37,   1,  37,   1,  37,   1,  37,   1,  37,   1,  37,   1,  52,   1,  81,
      1,  81,   1,  61,   1,  61,   1,  66,   1,  66,   1,  71,   1,  71,   1,  76,
      1,  76,   1, 142,   1, 122,   1, 127,   1, 132,   1, 137,   1, 118,   1,  94,
      1, 100,   1, 106,   1, 112,   1, 146,   1, 166,   1, 176,   1, 185,   1, 224,
      1, 239,   1, 194,   1, 209,   1, 253,  33,  24,  33,  52,  33,  58,  33,  76,
     33,  84,  33, 117,  33, 132,  33, 107,  33, 158,  33, 182,  33, 186,  33, 190,
     33, 194,  33, 198,  33, 202,  33, 206,  33, 211,  33, 216,  33, 219,  33, 222,
     33, 225,  33, 228,  33, 234,  33, 240,  65,   2,  65,  74,  65,   8,  65,  91,
     65,  14,  65, 108,  33, 246,  65, 121,  65,  22,  65, 146,  65,  35,  65, 179,
     65,  48,  65, 205,  65,  61,  65, 231,  97,   1,  97,  25,  97, 100,  97,  53,
     97,  96,  97,  49,  97, 142,  97, 178,  97, 219, 129,   6, 129,  26,  97, 244,
    161,  22, 161,   6, 129,  77, 129,  88, 129,  99, 129,  64, 129,  72, 129,  69,
    129, 125, 129, 142, 129, 159, 129, 183, 129, 179, 129, 223, 161,  10, 161,  14,
    161,  25,  33, 112,  33, 112,  33, 112,  33, 112,  33, 112,  33, 112,  33, 112 >>

\* serial input and output, and the interrupt handler: 0x620..0x74f, firmware.c 4454-4472
Serial == <<
     33, 112,  33, 112,  33, 112, 117, 152, 176, 210, 180,  32, 187,  14, 116,   1,
    242,  32, 179, 253, 229, 144, 244, 196,  84,  15, 245,   3, 116,   2, 242, 117,
    184,   0, 117, 168, 144,  34,  48, 152, 253, 229, 153,  42, 250, 229, 153, 194,
    152,  34, 194, 180, 245, 153,  48, 153, 253, 194, 153, 210, 180,  34,  32, 152,
      3, 194, 153,  50, 192, 224, 146, 213, 194, 212, 229, 153, 194, 152, 194, 157,
    248,  84,  31, 181,   3,   2, 128,  51, 180,   5,   2, 128,  46,  48, 227,  32,
     32, 226,  29,  32, 225,  14, 229,   3,  32, 227,  32, 200,  48, 224,  17, 184,
      3,  14, 128,  24, 229,   3,  32, 227,   7, 200,  32, 224,  15, 184,   3,  12,
    210, 157, 194, 152, 208, 224, 162, 213, 210, 212,  50, 232,  84, 224, 180,  96,
      4, 194, 136, 193, 160,  32, 136, 232, 180,   0,  17, 229,   4, 162, 178, 179,
    146, 231, 162, 142, 146, 230, 209,  82, 194, 142, 193, 160, 180, 160,  47, 229,
      4, 180,   6,   2, 193, 250, 122,   0, 209,  70, 249, 120,  16, 209,  70, 246,
      8, 217, 250,  48, 152, 253, 229, 153, 194, 152, 181,   2,  13, 229,  17,  19,
    146, 184,  19, 146, 185, 117,   4,   6, 193, 160, 210, 142, 193, 160, 180,  32,
     27, 209,  70, 248, 209,  70, 249, 229, 184, 250, 209,  82, 233,  96,   8, 230,
    209,  82,  42, 250,   8, 217, 248, 234, 209,  82, 193, 160, 180, 192,  10, 229,
      4, 180,   3,  16, 117,   4,   6, 193, 160, 180, 224,  10, 229,   4, 180,   2,
      3, 117,   4,   6, 193, 160, 180,  64,   4, 210, 136, 193, 160, 194, 175, 241,
     69, 210, 187,   1,   4,  50,  97, 226, 104, 228, 102, 231,  31,  31, 252,  65 >>

Segments == << << 0, Vectors >>, << 112, Calls >>, << 352, Idle >>,
               << 1296, Interpreter >>, << 1568, Serial >> >>

P8052AH_9028 ==
  [a \in 0..1871 |->
     LET In(i) == a - Segments[i][1] \in 0..(Len(Segments[i][2]) - 1)
     IN  IF \E i \in 1..5 : In(i)
         THEN LET i == CHOOSE i \in 1..5 : In(i)
              IN  Segments[i][2][a - Segments[i][1] + 1]
         ELSE -1]
=============================================================================
