----------------------------- MODULE Characters -----------------------------
(***************************************************************************)
(* Characters are their ASCII codes, classified as in kctype.c; a string   *)
(* is the sequence of its characters without the null that ends it.        *)
(***************************************************************************)
EXTENDS Integers

NUL == 0
BELL == 7
BACKSPACE == 8
NEWLINE == 10
RETURN == 13
SPACE == 32
PERCENT == 37
PLUS == 43
MINUS == 45
DOT == 46
SLASH == 47
ZERO == 48
COLON == 58
HASH == 35

letter ==
  [a |-> 97, b |-> 98, c |-> 99, d |-> 100, e |-> 101, g |-> 103, k |-> 107, l |-> 108,
   p |-> 112, s |-> 115, u |-> 117, x |-> 120, X |-> 88]

kisupper(c) == c \in 65..90
kislower(c) == c \in 97..122
kisalpha(c) == kisupper(c) \/ kislower(c)
kisdigit(c) == c \in 48..57
kisspace(c) == c = SPACE \/ c \in 9..13
ktoupper(c) == IF kislower(c) THEN c - 32 ELSE c
=============================================================================
