------------------------------ MODULE Strings ------------------------------
(***************************************************************************)
(* Blocks of memory and strings: sys/lib/kstring, kstrlen and kstrnlen.    *)
(* A memory is a function from addresses to bytes; a string in it goes on  *)
(* to the first null.  An operator that writes gives the memory after it.  *)
(***************************************************************************)
EXTENDS Characters, Sequences, SequencesExt, FiniteSetsExt

CONSTANT
  WORD               \* bytes of a word: 8 in the build

ASSUME StringAssumption == WORD \in Nat \ {0}

KNULL == 0

Fill(m, from, count, c) ==
  [a \in DOMAIN m |-> IF a \in from..(from + count - 1) THEN c % 256 ELSE m[a]]

(* Bytes up to the first word, words, and the bytes that are left.         *)
kmemset(m, s, c, n) ==
  LET to_align == (-s) % WORD
      head == Min({n, to_align})
      words == (n - head) \div WORD
      rest == s + head + words * WORD
  IN  IF s = KNULL THEN m
      ELSE Fill(Fill(Fill(m, s, head, c), s + head, words * WORD, c),
                rest, s + n - rest, c)

(* Byte by byte: a source that overlaps changes on the way.                *)
Copied(m, dest, src, offsets) ==
  FoldLeft(LAMBDA mm, i : [mm EXCEPT ![dest + i] = mm[src + i]], m, offsets)

Upwards(n) == [i \in 1..n |-> i - 1]

Downwards(n) == [i \in 1..n |-> n - i]

kmempcpy(m, dest, src, n) == Copied(m, dest, src, Upwards(n))

(* Faulty variant: always upwards.                                         *)
kmemcpy_upwards(m, dest, src, n) == kmempcpy(m, dest, src, n)

kmemcpy(m, dest, src, n) ==
  IF KNULL \in {dest, src} THEN m
  ELSE Copied(m, dest, src,
              IF src < dest /\ src + n > dest THEN Downwards(n) ELSE Upwards(n))

-----------------------------------------------------------------------------
(* Strings.  How far the string at str goes: its bytes before the null.    *)

Ends(m, str) == {n \in 0..Len(m) : str + n \in DOMAIN m /\ m[str + n] = NUL}

kstrlen(m, str) == IF str = KNULL THEN 0 ELSE Min(Ends(m, str))

kstrnlen(m, str, maxlen) == Min({maxlen} \cup Ends(m, str))

(* The null that ends the string counts as one of its characters.          *)
Places(m, str, c) == {a \in str..(str + kstrlen(m, str)) : m[a] = c}

kstrchr(m, str, c) == IF Places(m, str, c) = {} THEN KNULL ELSE Min(Places(m, str, c))

kstrrchr(m, str, c) ==
  IF str = KNULL \/ Places(m, str, c) = {} THEN KNULL ELSE Max(Places(m, str, c))

kmemcmp(m, s1, s2, n) ==
  LET differ == {i \in 0..(n - 1) : m[s1 + i] # m[s2 + i]}
  IN  IF differ = {} THEN 0 ELSE m[s1 + Min(differ)] - m[s2 + Min(differ)]

(* Nothing behind the first null is compared.                              *)
kstrncmp(m, s1, s2, n) == kmemcmp(m, s1, s2, Min({n, kstrlen(m, s1) + 1}))

kstrcmp(m, s1, s2) == kmemcmp(m, s1, s2, kstrlen(m, s1) + 1)

kstrcpy(m, dest, src) == kmemcpy(m, dest, src, kstrlen(m, src) + 1)

(* No null is written if the string has n characters or more.              *)
kstrncpy(m, dest, src, n) ==
  LET copied == kstrnlen(m, src, n)
  IN  Fill(kmempcpy(m, dest, src, copied), dest + copied, n - copied, NUL)

kstrcat(m, dest, src) ==
  LET end == dest + kstrlen(m, dest)
  IN  IF KNULL \in {dest, src} THEN m
      ELSE Fill(kmempcpy(m, end, src, kstrlen(m, src)), end + kstrlen(m, src), 1, NUL)

-----------------------------------------------------------------------------
(* kstrtok.  A tokenizer is the memory, strtok_save and the last token.    *)

(* The first place from save on of a character that is in set, or not.     *)
Scan(m, save, set, in) ==
  Min({a \in save..(save + kstrlen(m, save)) : m[a] = NUL \/ (m[a] \in set) = in})

NoToken(t) == [t EXCEPT !.save = KNULL, !.token = KNULL]

(* What ends the token becomes a null.                                     *)
kstrtok(t, str, delim) ==
  LET save == IF str = KNULL THEN t.save ELSE str
      start == Scan(t.m, save, delim, FALSE)
      end == Scan(t.m, start, delim, TRUE)
  IN  IF save = KNULL \/ t.m[start] = NUL THEN NoToken(t)
      ELSE IF t.m[end] = NUL THEN [t EXCEPT !.save = KNULL, !.token = start]
      ELSE [m |-> [t.m EXCEPT ![end] = NUL], save |-> end + 1, token |-> start]

(* The string at an address.                                               *)
StringAt(m, str) == [i \in 1..kstrlen(m, str) |-> m[str + i - 1]]

(* The loop of ext2.c and vfs.c: the next token is asked for before this   *)
(* one is used.                                                            *)
TokensByStrtok(s, delim) ==
  LET rounds == [i \in 1..Len(s) |-> i]
      first == kstrtok([m |-> Append(s, NUL), save |-> KNULL, token |-> KNULL], 1, delim)
      step(st, i) ==
        IF st.t.token = KNULL THEN st
        ELSE LET next == kstrtok(st.t, KNULL, delim)
             IN  [t |-> next, found |-> Append(st.found, StringAt(next.m, st.t.token))]
  IN  FoldLeft(step, [t |-> first, found |-> <<>>], rounds).found

(* What it finds: the runs of characters between slashes.                  *)
Cut(t) == IF t.run = <<>> THEN t.found ELSE Append(t.found, t.run)

Tokens(s) ==
  Cut(FoldLeft(LAMBDA t, c : IF c = SLASH THEN [found |-> Cut(t), run |-> <<>>]
                             ELSE [t EXCEPT !.run = Append(@, c)],
               [found |-> <<>>, run |-> <<>>], s))

-----------------------------------------------------------------------------
(* Properties.                                                             *)

(* Bounds of the memories and strings compared.                            *)
Cells == 9
Alphabet == {DOT, SLASH}
ShortStrings == UNION {[1..n -> Alphabet] : n \in 0..3}

(* Two strings in one memory, each with its null, the second from at on,   *)
(* and a byte that is neither at the end.                                  *)
Together(s, u) == s \o <<NUL>> \o u \o <<NUL>> \o <<BELL, BELL, BELL, BELL>>

(* A copy gives the bytes there were before it, wherever the two areas     *)
(* overlap, and kmemset reaches the area asked for and nothing else,       *)
(* whatever its alignment and length.                                      *)
BlocksAgree ==
  LET m == [a \in 1..Cells |-> a]
  IN  \A dest \in 1..Cells, n \in 0..Cells :
        dest + n - 1 <= Cells =>
          /\ kmemset(m, dest, 256 + BELL, n)
               = [a \in 1..Cells |-> IF a \in dest..(dest + n - 1) THEN BELL ELSE a]
          /\ \A src \in 1..(Cells - n + 1) :
               kmemcpy(m, dest, src, n)
                 = [a \in 1..Cells |-> IF a \in dest..(dest + n - 1) THEN src + a - dest ELSE a]

(* Two strings compare equal when they are the same, otherwise as their    *)
(* first difference; a search finds a character of the string and the      *)
(* first or last one; a copy, one cut by n and a concatenation leave the   *)
(* string they should, and nothing behind its null changes.                *)
PairAgrees(s, u) ==
  LET m == Together(s, u)
      at == Len(s) + 2
      common == Max({n \in 0..Min({Len(s), Len(u)}) : SubSeq(s, 1, n) = SubSeq(u, 1, n)})
      differs == m[1 + common] - m[at + common]
      found == {i \in DOMAIN s : s[i] = DOT}
  IN  /\ kstrcmp(m, 1, at) = differs /\ (differs = 0 <=> s = u)
      /\ \A n \in 0..4 : kstrncmp(m, 1, at, n) = IF common < n THEN differs ELSE 0
      /\ kstrchr(m, 1, DOT) = IF found = {} THEN KNULL ELSE Min(found)
      /\ kstrrchr(m, 1, DOT) = IF found = {} THEN KNULL ELSE Max(found)
      /\ kstrchr(m, 1, NUL) = Len(s) + 1
      /\ StringAt(kstrcat(m, at, 1), at) = u \o s
      /\ Len(s) <= Len(u) =>
           kstrcpy(m, at, 1) = [a \in DOMAIN m |->
             IF a \in at..(at + Len(s)) THEN m[a - at + 1] ELSE m[a]]
      /\ \A n \in 0..Len(u) :
           SubSeq(kstrncpy(m, at, 1, n), at, at + n - 1)
             = [i \in 1..n |-> IF i <= Len(s) THEN s[i] ELSE NUL]

(* The tokens of a path are its longest runs without a slash, in order,    *)
(* although each call leaves nulls in the path the next one goes on with.  *)
TokensAgree(s) == TokensByStrtok(s, {SLASH}) = Tokens(s)

(* What the file system asks of the library: memory, strings and tokens.   *)
StringCallsAgree ==
  /\ BlocksAgree
  /\ \A s, u \in ShortStrings : PairAgrees(s, u) /\ TokensAgree(s \o u)
=============================================================================
