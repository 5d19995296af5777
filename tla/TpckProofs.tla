------------------------------ MODULE TpckProofs ------------------------------
(***************************************************************************)
(* For every alphabet, 256 bytes or any other number, and packets of any   *)
(* length: a frame that arrives as it was sent is delivered, one with a    *)
(* misread byte is not, and the parser is in step again after it.          *)
(*                                                                         *)
(* What stuffing and the checksum compute is defined by recursion over the *)
(* packet.  Induction is by the least counterexample: the set of numbers   *)
(* for which a statement fails, if there are any, has a least element.     *)
(***************************************************************************)
EXTENDS Tpck, FiniteSetTheorems, SequenceTheorems, WellFoundedInduction, TLAPS

-----------------------------------------------------------------------------
(* Induction *)

LEMMA LeastElement ==
    ASSUME NEW S, S \subseteq Nat, S # {}
    PROVE  \E n \in S : \A m \in S : n <= m
<1> DEFINE R == {pair \in Nat \X Nat : pair[1] < pair[2]}
<1>1. IsWellFoundedOn(R, Nat)
    BY NatLessThanWellFounded DEF OpToRel
<1> HIDE DEF R
<1>2. PICK n \in S : \A m \in S : <<m, n>> \notin R
    BY <1>1, WFMin
<1>3. \A m \in S : m < n => <<m, n>> \in R
    BY DEF R
<1>4. \A m \in S : m \in Nat /\ n \in Nat /\ ~(m < n)
    BY <1>2, <1>3
<1>5. \A m \in S : n <= m
    BY <1>4
<1> QED  BY <1>5

LEMMA Induction ==
    ASSUME NEW S, 0 \in S, \A n \in Nat : n \in S => n + 1 \in S
    PROVE  Nat \subseteq S
<1> SUFFICES ASSUME Nat \ S # {} PROVE FALSE
    OBVIOUS
<1>1. PICK n \in Nat \ S : \A m \in Nat \ S : n <= m
    BY LeastElement
<1>2. n - 1 \in Nat /\ n - 1 \notin Nat \ S
    BY <1>1
<1>3. (n - 1) + 1 \in S
    BY <1>2
<1> QED  BY <1>1, <1>3

-----------------------------------------------------------------------------
(* FlattenSeq: what it recurses by exists, and is determined step by step *)

Flattens(f, seqs, n) ==
    f = [i \in 1 .. n |-> IF i = 1 THEN seqs[i] ELSE f[i - 1] \o seqs[i]]

LEMMA FlattensExists ==
    ASSUME NEW seqs
    PROVE  \A n \in Nat : \E f : Flattens(f, seqs, n)
<1> DEFINE S == {n \in Nat : \E f : Flattens(f, seqs, n)}
<1>1. 0 \in S
    <2>1. Flattens([i \in 1 .. 0 |-> seqs], seqs, 0)
        BY DEF Flattens
    <2> QED  BY <2>1
<1>2. ASSUME NEW n \in Nat, n \in S
      PROVE  n + 1 \in S
    <2>1. PICK f : Flattens(f, seqs, n)
        BY <1>2
    <2> DEFINE last == IF n + 1 = 1 THEN seqs[n + 1] ELSE f[n] \o seqs[n + 1]
               g == [i \in 1 .. n + 1 |-> IF i = n + 1 THEN last ELSE f[i]]
    <2> HIDE DEF last
    <2>2. \A i \in 1 .. n : f[i] = IF i = 1 THEN seqs[i] ELSE f[i - 1] \o seqs[i]
        BY <2>1 DEF Flattens
    <2>3. \A i \in 1 .. n : g[i] = IF i = 1 THEN seqs[i] ELSE g[i - 1] \o seqs[i]
        <3> TAKE i \in 1 .. n
        <3>1. g[i] = f[i] /\ (i # 1 => g[i - 1] = f[i - 1])
            OBVIOUS
        <3> QED  BY <2>2, <3>1
    <2>4. g[n + 1] = IF n + 1 = 1 THEN seqs[n + 1] ELSE g[n] \o seqs[n + 1]
        <3>1. g[n + 1] = last /\ (n + 1 # 1 => g[n] = f[n])
            OBVIOUS
        <3> QED  BY <3>1 DEF last
    <2>5. \A i \in 1 .. n + 1 : g[i] = IF i = 1 THEN seqs[i] ELSE g[i - 1] \o seqs[i]
        <3> TAKE i \in 1 .. n + 1
        <3>1. CASE i \in 1 .. n
            BY <2>3, <3>1
        <3>2. CASE i = n + 1
            <4>1. i - 1 = n
                BY <3>2
            <4> HIDE DEF g
            <4> QED  BY <2>4, <3>2, <4>1
        <3> QED  BY <3>1, <3>2
    <2>6. g = [i \in 1 .. n + 1 |-> g[i]]
        OBVIOUS
    <2> HIDE DEF g
    <2>7. Flattens(g, seqs, n + 1)
        BY <2>5, <2>6 DEF Flattens
    <2> QED  BY <2>7
<1> HIDE DEF S
<1>3. Nat \subseteq S
    BY <1>1, <1>2, Induction
<1> QED  BY <1>3 DEF S

LEMMA FlattenUnfolds ==
    ASSUME NEW seqs, Len(seqs) \in Nat \ {0}
    PROVE  \E f : /\ \A i \in 1 .. Len(seqs) :
                        f[i] = IF i = 1 THEN seqs[i] ELSE f[i - 1] \o seqs[i]
                  /\ FlattenSeq(seqs) = f[Len(seqs)]
<1> DEFINE f == CHOOSE g : Flattens(g, seqs, Len(seqs))
<1>1. Flattens(f, seqs, Len(seqs))
    BY FlattensExists
<1>2. FlattenSeq(seqs) = f[Len(seqs)]
    BY DEF FlattenSeq, Flattens
<1> HIDE DEF f
<1>3. \A i \in 1 .. Len(seqs) : f[i] = IF i = 1 THEN seqs[i] ELSE f[i - 1] \o seqs[i]
    BY <1>1 DEF Flattens
<1> QED  BY <1>2, <1>3

LEMMA FlattenAppend ==
    ASSUME NEW T, NEW seqs \in Seq(Seq(T)), NEW seq \in Seq(T)
    PROVE  /\ FlattenSeq(seqs) \in Seq(T)
           /\ FlattenSeq(Append(seqs, seq)) = FlattenSeq(seqs) \o seq
<1> DEFINE n == Len(seqs)
           more == Append(seqs, seq)
<1>1. n \in Nat /\ Len(more) = n + 1 /\ more[n + 1] = seq
      /\ \A i \in 1 .. n : more[i] = seqs[i] /\ seqs[i] \in Seq(T)
    BY AppendProperties, ElementOfSeq, LenProperties
<1> HIDE DEF more
<1>2. PICK h : /\ \A i \in 1 .. n + 1 : h[i] = IF i = 1 THEN more[i] ELSE h[i - 1] \o more[i]
               /\ FlattenSeq(more) = h[n + 1]
    BY <1>1, FlattenUnfolds
<1>3. CASE n = 0
    <2>1. seqs = <<>> /\ FlattenSeq(seqs) = <<>>
        BY <1>3, EmptySeq DEF FlattenSeq
    <2>2. FlattenSeq(more) = seq
        BY <1>1, <1>2, <1>3
    <2> QED  BY <2>1, <2>2, ConcatEmptySeq, EmptySeq DEF more
<1>4. CASE n # 0
    <2>1. PICK f : /\ \A i \in 1 .. n : f[i] = IF i = 1 THEN seqs[i] ELSE f[i - 1] \o seqs[i]
                   /\ FlattenSeq(seqs) = f[n]
        BY <1>1, <1>4, FlattenUnfolds
    <2> DEFINE S == {i \in Nat : i \in 1 .. n => f[i] \in Seq(T) /\ h[i] = f[i]}
    <2>2. 0 \in S
        OBVIOUS
    <2>3. ASSUME NEW i \in Nat, i \in S
          PROVE  i + 1 \in S
        <3> SUFFICES ASSUME i + 1 \in 1 .. n
                     PROVE  f[i + 1] \in Seq(T) /\ h[i + 1] = f[i + 1]
            OBVIOUS
        <3>1. CASE i = 0
            <4>1. f[1] = seqs[1] /\ h[1] = more[1]
                BY <1>1, <1>2, <1>4, <2>1
            <4> QED  BY <1>1, <1>4, <3>1, <4>1
        <3>2. CASE i # 0
            <4>1. f[i] \in Seq(T) /\ h[i] = f[i]
                BY <2>3, <3>2
            <4>2. f[i + 1] = f[i] \o seqs[i + 1] /\ h[i + 1] = h[i] \o more[i + 1]
                <5>1. i + 1 \in 1 .. n /\ i + 1 \in 1 .. n + 1 /\ i + 1 # 1 /\ (i + 1) - 1 = i
                    BY <1>1, <3>2
                <5> QED  BY <1>2, <2>1, <5>1
            <4>3. seqs[i + 1] \in Seq(T) /\ more[i + 1] = seqs[i + 1]
                BY <1>1
            <4> QED  BY <4>1, <4>2, <4>3, ConcatProperties
        <3> QED  BY <3>1, <3>2
    <2> HIDE DEF S
    <2>4. n \in S
        BY <1>1, <2>2, <2>3, Induction
    <2>5. f[n] \in Seq(T) /\ h[n] = f[n]
        BY <1>1, <1>4, <2>4 DEF S
    <2>6. h[n + 1] = h[n] \o more[n + 1]
        <3>1. n + 1 \in 1 .. n + 1 /\ n + 1 # 1 /\ (n + 1) - 1 = n
            BY <1>1, <1>4
        <3> HIDE DEF n
        <3> QED  BY <1>2, <3>1
    <2> QED  BY <1>1, <1>2, <2>1, <2>5, <2>6 DEF more
<1> QED  BY <1>3, <1>4

-----------------------------------------------------------------------------
(* Stuffing *)

Pieces(values) == [i \in DOMAIN values |-> append_stuffed(values[i])]

LEMMA ByteConstants ==
    /\ Base \in Nat /\ Bytes \subseteq Nat /\ Stuffed \subseteq Bytes
    /\ SOF \in Bytes /\ EOF \in Bytes /\ ESC \in Bytes
    /\ SOF # EOF /\ SOF # ESC /\ EOF # ESC
BY ByteAssumption DEF Bytes, Stuffed

LEMMA PieceOfByte ==
    ASSUME NEW byte \in Bytes
    PROVE  append_stuffed(byte) \in Seq(Bytes)
BY ByteConstants DEF append_stuffed

\* Stuffing goes byte by byte, to the end of a sequence.
LEMMA StuffAppend ==
    ASSUME NEW values \in Seq(Bytes), NEW byte \in Bytes
    PROVE  /\ StuffAll(values) \in Seq(Bytes)
           /\ StuffAll(Append(values, byte)) = StuffAll(values) \o append_stuffed(byte)
<1>1. /\ Len(values) \in Nat /\ DOMAIN values = 1 .. Len(values)
      /\ \A i \in 1 .. Len(values) : values[i] \in Bytes
    BY LenProperties, ElementOfSeq
<1>2. /\ Append(values, byte) \in Seq(Bytes)
      /\ DOMAIN Append(values, byte) = 1 .. Len(values) + 1
      /\ \A i \in 1 .. Len(values) : Append(values, byte)[i] = values[i]
      /\ Append(values, byte)[Len(values) + 1] = byte
    BY AppendProperties, LenProperties
<1>3. Pieces(values) = [i \in 1 .. Len(values) |-> append_stuffed(values[i])]
    BY <1>1 DEF Pieces
<1>4. \A i \in 1 .. Len(values) : append_stuffed(values[i]) \in Seq(Bytes)
    BY <1>1, PieceOfByte
<1>5. Pieces(values) \in Seq(Seq(Bytes)) /\ Len(Pieces(values)) = Len(values)
    BY <1>1, <1>3, <1>4
<1>6. append_stuffed(byte) \in Seq(Bytes)
    BY PieceOfByte
<1>7. Pieces(Append(values, byte)) = Append(Pieces(values), append_stuffed(byte))
    <2> DEFINE whole == Pieces(Append(values, byte))
               parts == Append(Pieces(values), append_stuffed(byte))
    <2>1. whole = [i \in 1 .. Len(values) + 1 |-> append_stuffed(Append(values, byte)[i])]
        BY <1>2 DEF Pieces
    <2>2. /\ parts \in Seq(Seq(Bytes)) /\ Len(parts) = Len(values) + 1
          /\ \A i \in 1 .. Len(values) : parts[i] = append_stuffed(values[i])
          /\ parts[Len(values) + 1] = append_stuffed(byte)
        BY <1>3, <1>5, <1>6, AppendProperties
    <2>3. \A i \in 1 .. Len(values) + 1 : append_stuffed(Append(values, byte)[i]) = parts[i]
        BY <1>1, <1>2, <2>2
    <2>4. parts = [i \in 1 .. Len(values) + 1 |-> parts[i]]
        BY <2>2, LenProperties
    <2> HIDE DEF whole, parts
    <2>5. whole = [i \in 1 .. Len(values) + 1 |-> parts[i]]
        BY <2>1, <2>3
    <2> QED  BY <2>4, <2>5 DEF whole, parts
<1> QED  BY <1>5, <1>6, <1>7, FlattenAppend DEF StuffAll, Pieces

LEMMA StuffEmpty == StuffAll(<<>>) = <<>>
<1>1. Pieces(<<>>) = <<>>
    BY DEF Pieces
<1>2. FlattenSeq(<<>>) = <<>>
    BY DEF FlattenSeq
<1> QED  BY <1>1, <1>2 DEF StuffAll, Pieces

LEMMA StuffType ==
    ASSUME NEW values \in Seq(Bytes)
    PROVE  StuffAll(values) \in Seq(Bytes)
BY StuffAppend, ByteConstants

LEMMA StuffOne ==
    ASSUME NEW byte \in Bytes
    PROVE  StuffAll(<<byte>>) = append_stuffed(byte)
<1>1. <<>> \in Seq(Bytes) /\ Append(<<>>, byte) = <<byte>>
    BY EmptySeq
<1>2. StuffAll(<<byte>>) = <<>> \o append_stuffed(byte)
    BY <1>1, StuffAppend, StuffEmpty
<1> QED  BY <1>2, PieceOfByte, ConcatEmptySeq

LEMMA Associative ==
    ASSUME NEW a \in Seq(Bytes), NEW b \in Seq(Bytes), NEW c \in Seq(Bytes)
    PROVE  (a \o b) \o c = a \o (b \o c)
BY ConcatAssociative

LEMMA StuffConcat ==
    ASSUME NEW front \in Seq(Bytes), NEW back \in Seq(Bytes)
    PROVE  StuffAll(front \o back) = StuffAll(front) \o StuffAll(back)
<1> DEFINE Holds(values) == StuffAll(front \o values) = StuffAll(front) \o StuffAll(values)
           S == {n \in Nat : \A values \in Seq(Bytes) : Len(values) = n => Holds(values)}
<1>1. 0 \in S
    <2>1. Holds(<<>>)
        BY StuffEmpty, StuffType, ConcatEmptySeq
    <2>2. \A values \in Seq(Bytes) : Len(values) = 0 => values = <<>>
        BY EmptySeq
    <2> QED  BY <2>1, <2>2
<1>2. ASSUME NEW n \in Nat, n \in S
      PROVE  n + 1 \in S
    <2> SUFFICES ASSUME NEW values \in Seq(Bytes), Len(values) = n + 1
                 PROVE  Holds(values)
        OBVIOUS
    <2>0. values # <<>>
        BY EmptySeq
    <2>1. PICK start \in Seq(Bytes), byte \in Bytes : values = Append(start, byte)
        BY <2>0, SequenceEmptyOrAppend
    <2>2. Len(start) = n
        BY <2>1, AppendProperties, LenProperties
    <2>3. Holds(start)
        BY <1>2, <2>2
    <2>4. front \o values = Append(front \o start, byte) /\ front \o start \in Seq(Bytes)
        <3>1. values = start \o <<byte>> /\ <<byte>> \in Seq(Bytes)
            BY <2>1, AppendIsConcat
        <3>2. front \o start \in Seq(Bytes)
            BY ConcatProperties
        <3>3. front \o values = (front \o start) \o <<byte>>
            BY <3>1, ConcatAssociative
        <3> QED  BY <3>2, <3>3, AppendIsConcat
    <2>5. StuffAll(front \o values) = StuffAll(front \o start) \o append_stuffed(byte)
        BY <2>4, StuffAppend
    <2>6. StuffAll(values) = StuffAll(start) \o append_stuffed(byte)
        BY <2>1, StuffAppend
    <2>7. /\ StuffAll(front) \in Seq(Bytes) /\ StuffAll(start) \in Seq(Bytes)
          /\ append_stuffed(byte) \in Seq(Bytes)
        BY StuffType, PieceOfByte
    <2>8. (StuffAll(front) \o StuffAll(start)) \o append_stuffed(byte)
                = StuffAll(front) \o (StuffAll(start) \o append_stuffed(byte))
        <3>1. PICK a \in Seq(Bytes), b \in Seq(Bytes), c \in Seq(Bytes) :
                    a = StuffAll(front) /\ b = StuffAll(start) /\ c = append_stuffed(byte)
            BY <2>7
        <3>2. (a \o b) \o c = a \o (b \o c)
            BY SMTT(30)
        <3> QED  BY <3>1, <3>2
    <2>9. StuffAll(front \o start) = StuffAll(front) \o StuffAll(start)
        BY <2>3
    <2> QED  BY <2>5, <2>6, <2>8, <2>9
<1> HIDE DEF S
<1>3. Len(back) \in S
    BY <1>1, <1>2, Induction, LenProperties
<1> QED  BY <1>3 DEF S

\* What is left to be read of a stuffed sequence begins with a byte that means
\* itself, or with an escape byte and one of the stuffed ones.
LEMMA StuffFirst ==
    ASSUME NEW values \in Seq(Bytes), values # <<>>
    PROVE  /\ Head(values) \in Bytes /\ Tail(values) \in Seq(Bytes)
           /\ values = <<Head(values)>> \o Tail(values)
           /\ StuffAll(values) = append_stuffed(Head(values)) \o StuffAll(Tail(values))
<1>1. Head(values) \in Bytes /\ Tail(values) \in Seq(Bytes)
    BY HeadTailProperties
<1>2. <<Head(values)>> \in Seq(Bytes)
    BY <1>1
<1>3. values = <<Head(values)>> \o Tail(values)
    BY <1>1
<1> QED  BY <1>1, <1>2, <1>3, StuffConcat, StuffOne

\* Replacing an element of a concatenation replaces it in the part it is in.
Put(seq, i, x) == [seq EXCEPT ![i] = x]

LEMMA PutProperties ==
    ASSUME NEW seq \in Seq(Bytes), NEW i \in 1 .. Len(seq), NEW x \in Bytes
    PROVE  /\ Put(seq, i, x) \in Seq(Bytes)
           /\ Len(Put(seq, i, x)) = Len(seq)
           /\ \A j \in 1 .. Len(seq) : Put(seq, i, x)[j] = IF j = i THEN x ELSE seq[j]
BY ExceptSeq DEF Put

Joins(c, a, b) == c = a \o b

LEMMA ConcatParts ==
    ASSUME NEW a \in Seq(Bytes), NEW b \in Seq(Bytes), NEW c, Joins(c, a, b)
    PROVE  /\ c \in Seq(Bytes) /\ Len(c) = Len(a) + Len(b)
           /\ \A j \in 1 .. Len(a) : c[j] = a[j]
           /\ \A j \in 1 .. Len(b) : c[Len(a) + j] = b[j]
BY DEF Joins

LEMMA ConcatIs ==
    ASSUME NEW a \in Seq(Bytes), NEW b \in Seq(Bytes), NEW w \in Seq(Bytes),
           Len(w) = Len(a) + Len(b),
           \A j \in 1 .. Len(a) : w[j] = a[j],
           \A j \in 1 .. Len(b) : w[Len(a) + j] = b[j]
    PROVE  Joins(w, a, b)
<1>1. PICK c : Joins(c, a, b)
    BY DEF Joins
<1>2. /\ c \in Seq(Bytes) /\ Len(c) = Len(a) + Len(b)
      /\ \A j \in 1 .. Len(a) : c[j] = a[j]
      /\ \A j \in 1 .. Len(b) : c[Len(a) + j] = b[j]
    BY <1>1, ConcatParts
<1>3. Len(a) \in Nat /\ Len(b) \in Nat
    BY LenProperties
<1>4. ASSUME NEW j \in 1 .. Len(w)
      PROVE  w[j] = c[j]
    <2>1. CASE j \in 1 .. Len(a)
        BY <1>2, <2>1
    <2>2. CASE j \notin 1 .. Len(a)
        <3>1. j - Len(a) \in 1 .. Len(b) /\ j = Len(a) + (j - Len(a))
            BY <1>3, <2>2
        <3>2. PICK k \in 1 .. Len(b) : j = Len(a) + k
            BY <3>1
        <3> QED  BY <1>2, <3>2
    <2> QED  BY <2>1, <2>2
<1>5. w = c
    BY <1>2, <1>4, SeqEqual
<1> QED  BY <1>1, <1>5 DEF Joins

LEMMA PutFront ==
    ASSUME NEW a \in Seq(Bytes), NEW b \in Seq(Bytes), NEW c, Joins(c, a, b),
           NEW i \in 1 .. Len(a), NEW x \in Bytes
    PROVE  /\ i \in 1 .. Len(c) /\ c[i] = a[i]
           /\ Joins(Put(c, i, x), Put(a, i, x), b)
<1>1. c \in Seq(Bytes)
    BY ConcatParts
<1>2. /\ Len(c) = Len(a) + Len(b)
      /\ \A j \in 1 .. Len(a) : c[j] = a[j]
      /\ \A j \in 1 .. Len(b) : c[Len(a) + j] = b[j]
    BY <1>1, ConcatParts
<1>3. Len(a) \in Nat /\ Len(b) \in Nat
    BY LenProperties
<1>4. i \in 1 .. Len(c) /\ c[i] = a[i]
    BY <1>2, <1>3
<1>5. PICK front \in Seq(Bytes) : front = Put(a, i, x)
    BY PutProperties
<1>6. PICK whole \in Seq(Bytes) : whole = Put(c, i, x)
    BY <1>1, <1>4, PutProperties
<1>7. Len(front) = Len(a) /\ \A j \in 1 .. Len(a) : front[j] = IF j = i THEN x ELSE a[j]
    BY <1>5 DEF Put
<1>8. Len(whole) = Len(c) /\ \A j \in 1 .. Len(c) : whole[j] = IF j = i THEN x ELSE c[j]
    BY <1>1, <1>4, <1>6 DEF Put
<1>9. \A j \in 1 .. Len(front) : whole[j] = front[j]
    BY <1>2, <1>3, <1>7, <1>8
<1>10. \A j \in 1 .. Len(b) : whole[Len(front) + j] = b[j]
    BY <1>2, <1>3, <1>7, <1>8
<1>11. Len(whole) = Len(front) + Len(b)
    BY <1>2, <1>7, <1>8
<1>12. Joins(whole, front, b)
    BY <1>9, <1>10, <1>11, ConcatIs
<1> QED  BY <1>1, <1>4, <1>5, <1>6, <1>12

LEMMA PutBack ==
    ASSUME NEW a \in Seq(Bytes), NEW b \in Seq(Bytes), NEW c, Joins(c, a, b),
           NEW i \in 1 .. Len(b), NEW n, n = Len(a) + i, NEW x \in Bytes
    PROVE  /\ n \in 1 .. Len(c) /\ c[n] = b[i]
           /\ Joins(Put(c, n, x), a, Put(b, i, x))
<1>1. c \in Seq(Bytes)
    BY ConcatParts
<1>2. /\ Len(c) = Len(a) + Len(b)
      /\ \A j \in 1 .. Len(a) : c[j] = a[j]
      /\ \A j \in 1 .. Len(b) : c[Len(a) + j] = b[j]
    BY <1>1, ConcatParts
<1>3. Len(a) \in Nat /\ Len(b) \in Nat
    BY LenProperties
<1>4. n \in 1 .. Len(c) /\ c[n] = b[i]
    BY <1>2, <1>3
<1>5. PICK back \in Seq(Bytes) : back = Put(b, i, x)
    BY PutProperties
<1>6. PICK whole \in Seq(Bytes) : whole = Put(c, n, x)
    BY <1>1, <1>4, PutProperties
<1>7. Len(back) = Len(b) /\ \A j \in 1 .. Len(b) : back[j] = IF j = i THEN x ELSE b[j]
    BY <1>5 DEF Put
<1>8. Len(whole) = Len(c) /\ \A j \in 1 .. Len(c) : whole[j] = IF j = n THEN x ELSE c[j]
    BY <1>1, <1>4, <1>6 DEF Put
<1>9. \A j \in 1 .. Len(a) : whole[j] = a[j]
    BY <1>2, <1>3, <1>4, <1>8
<1>10. ASSUME NEW j \in 1 .. Len(back)
       PROVE  whole[Len(a) + j] = back[j]
    <2>1. j \in 1 .. Len(b)
        BY <1>7
    <2>2. Len(a) + j \in 1 .. Len(c)
        BY <1>2, <1>3, <2>1
    <2>3. Len(a) + j = n <=> j = i
        BY <1>3, <2>1
    <2> QED  BY <1>2, <1>7, <1>8, <2>1, <2>2, <2>3
<1>11. Len(whole) = Len(a) + Len(back)
    BY <1>2, <1>7, <1>8
<1>12. Joins(whole, a, back)
    BY <1>9, <1>10, <1>11, ConcatIs
<1> QED  BY <1>1, <1>4, <1>5, <1>6, <1>12

LEMMA PutBehind ==
    ASSUME NEW a \in Seq(Bytes), NEW b \in Seq(Bytes), NEW c, Joins(c, a, b),
           NEW n \in 1 .. Len(c), n > Len(a), NEW x \in Bytes
    PROVE  \E i \in 1 .. Len(b) :
                /\ n = Len(a) + i /\ c[n] = b[i]
                /\ Joins(Put(c, n, x), a, Put(b, i, x))
<1>1. Len(a) \in Nat /\ Len(b) \in Nat /\ Len(c) = Len(a) + Len(b)
    BY ConcatParts, LenProperties
<1>2. PICK i \in 1 .. Len(b) : n = Len(a) + i
    <2>1. n - Len(a) \in 1 .. Len(b) /\ n = Len(a) + (n - Len(a))
        BY <1>1
    <2> QED  BY <2>1
<1>3. c[n] = b[i] /\ Joins(Put(c, n, x), a, Put(b, i, x))
    BY <1>2, PutBack
<1> QED  BY <1>2, <1>3

\* A byte of the stuffed sequence that is not stuffed stands for itself: if another
\* such byte is in its place, that one was in the place of the value.
LEMMA StuffPosition ==
    ASSUME NEW values \in Seq(Bytes), NEW j \in 1 .. Len(StuffAll(values)),
           NEW byte \in Bytes \ Stuffed, StuffAll(values)[j] \notin Stuffed
    PROVE  \E k \in 1 .. Len(values) :
              /\ values[k] = StuffAll(values)[j]
              /\ Put(StuffAll(values), j, byte) = StuffAll(Put(values, k, byte))
<1> DEFINE Found(v, i) == \E k \in 1 .. Len(v) :
                /\ v[k] = StuffAll(v)[i]
                /\ Put(StuffAll(v), i, byte) = StuffAll(Put(v, k, byte))
           Holds(v) == \A i \in 1 .. Len(StuffAll(v)) :
                            StuffAll(v)[i] \notin Stuffed => Found(v, i)
           S == {n \in Nat : \A v \in Seq(Bytes) : Len(v) = n => Holds(v)}
<1>1. 0 \in S
    <2>1. \A v \in Seq(Bytes) : Len(v) = 0 => v = <<>>
        BY EmptySeq
    <2>2. Len(StuffAll(<<>>)) = 0
        BY StuffEmpty
    <2> QED  BY <2>1, <2>2
<1>2. ASSUME NEW n \in Nat, n \in S
      PROVE  n + 1 \in S
    <2> HIDE DEF Holds
    <2> SUFFICES ASSUME NEW v \in Seq(Bytes), Len(v) = n + 1
                 PROVE  Holds(v)
        OBVIOUS
    <2>0. v # <<>>
        BY EmptySeq
    <2>1. PICK start \in Seq(Bytes), last \in Bytes : v = Append(start, last)
        BY <2>0, SequenceEmptyOrAppend
    <2>2. Len(start) = n
        BY <2>1, AppendProperties, LenProperties
    <2>3. Holds(start)
        BY <1>2, <2>2
    <2> SUFFICES ASSUME NEW i \in 1 .. Len(StuffAll(v)), StuffAll(v)[i] \notin Stuffed
                 PROVE  Found(v, i)
        BY DEF Holds
    <2> HIDE DEF Found
    <2>a. byte \in Bytes /\ byte \notin Stuffed
        OBVIOUS
    <2>4. PICK base \in Seq(Bytes), piece \in Seq(Bytes), whole \in Seq(Bytes) :
                /\ base = StuffAll(start) /\ piece = append_stuffed(last)
                /\ whole = StuffAll(v) /\ Joins(whole, base, piece)
        BY <2>1, StuffAppend, StuffType, PieceOfByte DEF Joins
    <2>5. /\ Len(base) \in Nat /\ Len(piece) \in Nat
          /\ Len(whole) = Len(base) + Len(piece) /\ i \in 1 .. Len(whole)
        BY <2>4, ConcatParts, LenProperties
    <2>6. PICK one \in Seq(Bytes), other \in Seq(Bytes) :
                one = <<last>> /\ other = <<byte>> /\ Joins(v, start, one)
        <3>1. <<last>> \in Seq(Bytes) /\ <<byte>> \in Seq(Bytes)
            BY <2>a
        <3>2. v = start \o <<last>>
            BY <2>1, AppendIsConcat
        <3> QED  BY <3>1, <3>2 DEF Joins
    <2>b. Joins(v, start, one)
        BY <2>6
    <2>c. Joins(whole, base, piece)
        BY <2>4
    <2>7. CASE i <= Len(base)
        <3>0. i \in 1 .. Len(base)
            BY <2>5, <2>7
        <3>1. whole[i] = base[i] /\ Joins(Put(whole, i, byte), Put(base, i, byte), piece)
            BY <2>4, <2>a, <3>0, PutFront
        <3>2. Found(start, i)
            BY <2>3, <2>4, <3>0, <3>1 DEF Holds
        <3>3. PICK k \in 1 .. Len(start) :
                    /\ start[k] = base[i]
                    /\ Put(base, i, byte) = StuffAll(Put(start, k, byte))
            BY <2>4, <3>2 DEF Found
        <3>4. PICK moved \in Seq(Bytes) : moved = Put(start, k, byte)
            BY <2>a, PutProperties
        <3>5. /\ v[k] = start[k] /\ k \in 1 .. Len(v)
              /\ Joins(Put(v, k, byte), Put(start, k, byte), one)
            BY <2>b, <2>a, PutFront
        <3>6. Put(v, k, byte) = Append(moved, last)
            BY <2>6, <3>4, <3>5, AppendIsConcat DEF Joins
        <3>7. StuffAll(Put(v, k, byte)) = StuffAll(moved) \o piece
            BY <2>4, <3>6, StuffAppend
        <3>8. Put(whole, i, byte) = StuffAll(moved) \o piece
            BY <3>1, <3>3, <3>4 DEF Joins
        <3> QED  BY <2>4, <3>1, <3>3, <3>5, <3>7, <3>8 DEF Found
    <2>8. CASE i > Len(base)
        <3>1. PICK q \in 1 .. Len(piece) :
                    /\ i = Len(base) + q /\ whole[i] = piece[q]
                    /\ Joins(Put(whole, i, byte), base, Put(piece, q, byte))
            BY <2>a, <2>c, <2>5, <2>8, PutBehind
        <3>2. /\ whole[i] = piece[q]
              /\ Joins(Put(whole, i, byte), base, Put(piece, q, byte))
            BY <3>1
        <3>3. last \notin Stuffed
            BY <2>4, <3>2 DEF append_stuffed, Stuffed
        <3>4. piece = one /\ append_stuffed(byte) = other
            BY <2>4, <2>6, <3>3 DEF append_stuffed
        <3>5. q = 1 /\ one[q] = last /\ Put(one, q, byte) = other /\ q \in 1 .. Len(one)
            BY <2>6, <3>1, <3>4 DEF Put
        <3>6. PICK k : k = Len(start) + q
            OBVIOUS
        <3>7. k \in 1 .. Len(v) /\ v[k] = last /\ Joins(Put(v, k, byte), start, other)
            <4>1. /\ k \in 1 .. Len(v) /\ v[k] = one[q]
                  /\ Joins(Put(v, k, byte), start, Put(one, q, byte))
                BY <2>b, <2>a, <3>5, <3>6, PutBack, SMTT(30)
            <4> QED  BY <3>5, <4>1
        <3>8. Put(v, k, byte) = Append(start, byte)
            BY <2>6, <2>a, <3>7, AppendIsConcat DEF Joins
        <3>9. StuffAll(Put(v, k, byte)) = base \o other
            BY <2>4, <2>a, <3>4, <3>8, StuffAppend
        <3>10. Put(whole, i, byte) = base \o other
            BY <3>2, <3>4, <3>5 DEF Joins
        <3> QED  BY <2>4, <3>2, <3>4, <3>5, <3>7, <3>9, <3>10 DEF Found
    <2> QED  BY <2>5, <2>7, <2>8
<1> HIDE DEF S
<1>3. Len(values) \in S
    BY <1>1, <1>2, Induction, LenProperties
<1> QED  BY <1>3 DEF S

-----------------------------------------------------------------------------
(* Sums *)

Pick(s) == CHOOSE x \in s : TRUE

LEMMA PickIn ==
    ASSUME NEW s, s # {}
    PROVE  Pick(s) \in s
BY DEF Pick

LEMMA SubsetInduction ==
    ASSUME NEW S, IsFiniteSet(S), NEW P, {} \in P,
           \A s \in SUBSET S : s # {} /\ s \ {Pick(s)} \in P => s \in P
    PROVE  SUBSET S \subseteq P
<1> DEFINE N == {n \in Nat : \A s \in SUBSET S : Cardinality(s) = n => s \in P}
<1>0. \A s \in SUBSET S : IsFiniteSet(s) /\ Cardinality(s) \in Nat
    BY FS_Subset, FS_CardinalityType
<1>1. 0 \in N
    BY <1>0, FS_EmptySet
<1>2. ASSUME NEW n \in Nat, n \in N
      PROVE  n + 1 \in N
    <2> SUFFICES ASSUME NEW s \in SUBSET S, Cardinality(s) = n + 1
                 PROVE  s \in P
        OBVIOUS
    <2>1. s # {}
        BY FS_EmptySet
    <2>2. Pick(s) \in s
        BY <2>1, PickIn
    <2>3. Cardinality(s \ {Pick(s)}) = n
        <3>1. Cardinality(s \ {Pick(s)}) = Cardinality(s) - 1
            BY <1>0, <2>2, FS_RemoveElement
        <3> QED  BY <3>1
    <2>4. s \ {Pick(s)} \in P
        BY <1>2, <2>3
    <2> QED  BY <2>1, <2>4
<1> HIDE DEF N
<1>3. Nat \subseteq N
    BY <1>1, <1>2, Induction
<1>4. ASSUME NEW s \in SUBSET S
      PROVE  s \in P
    BY <1>0, <1>3 DEF N
<1> QED  BY <1>4

Adds(f, seq, S) ==
    f = [s \in SUBSET S |->
            IF s = {} THEN 0
            ELSE LET x == CHOOSE x \in s : TRUE IN Plus(seq[x], f[s \ {x}])]

LEMMA AddsExists ==
    ASSUME NEW seq, NEW S, IsFiniteSet(S)
    PROVE  \E f : Adds(f, seq, S)
<1> DEFINE Holds(f, s) == f[s] = IF s = {} THEN 0 ELSE Plus(seq[Pick(s)], f[s \ {Pick(s)}])
           N == {n \in Nat : \E f : \A s \in SUBSET S : Cardinality(s) <= n => Holds(f, s)}
<1>0. \A s \in SUBSET S : IsFiniteSet(s) /\ Cardinality(s) \in Nat
    BY FS_Subset, FS_CardinalityType
<1>1. 0 \in N
    <2> DEFINE f == [s \in SUBSET S |-> 0]
    <2>1. \A s \in SUBSET S : Cardinality(s) <= 0 => s = {}
        BY <1>0, FS_EmptySet
    <2>2. f[{}] = 0
        OBVIOUS
    <2> HIDE DEF f
    <2>3. \A s \in SUBSET S : Cardinality(s) <= 0 => Holds(f, s)
        BY <2>1, <2>2
    <2> QED  BY <2>3
<1>2. ASSUME NEW n \in Nat, n \in N
      PROVE  n + 1 \in N
    <2>1. PICK f : \A s \in SUBSET S : Cardinality(s) <= n => Holds(f, s)
        BY <1>2
    <2> DEFINE g == [s \in SUBSET S |-> IF Cardinality(s) = n + 1
                                        THEN Plus(seq[Pick(s)], f[s \ {Pick(s)}]) ELSE f[s]]
    <2>2. \A s \in SUBSET S :
            g[s] = IF Cardinality(s) = n + 1
                   THEN Plus(seq[Pick(s)], f[s \ {Pick(s)}]) ELSE f[s]
        OBVIOUS
    <2> HIDE DEF g
    <2>3. ASSUME NEW s \in SUBSET S, Cardinality(s) <= n + 1
          PROVE  Holds(g, s)
        <3>1. CASE s = {}
            <4>1. Cardinality(s) = 0
                BY <3>1, FS_EmptySet
            <4>2. Cardinality(s) <= n /\ Cardinality(s) # n + 1
                BY <4>1
            <4>3. g[s] = f[s] /\ Holds(f, s)
                BY <2>1, <2>2, <4>2
            <4> QED  BY <3>1, <4>3
        <3>2. CASE s # {}
            <4>1. PICK rest \in SUBSET S : rest = s \ {Pick(s)}
                OBVIOUS
            <4>2. Pick(s) \in s
                BY <3>2, PickIn
            <4>3. Cardinality(rest) = Cardinality(s) - 1
                BY <1>0, <4>1, <4>2, FS_RemoveElement
            <4>4. Cardinality(rest) # n + 1
                BY <1>0, <2>3, <4>3
            <4>5. g[rest] = f[rest]
                BY <2>2, <4>4
            <4>6. g[s] = Plus(seq[Pick(s)], f[rest])
                <5>1. CASE Cardinality(s) = n + 1
                    BY <2>2, <4>1, <5>1
                <5>2. CASE Cardinality(s) # n + 1
                    <6>1. Cardinality(s) <= n
                        BY <1>0, <2>3, <5>2
                    <6>2. g[s] = f[s] /\ Holds(f, s)
                        BY <2>1, <2>2, <5>2, <6>1
                    <6> QED  BY <3>2, <4>1, <6>2
                <5> QED  BY <5>1, <5>2
            <4> QED  BY <3>2, <4>1, <4>5, <4>6
        <3> QED  BY <3>1, <3>2
    <2> HIDE DEF Holds
    <2> QED  BY <2>3
<1> HIDE DEF N
<1>3. Cardinality(S) \in N
    BY <1>0, <1>1, <1>2, Induction
<1>4. PICK f : \A s \in SUBSET S : Cardinality(s) <= Cardinality(S) => Holds(f, s)
    BY <1>3 DEF N
<1>5. \A s \in SUBSET S : Holds(f, s)
    BY <1>4, FS_Subset
<1> DEFINE h == [s \in SUBSET S |-> f[s]]
<1>6. \A s \in SUBSET S : h[s] = f[s]
    OBVIOUS
<1>7. \A s \in SUBSET S : s \ {Pick(s)} \in SUBSET S
    OBVIOUS
<1>8. \A s \in SUBSET S : f[s] = IF s = {} THEN 0 ELSE Plus(seq[Pick(s)], h[s \ {Pick(s)}])
    <2> HIDE DEF h
    <2> QED  BY <1>5, <1>6, <1>7
<1>9. h = [s \in SUBSET S |-> IF s = {} THEN 0 ELSE Plus(seq[Pick(s)], h[s \ {Pick(s)}])]
    <2> QED  BY <1>8
<1> HIDE DEF h
<1> QED  BY <1>9 DEF Adds, Pick

LEMMA SumUnfolds ==
    ASSUME NEW seq \in Seq(Int)
    PROVE  \E f :
              /\ \A s \in SUBSET (1 .. Len(seq)) :
                    f[s] = IF s = {} THEN 0 ELSE seq[Pick(s)] + f[s \ {Pick(s)}]
              /\ FoldSeq(Plus, 0, seq) = f[1 .. Len(seq)]
<1> DEFINE S == 1 .. Len(seq)
           f == CHOOSE g : Adds(g, seq, S)
<1>1. IsFiniteSet(S)
    BY FS_Interval, LenProperties
<1>2. \E g : Adds(g, seq, S)
    BY <1>1, AddsExists
<1>3. Adds(f, seq, S)
    BY <1>2
<1>4. FoldSeq(Plus, 0, seq) = f[S]
    BY LenProperties DEF FoldSeq, FoldFunction, FoldFunctionOnSet, MapThenFoldSet, Adds
<1> HIDE DEF f, S
<1>5. \A s \in SUBSET S : f[s] = IF s = {} THEN 0 ELSE seq[Pick(s)] + f[s \ {Pick(s)}]
    BY <1>3 DEF Adds, Pick, Plus
<1> QED  BY <1>4, <1>5 DEF S

LEMMA SumType ==
    ASSUME NEW seq \in Seq(Int)
    PROVE  FoldSeq(Plus, 0, seq) \in Int
<1> DEFINE S == 1 .. Len(seq)
<1>1. PICK f : /\ \A s \in SUBSET S :
                        f[s] = IF s = {} THEN 0 ELSE seq[Pick(s)] + f[s \ {Pick(s)}]
               /\ FoldSeq(Plus, 0, seq) = f[S]
    BY SumUnfolds
<1>2. IsFiniteSet(S)
    BY FS_Interval, LenProperties
<1>3. \A i \in S : seq[i] \in Int
    BY ElementOfSeq
<1> DEFINE P == {s \in SUBSET S : f[s] \in Int}
<1> HIDE DEF S
<1>4. {} \in P
    <2>1. \A s \in SUBSET S : s = {} => f[s] = 0
        BY <1>1
    <2>2. PICK none \in SUBSET S : none = {}
        OBVIOUS
    <2>3. f[none] = 0
        BY <2>1, <2>2
    <2> QED  BY <2>2, <2>3
<1>5. ASSUME NEW s \in SUBSET S, s # {}, s \ {Pick(s)} \in P
      PROVE  s \in P
    <2>1. seq[Pick(s)] \in Int
        BY <1>3, <1>5, PickIn
    <2>2. f[s \ {Pick(s)}] \in Int
        BY <1>5
    <2>3. f[s] = seq[Pick(s)] + f[s \ {Pick(s)}]
        BY <1>1, <1>5
    <2> QED  BY <2>1, <2>2, <2>3
<1> HIDE DEF P
<1>6. S \in P
    BY <1>2, <1>4, <1>5, SubsetInduction
<1> QED  BY <1>1, <1>6 DEF P

\* Replacing a value changes the sum by the difference.
LEMMA SumOfPut ==
    ASSUME NEW seq \in Seq(Int), NEW i \in 1 .. Len(seq), NEW value \in Int,
           NEW other \in Seq(Int), Len(other) = Len(seq),
           \A k \in 1 .. Len(seq) : other[k] = IF k = i THEN value ELSE seq[k]
    PROVE  FoldSeq(Plus, 0, other) = FoldSeq(Plus, 0, seq) + (value - seq[i])
<1> DEFINE S == 1 .. Len(seq)
<1>1. PICK f : /\ \A s \in SUBSET S :
                        f[s] = IF s = {} THEN 0 ELSE seq[Pick(s)] + f[s \ {Pick(s)}]
               /\ FoldSeq(Plus, 0, seq) = f[S]
    BY SumUnfolds
<1>2. PICK g : /\ \A s \in SUBSET S :
                        g[s] = IF s = {} THEN 0 ELSE other[Pick(s)] + g[s \ {Pick(s)}]
               /\ FoldSeq(Plus, 0, other) = g[S]
    BY SumUnfolds
<1>3. IsFiniteSet(S) /\ i \in S
    BY FS_Interval, LenProperties
<1>4. \A k \in S : seq[k] \in Int /\ other[k] = IF k = i THEN value ELSE seq[k]
    BY ElementOfSeq
<1> DEFINE Change(s) == IF i \in s THEN value - seq[i] ELSE 0
           P == {s \in SUBSET S : f[s] \in Int /\ g[s] = f[s] + Change(s)}
<1> HIDE DEF S
<1>5. {} \in P
    <2>1. \A s \in SUBSET S : s = {} => f[s] = 0 /\ g[s] = 0
        BY <1>1, <1>2
    <2>2. PICK none \in SUBSET S : none = {}
        OBVIOUS
    <2>3. f[none] = 0 /\ g[none] = 0 /\ Change(none) = 0
        BY <2>1, <2>2
    <2> HIDE DEF Change
    <2> QED  BY <2>2, <2>3
<1>6. ASSUME NEW s \in SUBSET S, s # {}, s \ {Pick(s)} \in P
      PROVE  s \in P
    <2>1. PICK k \in S, rest \in SUBSET S : k = Pick(s) /\ rest = s \ {Pick(s)} /\ k \in s
        BY <1>6, PickIn
    <2>2. f[s] = seq[k] + f[rest] /\ g[s] = other[k] + g[rest]
        BY <1>1, <1>2, <1>6, <2>1
    <2>3. f[rest] \in Int /\ g[rest] = f[rest] + Change(rest)
        BY <1>6, <2>1
    <2>4. seq[k] \in Int /\ seq[i] \in Int
        BY <1>3, <1>4
    <2>5. CASE k = i
        <3>1. i \in s /\ i \notin rest /\ other[k] = value
            BY <1>4, <2>1, <2>5
        <3>2. Change(rest) = 0 /\ Change(s) = value - seq[i]
            BY <3>1
        <3> HIDE DEF Change
        <3>3. f[s] \in Int /\ g[s] = f[s] + Change(s)
            BY <2>2, <2>3, <2>4, <2>5, <3>1, <3>2
        <3> QED  BY <3>3
    <2>6. CASE k # i
        <3>1. (i \in s <=> i \in rest) /\ other[k] = seq[k]
            BY <1>4, <2>1, <2>6
        <3>2. Change(rest) = Change(s) /\ Change(s) \in Int
            BY <2>4, <3>1
        <3> HIDE DEF Change
        <3>3. f[s] \in Int /\ g[s] = f[s] + Change(s)
            BY <2>2, <2>3, <2>4, <3>1, <3>2, SMTT(30)
        <3> QED  BY <3>3
    <2> QED  BY <2>5, <2>6
<1> HIDE DEF P
<1>7. S \in P
    BY <1>3, <1>5, <1>6, SubsetInduction
<1> QED  BY <1>1, <1>2, <1>3, <1>7 DEF P

-----------------------------------------------------------------------------
(* The checksum *)

LEMMA SameRemainder ==
    ASSUME NEW m \in Int, NEW n \in Int, NEW d \in Nat \ {0},
           m % d = n % d, m - n < d, n - m < d
    PROVE  m = n
<1>1. PICK q \in Int : m = d * q + (m % d)
    <2>1. m \div d \in Int /\ m = d * (m \div d) + (m % d)
        OBVIOUS
    <2> QED  BY <2>1
<1>2. PICK r \in Int : n = d * r + (n % d)
    <2>1. n \div d \in Int /\ n = d * (n \div d) + (n % d)
        OBVIOUS
    <2> QED  BY <2>1
<1>3. PICK e \in Int : e = m % d
    OBVIOUS
<1>4. m = d * q + e /\ n = d * r + e
    BY <1>1, <1>2, <1>3
<1>5. m - n = d * (q - r)
    BY <1>4
<1>6. PICK k \in Int : k = q - r
    OBVIOUS
<1>7. m - n = d * k
    BY <1>5, <1>6
<1>8. ~(k >= 1)
    <2> SUFFICES ASSUME k >= 1 PROVE FALSE
        OBVIOUS
    <2>1. d * k >= d
        OBVIOUS
    <2> QED  BY <1>7, <2>1
<1>9. ~(k <= -1)
    <2> SUFFICES ASSUME k <= -1 PROVE FALSE
        OBVIOUS
    <2>1. d * k <= -d
        OBVIOUS
    <2> QED  BY <1>7, <2>1
<1>10. k = 0
    BY <1>8, <1>9
<1> QED  BY <1>7, <1>10

LEMMA ByteSequence ==
    ASSUME NEW values \in Seq(Bytes)
    PROVE  values \in Seq(Int)
<1>1. \A byte \in Bytes : byte \in Int
    BY ByteConstants
<1>2. ASSUME NEW i \in 1 .. Len(values)
      PROVE  values[i] \in Int
    <2>1. values[i] \in Bytes
        BY ElementOfSeq
    <2> QED  BY <1>1, <2>1
<1> QED  BY <1>2, SeqMonotonic

LEMMA ChecksumType ==
    ASSUME NEW packet_type \in Bytes, NEW payload \in Seq(Bytes)
    PROVE  checksum(packet_type, payload) \in Bytes
<1>1. PICK sum \in Int : sum = FoldSeq(Plus, 0, payload)
    BY ByteSequence, SumType
<1>2. PICK total \in Int : total = packet_type + Len(payload) + sum
    BY ByteConstants, LenProperties
<1>3. Base \in Nat \ {0}
    BY ByteAssumption DEF Bytes, Stuffed
<1>4. total % Base \in Bytes
    BY <1>3 DEF Bytes
<1> QED  BY <1>1, <1>2, <1>4 DEF checksum

\* One byte of the payload changed changes the checksum.
LEMMA ChecksumOfPut ==
    ASSUME NEW packet_type \in Bytes, NEW payload \in Seq(Bytes),
           NEW i \in 1 .. Len(payload), NEW value \in Bytes, value # payload[i]
    PROVE  checksum(packet_type, Put(payload, i, value)) # checksum(packet_type, payload)
<1>1. PICK other \in Seq(Bytes) :
            /\ other = Put(payload, i, value) /\ Len(other) = Len(payload)
            /\ \A k \in 1 .. Len(payload) : other[k] = IF k = i THEN value ELSE payload[k]
    <2>1. /\ Put(payload, i, value) \in Seq(Bytes)
          /\ Len(Put(payload, i, value)) = Len(payload)
          /\ \A k \in 1 .. Len(payload) :
                Put(payload, i, value)[k] = IF k = i THEN value ELSE payload[k]
        BY PutProperties
    <2> QED  BY <2>1
<1>2. payload \in Seq(Int) /\ other \in Seq(Int)
    BY ByteSequence
<1>3. Len(payload) \in Nat /\ payload[i] \in Bytes
    BY LenProperties, ElementOfSeq
<1>4. PICK old \in Bytes : old = payload[i]
    BY <1>3
<1>5. PICK sum \in Int, changed \in Int :
            sum = FoldSeq(Plus, 0, payload) /\ changed = FoldSeq(Plus, 0, other)
    BY <1>2, SumType
<1>6. /\ packet_type \in Int /\ value \in Int /\ old \in Int
      /\ value - old < Base /\ old - value < Base
    BY ByteAssumption DEF Bytes
<1>7. changed = sum + (value - old)
    <2>1. FoldSeq(Plus, 0, other) = FoldSeq(Plus, 0, payload) + (value - payload[i])
        <3>1. value \in Int
            BY <1>6
        <3>2. /\ Len(other) = Len(payload)
              /\ \A k \in 1 .. Len(payload) : other[k] = IF k = i THEN value ELSE payload[k]
            BY <1>1
        <3> QED  BY <1>2, <3>1, <3>2, SumOfPut
    <2> QED  BY <1>4, <1>5, <2>1
<1>8. PICK m \in Int, n \in Int :
            /\ m = packet_type + Len(payload) + sum
            /\ n = packet_type + Len(payload) + changed
    BY <1>3, <1>6
<1>9. /\ n - m = value - old /\ m - n = old - value
      /\ n - m < Base /\ m - n < Base /\ n # m
    <2>1. value # old
        BY <1>4
    <2>2. PICK size \in Int : size = Len(payload)
        BY <1>3
    <2>3. m = packet_type + size + sum /\ n = packet_type + size + changed
        BY <1>8, <2>2
    <2> QED  BY <1>6, <1>7, <2>1, <2>3
<1>10. Base \in Nat \ {0}
    BY ByteAssumption DEF Bytes, Stuffed
<1>11. n % Base # m % Base
    BY <1>9, <1>10, SameRemainder
<1>12. /\ checksum(packet_type, payload) = m % Base
       /\ checksum(packet_type, other) = n % Base
    BY <1>1, <1>5, <1>8 DEF checksum
<1> QED  BY <1>1, <1>11, <1>12

-----------------------------------------------------------------------------
(* Frames *)

\* What follows the header of a packet's frame, before it is stuffed.
Body(p) == p.data \o <<checksum(p.type, p.data)>>

Frame(p, body) == <<SOF>> \o (StuffAll(<<Len(p.data), p.type>> \o body) \o <<EOF>>)

\* One value of the body is another.
Differs(p, body) ==
    \E k \in 1 .. Len(Body(p)), byte \in Bytes :
        byte # Body(p)[k] /\ body = Put(Body(p), k, byte)

LEMMA OneByte ==
    ASSUME NEW byte \in Bytes
    PROVE  <<byte>> \in Seq(Bytes)
OBVIOUS

LEMMA TwoBytes ==
    ASSUME NEW byte \in Bytes, NEW other \in Bytes
    PROVE  <<byte, other>> = <<byte>> \o <<other>>
<1>1. <<byte, other>> = Append(<<byte>>, other)
    OBVIOUS
<1>2. PICK one \in Seq(Bytes) : one = <<byte>>
    BY OneByte
<1>3. Append(one, other) = one \o <<other>>
    BY AppendIsConcat
<1> QED  BY <1>1, <1>2, <1>3

LEMMA Delimiters == <<SOF>> \in Seq(Bytes) /\ <<EOF>> \in Seq(Bytes)
BY ByteConstants

LEMMA PacketProperties ==
    ASSUME NEW p \in Packets
    PROVE  /\ p.type \in Bytes /\ p.data \in Seq(Bytes) /\ Len(p.data) \in Bytes
           /\ p = [type |-> p.type, data |-> p.data]
           /\ Body(p) \in Seq(Bytes) /\ Len(Body(p)) = Len(p.data) + 1
           /\ <<Len(p.data), p.type>> \in Seq(Bytes)
<1>1. p \in [type : Bytes, data : {d \in Seq(Bytes) : Len(d) < Base}]
    BY PacketAssumption DEF Packet
<1>2. /\ p.type \in Bytes /\ p.data \in Seq(Bytes) /\ Len(p.data) < Base
      /\ p = [type |-> p.type, data |-> p.data]
    BY <1>1
<1>3. Len(p.data) \in Bytes
    <2>1. PICK n \in Nat : n = Len(p.data) /\ n < Base
        BY <1>2, LenProperties
    <2>2. n \in Bytes
        BY <2>1, ByteAssumption DEF Bytes
    <2> QED  BY <2>1, <2>2
<1>4. PICK sum \in Bytes : sum = checksum(p.type, p.data)
    BY <1>2, ChecksumType
<1>5. PICK payload \in Seq(Bytes) : payload = p.data
    BY <1>2
<1>6. payload \o <<sum>> \in Seq(Bytes) /\ Len(payload \o <<sum>>) = Len(payload) + 1
    OBVIOUS
<1> QED  BY <1>2, <1>3, <1>4, <1>5, <1>6 DEF Body

LEMMA FrameForm ==
    ASSUME NEW p \in Packets, NEW body \in Seq(Bytes)
    PROVE  /\ Header(p) \in Seq(Bytes)
           /\ (Header(p) \o StuffAll(body)) \o <<EOF>> = Frame(p, body)
           /\ Frame(p, body) \in Seq(Bytes)
<1>1. PICK two \in Seq(Bytes) : two = <<Len(p.data), p.type>>
    BY PacketProperties
<1>2. PICK sof \in Seq(Bytes), eof \in Seq(Bytes), a \in Seq(Bytes), b \in Seq(Bytes) :
            sof = <<SOF>> /\ eof = <<EOF>> /\ a = StuffAll(two) /\ b = StuffAll(body)
    BY StuffType, Delimiters
<1>3. StuffAll(two \o body) = a \o b
    BY <1>2, StuffConcat
<1>4. Header(p) = sof \o a /\ Frame(p, body) = sof \o (StuffAll(two \o body) \o eof)
    <2>1. Header(p) = sof \o a
        BY <1>1, <1>2 DEF Header
    <2>2. Frame(p, body) = sof \o (StuffAll(two \o body) \o eof)
        BY <1>1, <1>2 DEF Frame
    <2> QED  BY <2>1, <2>2
<1>5. ((sof \o a) \o b) \o eof = sof \o ((a \o b) \o eof)
    BY SMTT(30)
<1>6. sof \o a \in Seq(Bytes) /\ sof \o ((a \o b) \o eof) \in Seq(Bytes)
    OBVIOUS
<1>7. (Header(p) \o StuffAll(body)) \o <<EOF>> = ((sof \o a) \o b) \o eof
    BY <1>2, <1>4
<1>8. Frame(p, body) = sof \o ((a \o b) \o eof)
    BY <1>3, <1>4
<1> QED  BY <1>4, <1>5, <1>6, <1>7, <1>8

LEMMA SerializedForm ==
    ASSUME NEW p \in Packets
    PROVE  /\ serialize(p) = (Header(p) \o StuffAll(Body(p))) \o <<EOF>>
           /\ serialize(p) = Frame(p, Body(p)) /\ serialize(p) \in Seq(Bytes)
<1>1. serialize(p) = (Header(p) \o StuffAll(Body(p))) \o <<EOF>>
    BY DEF serialize, Body
<1> QED  BY <1>1, FrameForm, PacketProperties

LEMMA MisreadForm ==
    ASSUME NEW p \in Packets, NEW damaged \in Misread(p)
    PROVE  \E body \in Seq(Bytes) : Differs(p, body) /\ damaged = Frame(p, body)
<1>1. PICK body \in Seq(Bytes) : body = Body(p)
    BY PacketProperties
<1>2. PICK head \in Seq(Bytes), eof \in Seq(Bytes), mid \in Seq(Bytes) :
            head = Header(p) /\ eof = <<EOF>> /\ mid = StuffAll(body)
    BY FrameForm, StuffType, Delimiters
<1>3. PICK front : Joins(front, head, mid)
    BY DEF Joins
<1>4. front \in Seq(Bytes)
    BY <1>3, ConcatParts
<1>5. PICK frame \in Seq(Bytes) : frame = serialize(p) /\ Joins(frame, front, eof)
    BY <1>1, <1>2, <1>3, SerializedForm DEF Joins
<1>6. PICK i \in Len(head) + 1 .. Len(frame) - 1, byte \in Bytes :
            /\ byte \notin Stuffed /\ frame[i] \notin Stuffed
            /\ damaged = Put(frame, i, byte) /\ damaged # frame
    <2>1. damaged \in {[frame EXCEPT ![i] = byte] :
                i \in {j \in Len(head) + 1 .. Len(frame) - 1 : frame[j] \notin Stuffed},
                byte \in Bytes \ Stuffed} \ {frame}
        BY <1>2, <1>5 DEF Misread
    <2> QED  BY <2>1 DEF Put
<1>7. /\ Len(head) \in Nat /\ Len(mid) \in Nat
      /\ Len(front) = Len(head) + Len(mid) /\ Len(frame) = Len(front) + 1
    <2>1. Len(front) = Len(head) + Len(mid)
        BY <1>3, ConcatParts
    <2>2. Len(frame) = Len(front) + Len(eof)
        BY <1>4, <1>5, ConcatParts
    <2>3. Len(eof) = 1
        BY <1>2
    <2> QED  BY <2>1, <2>2, <2>3, LenProperties
<1>8. i - Len(head) \in 1 .. Len(mid) /\ i = Len(head) + (i - Len(head)) /\ i \in 1 .. Len(front)
    BY <1>7
<1>9. PICK q \in 1 .. Len(mid) : i = Len(head) + q
    BY <1>8
<1>10. frame[i] = front[i] /\ Joins(Put(frame, i, byte), Put(front, i, byte), eof)
    BY <1>4, <1>5, <1>8, PutFront
<1>11. front[i] = mid[q] /\ Joins(Put(front, i, byte), head, Put(mid, q, byte))
    BY <1>3, <1>9, PutBack
<1>12. PICK k \in 1 .. Len(body) :
            body[k] = mid[q] /\ Put(mid, q, byte) = StuffAll(Put(body, k, byte))
    <2>1. mid[q] \notin Stuffed
        BY <1>6, <1>10, <1>11
    <2> QED  BY <1>2, <1>6, <2>1, StuffPosition
<1>13. byte # body[k]
    <2>1. SUFFICES ASSUME byte = frame[i] PROVE FALSE
        BY <1>10, <1>11, <1>12
    <2>2. Put(frame, i, byte) = frame
        BY <2>1 DEF Put
    <2> QED  BY <1>6, <2>2
<1>14. PICK other \in Seq(Bytes) : other = Put(body, k, byte)
    BY PutProperties
<1>15. damaged = (Header(p) \o StuffAll(other)) \o <<EOF>>
    BY <1>2, <1>6, <1>10, <1>11, <1>12, <1>14 DEF Joins
<1>16. Differs(p, other)
    BY <1>1, <1>13, <1>14 DEF Differs
<1> QED  BY <1>15, <1>16, FrameForm

-----------------------------------------------------------------------------
(* Types *)

States == {"WAIT_SOF", "LENGTH", "TYPE", "DATA", "CHECKSUM", "EOF"}

Results == Seq([type : Bytes, data : Seq(Bytes)])

\* The payload is empty until the frame says how long it is, and shorter than
\* that as long as more of it is to come.
TypeInv ==
    /\ TypeOK
    /\ state = "LENGTH" => data = <<>>
    /\ state = "DATA" => Len(data) < length

LEMMA SentBytes ==
    ASSUME NEW p \in Packets,
           NEW sent, sent = serialize(p) \/ sent \in Misread(p) \/ sent \in Garbled(p)
    PROVE  sent \in Seq(Bytes)
<1>1. CASE sent = serialize(p)
    BY <1>1, SerializedForm
<1>2. CASE sent \in Misread(p)
    BY <1>2, MisreadForm, FrameForm
<1>3. CASE sent \in Garbled(p)
    <2>1. PICK frame \in Seq(Bytes) : frame = serialize(p)
        BY SerializedForm
    <2>2. Len(frame) \in Nat /\ DOMAIN frame = 1 .. Len(frame)
        BY LenProperties
    <2>3. \A i \in 1 .. Len(frame), j \in 1 .. Len(frame) + 1 :
            /\ SubSeq(frame, 1, i - 1) \in Seq(Bytes)
            /\ SubSeq(frame, j, Len(frame)) \in Seq(Bytes)
        BY <2>2, SubSeqProperties
    <2>4. \A i \in DOMAIN frame, byte \in Bytes : [frame EXCEPT ![i] = byte] \in Seq(Bytes)
        BY <2>2, ExceptSeq
    <2>5. ASSUME NEW i \in DOMAIN frame, NEW byte \in Bytes
          PROVE  InsertAt(frame, i, byte) \in Seq(Bytes)
        <3>1. PICK a \in Seq(Bytes), b \in Seq(Bytes), one \in Seq(Bytes) :
                    /\ a = SubSeq(frame, 1, i - 1) /\ b = SubSeq(frame, i, Len(frame))
                    /\ one = <<byte>>
            <4>1. i \in 1 .. Len(frame) /\ i \in 1 .. Len(frame) + 1 /\ <<byte>> \in Seq(Bytes)
                BY <2>2
            <4> QED  BY <2>3, <4>1
        <3>2. (a \o one) \o b \in Seq(Bytes)
            OBVIOUS
        <3> QED  BY <3>1, <3>2 DEF InsertAt
    <2>6. ASSUME NEW i \in DOMAIN frame, NEW j \in DOMAIN frame \cup {Len(frame) + 1}
          PROVE  Cut(frame, i, j) \in Seq(Bytes)
        <3>1. i \in 1 .. Len(frame) /\ j \in 1 .. Len(frame) + 1
            BY <2>2
        <3> QED  BY <2>3, <3>1, ConcatProperties DEF Cut
    <2>7. \/ sent \in {[frame EXCEPT ![i] = byte] : i \in DOMAIN frame, byte \in Bytes}
          \/ sent \in {InsertAt(frame, i, byte) : i \in DOMAIN frame, byte \in Bytes}
          \/ sent \in {Cut(frame, i, j) :
                        i \in DOMAIN frame, j \in DOMAIN frame \cup {Len(frame) + 1}}
        BY <1>3, <2>1 DEF Garbled
    <2>8. CASE sent \in {[frame EXCEPT ![i] = byte] : i \in DOMAIN frame, byte \in Bytes}
        BY <2>4, <2>8
    <2>9. CASE sent \in {InsertAt(frame, i, byte) : i \in DOMAIN frame, byte \in Bytes}
        BY <2>5, <2>9
    <2>10. CASE sent \in {Cut(frame, i, j) :
                        i \in DOMAIN frame, j \in DOMAIN frame \cup {Len(frame) + 1}}
        BY <2>6, <2>10
    <2> QED  BY <2>7, <2>8, <2>9, <2>10
<1> QED  BY <1>1, <1>2, <1>3

LEMMA HeadOfJoin ==
    ASSUME NEW x \in Bytes, NEW rest \in Seq(Bytes), NEW seq, seq = <<x>> \o rest
    PROVE  seq # <<>> /\ Head(seq) = x /\ Tail(seq) = rest
OBVIOUS

LEMMA TypeInit == Init => TypeInv
<1> SUFFICES ASSUME Init PROVE TypeInv
    OBVIOUS
<1>1. 0 \in Bytes /\ <<>> \in Seq(Bytes) /\ Len(<<>>) <= 0
    BY ByteAssumption DEF Bytes, Stuffed
<1>2. wire \in Seq(Bytes)
    BY SerializedForm DEF Init
<1>3. packets \in Results /\ due \in Results
    BY DEF Init, Results
<1> QED  BY <1>1, <1>2, <1>3 DEF Init, TypeInv, TypeOK, Results

LEMMA TakeTypes ==
    ASSUME TypeInv, NEW value \in Bytes, Take(value)
    PROVE  /\ state' \in States /\ escaped' = FALSE
           /\ length' \in Bytes /\ type' \in Bytes /\ frame_checksum' \in Bytes
           /\ data' \in Seq(Bytes) /\ Len(data') <= length'
           /\ (state' = "LENGTH" => data' = <<>>) /\ (state' = "DATA" => Len(data') < length')
           /\ packets' \in Results /\ raised' \in BOOLEAN
<1>1. /\ 0 \in Bytes /\ <<>> \in Seq(Bytes) /\ Len(<<>>) = 0
      /\ \A byte \in Bytes : byte \in Nat
    BY ByteAssumption DEF Bytes, Stuffed
<1>2. /\ state \in States /\ length \in Bytes /\ type \in Bytes /\ frame_checksum \in Bytes
      /\ data \in Seq(Bytes) /\ Len(data) <= length /\ Len(data) \in Nat /\ length \in Nat
      /\ packets \in Results /\ raised \in BOOLEAN
    BY <1>1, LenProperties DEF TypeInv, TypeOK, States, Results
<1>3. CASE state = "LENGTH" /\ length' = value /\ Goto("TYPE")
           /\ UNCHANGED <<type, data, frame_checksum, call>>
    BY <1>1, <1>2, <1>3 DEF Goto, States, TypeInv, call
<1>4. CASE state = "TYPE" /\ type' = value /\ data' = <<>>
           /\ Goto(IF length = 0 THEN "CHECKSUM" ELSE "DATA")
           /\ UNCHANGED <<length, frame_checksum, call>>
    BY <1>1, <1>2, <1>4 DEF Goto, States, call
<1>5. CASE state = "DATA" /\ data' = Append(data, value)
           /\ Goto(IF IsLastByte THEN "CHECKSUM" ELSE "DATA")
           /\ UNCHANGED <<length, type, frame_checksum, call>>
    <2>1. data' \in Seq(Bytes) /\ Len(data') = Len(data) + 1
        BY <1>2, <1>5, AppendProperties
    <2>2. Len(data) < length
        BY <1>5 DEF TypeInv
    <2>3. Len(data') <= length' /\ (~IsLastByte => Len(data') < length')
        BY <1>2, <1>5, <2>1, <2>2 DEF IsLastByte
    <2>4. /\ state' \in {"CHECKSUM", "DATA"} /\ (state' = "DATA" => ~IsLastByte)
          /\ escaped' = FALSE
        BY <1>5 DEF Goto
    <2>5. packets' \in Results /\ raised' \in BOOLEAN
        BY <1>2, <1>5 DEF call
    <2> QED  BY <1>2, <1>5, <2>1, <2>3, <2>4, <2>5 DEF States
<1>6. CASE state = "CHECKSUM" /\ frame_checksum' = value /\ Goto("EOF")
           /\ UNCHANGED <<length, type, data, call>>
    BY <1>2, <1>6 DEF Goto, States, call
<1>7. CASE state = "EOF" /\ value = EOF /\ _finish_frame
    <2>1. Append(packets, [type |-> type, data |-> data]) \in Results /\ <<>> \in Results
        BY <1>2, AppendProperties DEF Results
    <2>2. packets' \in Results /\ raised' \in BOOLEAN
        BY <1>2, <1>7, <2>1 DEF _finish_frame, call
    <2>3. \/ Clear("WAIT_SOF")
          \/ Goto("EOF") /\ UNCHANGED fields
        BY <1>7 DEF _finish_frame
    <2>4. CASE Clear("WAIT_SOF")
        BY <1>1, <2>2, <2>4 DEF Clear, States
    <2>5. CASE Goto("EOF") /\ UNCHANGED fields
        BY <1>2, <2>2, <2>5 DEF Goto, States, fields
    <2> QED  BY <2>3, <2>4, <2>5
<1>8. CASE state = "EOF" /\ value # EOF /\ Goto("EOF") /\ UNCHANGED <<fields, call>>
    BY <1>2, <1>8 DEF Goto, States, fields, call
<1> QED  BY <1>3, <1>4, <1>5, <1>6, <1>7, <1>8 DEF Take

LEMMA OweTypes ==
    ASSUME TypeInv, packets' \in Results, Owe
    PROVE  due' \in Results
<1>1. packet \in [type : Bytes, data : Seq(Bytes)]
    BY PacketProperties DEF TypeInv, TypeOK
<1>2. due \in Results
    BY DEF TypeInv, TypeOK, Results
<1>3. Append(due, packet) \in Results
    BY <1>1, <1>2, AppendProperties DEF Results
<1> QED  BY <1>2, <1>3 DEF Owe

LEMMA TypeStep == TypeInv /\ [Next]_vars => TypeInv'
<1> SUFFICES ASSUME TypeInv, [Next]_vars
             PROVE  TypeInv'
    OBVIOUS
<1>0. packets \in Results /\ due \in Results /\ <<>> \in Results
    BY DEF TypeInv, TypeOK, Results
<1>1. ASSUME NEW p \in Packets, Send(p)
      PROVE  TypeInv'
    <2>1. /\ UNCHANGED <<strict_checksum, state, escaped, length, type, data, frame_checksum>>
          /\ UNCHANGED <<packets, raised, due>>
        BY <1>1 DEF Send, parser, fields, call
    <2>2. wire' = serialize(p) \/ wire' \in Misread(p) \/ wire' \in Garbled(p)
        BY <1>1 DEF Send, Sent
    <2>3. wire' \in Seq(Bytes)
        BY <2>2, SentBytes
    <2>4. /\ packet' \in Packets /\ damage' \in {"none", "misread", "garbled"}
          /\ dangling' = escaped /\ dropped' = FALSE
        BY <1>1 DEF Send, Sent
    <2> QED  BY <2>1, <2>3, <2>4 DEF TypeInv, TypeOK
<1>2. CASE Feed
    <2>1. Head(wire) \in Bytes /\ wire' \in Seq(Bytes)
        BY <1>2, HeadTailProperties DEF Feed, TypeInv, TypeOK
    <2>2. UNCHANGED <<strict_checksum, packet, damage, dangling, dropped>>
        BY <1>2 DEF Feed, line
    <2>3. /\ 0 \in Bytes /\ <<>> \in Seq(Bytes) /\ Len(<<>>) = 0
        BY ByteAssumption DEF Bytes, Stuffed
    <2>4. ASSUME packets' \in Results
          PROVE  {packets', due'} \subseteq Results
        BY <1>2, <2>4, OweTypes DEF Feed
    <2>5. ASSUME UNCHANGED call
          PROVE  packets' \in Results /\ raised' = raised
        BY <1>0, <2>5 DEF call
    <2>6. CASE StartsFrame(Head(wire)) /\ Clear("LENGTH") /\ UNCHANGED call
        <3>1. /\ state' = "LENGTH" /\ length' = 0 /\ type' = 0 /\ data' = <<>>
              /\ frame_checksum' = 0 /\ escaped' \in BOOLEAN
            BY <2>6 DEF Clear
        <3>2. raised' = raised /\ {packets', due'} \subseteq Results
            BY <2>4, <2>5, <2>6
        <3> QED  BY <2>1, <2>2, <2>3, <3>1, <3>2 DEF TypeInv, TypeOK, Results
    <2>7. CASE UNCHANGED <<parser, call>>
        <3>1. raised' = raised /\ {packets', due'} \subseteq Results
            BY <2>4, <2>5, <2>7
        <3> QED  BY <2>1, <2>2, <2>7, <3>1 DEF parser, fields, TypeInv, TypeOK, Results
    <2>8. CASE escaped' = TRUE /\ UNCHANGED <<state, fields, call>>
        <3>1. UNCHANGED <<state, length, type, data, frame_checksum>> /\ escaped' \in BOOLEAN
            BY <2>8 DEF fields
        <3>2. raised' = raised /\ {packets', due'} \subseteq Results
            BY <2>4, <2>5, <2>8
        <3> QED  BY <2>1, <2>2, <3>1, <3>2 DEF TypeInv, TypeOK, Results
    <2>9. CASE Take(Head(wire))
        <3>1. packets' \in Results /\ raised' \in BOOLEAN
            BY <2>1, <2>9, TakeTypes
        <3>2. {packets', due'} \subseteq Results
            BY <2>4, <3>1
        <3> QED  BY <2>1, <2>2, <2>9, <3>1, <3>2, TakeTypes DEF TypeInv, TypeOK, States, Results
    <2> QED  BY <1>2, <2>6, <2>7, <2>8, <2>9 DEF Feed, feed
<1>3. CASE Drop
    <2>1. wire' \in Seq(Bytes)
        BY <1>3, HeadTailProperties DEF Drop, TypeInv, TypeOK
    <2>2. /\ UNCHANGED <<strict_checksum, state, escaped, length, type, data, frame_checksum>>
          /\ UNCHANGED <<packets, raised, due, packet, damage, dangling>> /\ dropped' = TRUE
        BY <1>3 DEF Drop, parser, fields, call, line
    <2> QED  BY <2>1, <2>2 DEF TypeInv, TypeOK
<1>4. CASE feed_many
    <2>1. /\ UNCHANGED <<strict_checksum, state, escaped, length, type, data, frame_checksum>>
          /\ UNCHANGED <<wire, packet, damage, dangling, dropped>>
          /\ packets' = <<>> /\ due' = <<>> /\ raised' = FALSE
        BY <1>4 DEF feed_many, parser, fields, line
    <2>2. {packets', due'} \subseteq Results
        BY <1>0, <2>1
    <2> QED  BY <2>1, <2>2 DEF TypeInv, TypeOK, Results
<1>5. CASE UNCHANGED vars
    BY <1>5 DEF vars, parser, fields, call, line, TypeInv, TypeOK
<1> QED  BY <1>1, <1>2, <1>3, <1>4, <1>5 DEF Next

\* Every variable of the parser and of the line keeps its type, and the payload
\* that feed() collects never outgrows the length that its frame announces.
THEOREM ParserTypeCorrect == Spec => []TypeOK
<1>1. TypeInv => TypeOK
    BY DEF TypeInv
<1> QED  BY <1>1, TypeInit, TypeStep, PTL DEF Spec

-----------------------------------------------------------------------------
(* The parser is in step again after an undamaged frame *)

LEMMA TakeUnescapes ==
    ASSUME NEW value, Take(value)
    PROVE  escaped' = FALSE
BY DEF Take, Goto, Clear, _finish_frame

\* The end of a frame is read by a parser that an escape byte may not reach.
Ends(frame) == frame # <<>> /\ frame[Len(frame)] = EOF

InStep ==
    /\ TypeInv
    /\ (state = "WAIT_SOF" => ~escaped) /\ (raised => ~escaped)
    /\ damage # "garbled" => IF wire = <<>> THEN ~escaped ELSE Ends(wire)

\* A frame as it was sent, or with a misread byte, is the frame of some body.
LEMMA SentFrame ==
    ASSUME NEW p \in Packets, NEW sent, sent = serialize(p) \/ sent \in Misread(p)
    PROVE  \E body \in Seq(Bytes) : sent = Frame(p, body)
BY SerializedForm, PacketProperties, MisreadForm

LEMMA RestOfFrame ==
    ASSUME NEW values \in Seq(Bytes)
    PROVE  /\ StuffAll(values) \o <<EOF>> \in Seq(Bytes)
           /\ values = <<>> => StuffAll(values) \o <<EOF>> = <<EOF>>
           /\ values # <<>> =>
                /\ Head(values) \notin Stuffed =>
                        StuffAll(values) \o <<EOF>>
                            = <<Head(values)>> \o (StuffAll(Tail(values)) \o <<EOF>>)
                /\ Head(values) \in Stuffed =>
                        StuffAll(values) \o <<EOF>>
                            = <<ESC>> \o (<<Head(values)>> \o (StuffAll(Tail(values)) \o <<EOF>>))
<1>1. PICK eof \in Seq(Bytes), stuffed \in Seq(Bytes) : eof = <<EOF>> /\ stuffed = StuffAll(values)
    BY Delimiters, StuffType
<1>2. stuffed \o eof \in Seq(Bytes)
    OBVIOUS
<1>3. ASSUME values = <<>>
      PROVE  StuffAll(values) \o <<EOF>> = <<EOF>>
    <2>1. stuffed = <<>>
        BY <1>1, <1>3, StuffEmpty
    <2>2. stuffed \o eof = eof
        BY <2>1, ConcatEmptySeq
    <2> QED  BY <1>1, <2>2
<1>4. ASSUME values # <<>>
      PROVE  /\ Head(values) \notin Stuffed =>
                        StuffAll(values) \o <<EOF>>
                            = <<Head(values)>> \o (StuffAll(Tail(values)) \o <<EOF>>)
             /\ Head(values) \in Stuffed =>
                        StuffAll(values) \o <<EOF>>
                            = <<ESC>> \o (<<Head(values)>> \o (StuffAll(Tail(values)) \o <<EOF>>))
    <2>1. PICK x \in Bytes, rest \in Seq(Bytes) :
                /\ x = Head(values) /\ rest = StuffAll(Tail(values))
                /\ stuffed = append_stuffed(x) \o rest
        <3>1. /\ Head(values) \in Bytes /\ Tail(values) \in Seq(Bytes)
              /\ stuffed = append_stuffed(Head(values)) \o StuffAll(Tail(values))
            BY <1>1, <1>4, StuffFirst
        <3>2. StuffAll(Tail(values)) \in Seq(Bytes)
            BY <3>1, StuffType
        <3> QED  BY <3>1, <3>2
    <2>2. PICK one \in Seq(Bytes), esc \in Seq(Bytes) : one = <<x>> /\ esc = <<ESC>>
        BY ByteConstants, OneByte
    <2>3. ASSUME x \notin Stuffed
          PROVE  stuffed \o eof = one \o (rest \o eof)
        <3>1. append_stuffed(x) = one
            BY <2>2, <2>3 DEF append_stuffed
        <3>2. (one \o rest) \o eof = one \o (rest \o eof)
            BY SMTT(30)
        <3> QED  BY <2>1, <3>1, <3>2
    <2>4. ASSUME x \in Stuffed
          PROVE  stuffed \o eof = esc \o (one \o (rest \o eof))
        <3>1. <<ESC, x>> = <<ESC>> \o <<x>>
            OBVIOUS
        <3>2. append_stuffed(x) = esc \o one
            BY <2>2, <2>4, <3>1 DEF append_stuffed
        <3>3. ((esc \o one) \o rest) \o eof = esc \o (one \o (rest \o eof))
            BY SMTT(30)
        <3> QED  BY <2>1, <3>2, <3>3
    <2> QED  BY <1>1, <2>1, <2>2, <2>3, <2>4
<1> QED  BY <1>1, <1>2, <1>3, <1>4

LEMMA FrameParts ==
    ASSUME NEW p \in Packets, NEW body \in Seq(Bytes)
    PROVE  \E values \in Seq(Bytes) :
              /\ values = <<Len(p.data), p.type>> \o body
              /\ Frame(p, body) = <<SOF>> \o (StuffAll(values) \o <<EOF>>)
<1>1. PICK two \in Seq(Bytes) : two = <<Len(p.data), p.type>>
    BY PacketProperties
<1>2. two \o body \in Seq(Bytes)
    OBVIOUS
<1> QED  BY <1>1, <1>2 DEF Frame

\* A byte that does not escape leaves no parser escaped.
LEMMA FeedUnescapes ==
    ASSUME state = "WAIT_SOF" => ~escaped, escaped \in BOOLEAN,
           NEW value, feed(value), ~Escapes(value)
    PROVE  escaped' = FALSE
<1>1. CASE StartsFrame(value) /\ Clear("LENGTH")
    BY <1>1 DEF Clear
<1>2. CASE state = "WAIT_SOF" /\ UNCHANGED <<parser, call>>
    BY <1>2 DEF parser
<1>3. CASE Take(value)
    BY <1>3, TakeUnescapes
<1> QED  BY <1>1, <1>2, <1>3 DEF feed

LEMMA EndOfJoin ==
    ASSUME NEW rest \in Seq(Bytes)
    PROVE  rest \o <<EOF>> \in Seq(Bytes) /\ Ends(rest \o <<EOF>>)
<1>1. PICK frame \in Seq(Bytes) : frame = Append(rest, EOF) /\ frame = rest \o <<EOF>>
    BY ByteConstants, AppendProperties, AppendIsConcat
<1>2. Len(frame) = Len(rest) + 1 /\ frame[Len(rest) + 1] = EOF /\ frame # <<>>
    BY <1>1, ByteConstants, AppendProperties
<1> QED  BY <1>1, <1>2 DEF Ends

LEMMA EndOfFrame ==
    ASSUME NEW p \in Packets, NEW body \in Seq(Bytes)
    PROVE  Ends(Frame(p, body))
<1>1. PICK rest \in Seq(Bytes) : rest = Header(p) \o StuffAll(body)
    BY FrameForm, StuffType, ConcatProperties
<1>2. Frame(p, body) = rest \o <<EOF>>
    BY <1>1, FrameForm
<1> QED  BY <1>1, <1>2, EndOfJoin

LEMMA EndOfTail ==
    ASSUME NEW frame \in Seq(Bytes), Ends(frame)
    PROVE  IF Tail(frame) = <<>> THEN Head(frame) = EOF ELSE Ends(Tail(frame))
<1>1. /\ Len(frame) \in Nat /\ Len(frame) # 0 /\ Tail(frame) \in Seq(Bytes)
      /\ Len(Tail(frame)) = Len(frame) - 1
      /\ \A i \in 1 .. Len(Tail(frame)) : Tail(frame)[i] = frame[i + 1]
    BY LenProperties, HeadTailProperties, EmptySeq DEF Ends
<1>2. CASE Tail(frame) = <<>>
    <2>1. Len(frame) - 1 = 0
        BY <1>1, <1>2, EmptySeq
    <2> QED  BY <1>2, <2>1 DEF Ends
<1>3. CASE Tail(frame) # <<>>
    <2>1. Len(Tail(frame)) # 0
        BY <1>1, <1>3, EmptySeq
    <2>2. Tail(frame)[Len(Tail(frame))] = frame[Len(frame)]
        BY <1>1, <2>1
    <2> QED  BY <1>3, <2>2 DEF Ends
<1> QED  BY <1>2, <1>3

\* A strict parser that raises has read the last byte of a frame.
LEMMA RaiseUnescapes ==
    ASSUME NEW value, feed(value), raised = FALSE, raised' = TRUE
    PROVE  escaped' = FALSE
<1>1. CASE Take(value)
    BY <1>1, TakeUnescapes
<1>2. CASE UNCHANGED call
    BY <1>2 DEF call
<1> QED  BY <1>1, <1>2 DEF feed

LEMMA InStepInit == Init => InStep
<1> SUFFICES ASSUME Init PROVE InStep
    OBVIOUS
<1>1. packet \in Packets /\ wire = serialize(packet) /\ escaped = FALSE
    BY DEF Init
<1>2. Ends(wire)
    BY <1>1, SerializedForm, PacketProperties, EndOfFrame
<1> QED  BY <1>1, <1>2, TypeInit DEF InStep, Ends

LEMMA InStepStep == InStep /\ [Next]_vars => InStep'
<1> SUFFICES ASSUME InStep, [Next]_vars
             PROVE  InStep'
    OBVIOUS
<1>0. TypeInv /\ TypeInv' /\ wire \in Seq(Bytes) /\ escaped \in BOOLEAN
    BY TypeStep DEF InStep, TypeInv, TypeOK
<1>1. ASSUME NEW p \in Packets, Send(p)
      PROVE  InStep'
    <2>1. UNCHANGED <<state, escaped, raised>>
        BY <1>1 DEF Send, parser, call
    <2>2. damage' = "garbled" \/ wire' = serialize(p) \/ wire' \in Misread(p)
        BY <1>1 DEF Send, Sent
    <2>3. damage' # "garbled" => \E body \in Seq(Bytes) : wire' = Frame(p, body)
        BY <2>2, SentFrame
    <2>4. damage' # "garbled" => Ends(wire')
        BY <2>3, EndOfFrame
    <2>5. damage' # "garbled" => IF wire' = <<>> THEN ~escaped' ELSE Ends(wire')
        BY <2>4 DEF Ends
    <2>6. (state' = "WAIT_SOF" => ~escaped') /\ (raised' => ~escaped')
        BY <2>1 DEF InStep
    <2> QED  BY <1>0, <2>5, <2>6 DEF InStep, Ends
<1>2. CASE Feed
    <2>1. /\ wire # <<>> /\ feed(Head(wire)) /\ wire' = Tail(wire) /\ ~raised
          /\ damage' = damage
        BY <1>2 DEF Feed, line
    <2>2. state' = "WAIT_SOF" => ~escaped'
        <3>1. CASE Clear("LENGTH")
            BY <3>1 DEF Clear
        <3>2. CASE UNCHANGED parser
            BY <3>2 DEF InStep, parser
        <3>3. CASE Escapes(Head(wire)) /\ state' = state
            BY <3>3 DEF Escapes
        <3>4. CASE Take(Head(wire))
            BY <3>4, TakeUnescapes
        <3> QED  BY <2>1, <3>1, <3>2, <3>3, <3>4 DEF feed
    <2>3. raised' => ~escaped'
        <3>1. raised = FALSE /\ raised' \in BOOLEAN
            BY <1>0, <2>1 DEF TypeInv, TypeOK
        <3> QED  BY <2>1, <3>1, RaiseUnescapes
    <2>4. ASSUME damage # "garbled"
          PROVE  IF wire' = <<>> THEN ~escaped' ELSE Ends(wire')
        <3>1. IF Tail(wire) = <<>> THEN Head(wire) = EOF ELSE Ends(Tail(wire))
            BY <1>0, <2>1, <2>4, EndOfTail DEF InStep
        <3>2. Tail(wire) = <<>> => escaped' = FALSE
            <4>1. ~Escapes(EOF)
                BY ByteConstants DEF Escapes
            <4> QED  BY <1>0, <2>1, <3>1, <4>1, FeedUnescapes DEF InStep
        <3> QED  BY <2>1, <3>1, <3>2
    <2>5. damage' # "garbled" => IF wire' = <<>> THEN ~escaped' ELSE Ends(wire')
        BY <2>1, <2>4
    <2> QED  BY <1>0, <2>2, <2>3, <2>5 DEF InStep, Ends
<1>3. CASE Drop
    <2>1. /\ wire # <<>> /\ wire' = Tail(wire) /\ raised
          /\ UNCHANGED <<state, escaped, raised, damage>>
        BY <1>3 DEF Drop, parser, call, line
    <2>2. ~escaped'
        BY <2>1 DEF InStep
    <2>3. damage # "garbled" => (wire' # <<>> => Ends(wire'))
        BY <1>0, <2>1, EndOfTail DEF InStep
    <2>4. damage' # "garbled" => IF wire' = <<>> THEN ~escaped' ELSE Ends(wire')
        BY <2>1, <2>2, <2>3
    <2> QED  BY <1>0, <2>2, <2>4 DEF InStep, Ends
<1>4. CASE feed_many
    <2>1. UNCHANGED <<state, escaped, wire, damage>> /\ raised' = FALSE
        BY <1>4 DEF feed_many, parser, line
    <2> QED  BY <1>0, <2>1 DEF InStep, Ends
<1>5. CASE UNCHANGED vars
    <2>1. UNCHANGED <<state, escaped, raised, wire, damage>>
        BY <1>5 DEF vars, parser, call, line
    <2> QED  BY <1>0, <2>1 DEF InStep, Ends
<1> QED  BY <1>1, <1>2, <1>3, <1>4, <1>5 DEF Next

\* No undamaged frame leaves the parser escaped, whatever the frames before it
\* did to it, and though an error may have taken some of its bytes: feed() is in
\* step again with the next one.
THEOREM InStepAgain == Spec => []IntactFrameResynchronises
<1>1. InStep => IntactFrameResynchronises
    BY DEF InStep, IntactFrameResynchronises
<1> QED  BY <1>1, InStepInit, InStepStep, PTL DEF Spec

-----------------------------------------------------------------------------
(* An undamaged packet is delivered, a misread one is not *)

\* The values that are still to come of a frame; of the first one the parser
\* may have read the escape byte.
Coming(values) ==
    \/ ~escaped /\ wire = StuffAll(values) \o <<EOF>>
    \/ /\ escaped /\ values # <<>> /\ Head(values) \in Stuffed
       /\ wire = <<Head(values)>> \o (StuffAll(Tail(values)) \o <<EOF>>)

\* Where the parser is in the frame, and what it has collected of the body.
Parsed(body, values) ==
    \/ state = "LENGTH" /\ values = <<Len(packet.data), packet.type>> \o body
    \/ state = "TYPE" /\ length = Len(packet.data) /\ values = <<packet.type>> \o body
    \/ /\ length = Len(packet.data) /\ type = packet.type
       /\ \/ state = "DATA" /\ Len(data) < length /\ data \o values = body
          \/ state = "CHECKSUM" /\ Len(data) = length /\ data \o values = body
          \/ /\ state = "EOF" /\ Len(data) = length
             /\ values = <<>> /\ Append(data, frame_checksum) = body

\* The body of the frame on the line.
Arriving(body) ==
    /\ body \in Seq(Bytes) /\ Len(body) = Len(packet.data) + 1
    /\ IF damage = "none" THEN body = Body(packet) ELSE Differs(packet, body)

Progress(body) ==
    \/ ~escaped /\ wire = Frame(packet, body)
    \/ \E values \in Seq(Bytes) : Coming(values) /\ Parsed(body, values)
    \/ ~escaped /\ wire = <<>>

ParseInv ==
    /\ TypeInv
    /\ packets = due
    /\ damage # "garbled" /\ Whole => \E body : Arriving(body) /\ Progress(body)

\* What a byte of the frame does to the result of the call.
Outcome ==
    \/ wire' # <<>> /\ packets' = packets
    \/ wire' = <<>> /\ damage = "none" /\ packets' = Append(packets, packet)
    \/ wire' = <<>> /\ damage = "misread" /\ packets' \in {packets, <<>>}

LEMMA BodyOfFrame ==
    ASSUME NEW p \in Packets, NEW body, body = Body(p) \/ Differs(p, body)
    PROVE  body \in Seq(Bytes) /\ Len(body) = Len(p.data) + 1
<1>1. Body(p) \in Seq(Bytes) /\ Len(Body(p)) = Len(p.data) + 1
    BY PacketProperties
<1>2. CASE Differs(p, body)
    <2>1. PICK k \in 1 .. Len(Body(p)), byte \in Bytes : body = Put(Body(p), k, byte)
        BY <1>2 DEF Differs
    <2>2. PICK whole \in Seq(Bytes) : whole = Body(p)
        BY <1>1
    <2>3. Put(whole, k, byte) \in Seq(Bytes) /\ Len(Put(whole, k, byte)) = Len(whole)
        BY <2>2, PutProperties
    <2> QED  BY <1>1, <2>1, <2>2, <2>3
<1> QED  BY <1>1, <1>2

\* What the checksum tells of the body that the parser has collected.
LEMMA ChecksumDecides ==
    ASSUME NEW p \in Packets, NEW payload \in Seq(Bytes), NEW sum \in Bytes,
           Len(payload) = Len(p.data)
    PROVE  /\ Append(payload, sum) = Body(p) =>
                    payload = p.data /\ sum = checksum(p.type, payload)
           /\ Differs(p, Append(payload, sum)) => checksum(p.type, payload) # sum
<1>1. PICK old \in Seq(Bytes), size \in Nat, right \in Bytes :
            old = p.data /\ size = Len(old) /\ right = checksum(p.type, old)
    BY PacketProperties, ChecksumType, LenProperties
<1>2. PICK whole \in Seq(Bytes) : whole = Append(old, right)
    BY AppendProperties
<1>3. Body(p) = whole
    BY <1>1, <1>2, AppendIsConcat DEF Body
<1>4. PICK body \in Seq(Bytes) : body = Append(payload, sum)
    BY AppendProperties
<1>5. /\ Len(payload) = size /\ Len(whole) = size + 1 /\ Len(body) = size + 1
      /\ \A k \in 1 .. size : whole[k] = old[k] /\ body[k] = payload[k]
      /\ whole[size + 1] = right /\ body[size + 1] = sum
    BY <1>1, <1>2, <1>4, AppendProperties
<1>6. ASSUME body = whole
      PROVE  payload = old /\ sum = right
    <2>1. \A k \in 1 .. Len(old) : payload[k] = old[k]
        BY <1>1, <1>5, <1>6
    <2>2. payload = old
        BY <1>1, <1>5, <2>1, SeqEqual
    <2> QED  BY <1>5, <1>6, <2>2
<1>7. ASSUME Differs(p, body)
      PROVE  checksum(p.type, payload) # sum
    <2>1. PICK k \in 1 .. Len(whole), byte \in Bytes : byte # whole[k] /\ body = Put(whole, k, byte)
        BY <1>3, <1>7 DEF Differs
    <2>2. \A j \in 1 .. size + 1 : body[j] = IF j = k THEN byte ELSE whole[j]
        <3>1. \A j \in 1 .. Len(whole) : Put(whole, k, byte)[j] = IF j = k THEN byte ELSE whole[j]
            BY DEF Put
        <3> QED  BY <1>5, <2>1, <3>1
    <2>3. p.type \in Bytes
        BY PacketProperties
    <2>4. CASE k \in 1 .. size
        <3>1. PICK changed \in Seq(Bytes) :
                    /\ changed = Put(old, k, byte) /\ Len(changed) = size
                    /\ \A j \in 1 .. size : changed[j] = IF j = k THEN byte ELSE old[j]
            <4>1. k \in 1 .. Len(old)
                BY <1>1, <2>4
            <4>2. /\ Put(old, k, byte) \in Seq(Bytes) /\ Len(Put(old, k, byte)) = Len(old)
                  /\ \A j \in 1 .. Len(old) : Put(old, k, byte)[j] = IF j = k THEN byte ELSE old[j]
                BY <4>1, PutProperties
            <4> QED  BY <1>1, <4>2
        <3>2. \A j \in 1 .. size : payload[j] = changed[j]
            BY <1>5, <2>2, <3>1
        <3>3. payload = changed
            BY <1>5, <3>1, <3>2, SeqEqual
        <3>4. sum = right
            <4>1. size + 1 \in 1 .. size + 1 /\ size + 1 # k
                BY <2>4
            <4> QED  BY <1>5, <2>2, <4>1
        <3>5. byte # old[k] /\ k \in 1 .. Len(old)
            BY <1>1, <1>5, <2>1, <2>4
        <3>6. checksum(p.type, Put(old, k, byte)) # checksum(p.type, old)
            BY <2>3, <3>5, ChecksumOfPut
        <3> QED  BY <1>1, <3>1, <3>3, <3>4, <3>6
    <2>5. CASE k = size + 1
        <3>1. \A j \in 1 .. size : payload[j] = old[j]
            <4>1. \A j \in 1 .. size : j \in 1 .. size + 1 /\ j # k
                BY <2>5
            <4> QED  BY <1>5, <2>2, <4>1
        <3>2. payload = old
            BY <1>1, <1>5, <3>1, SeqEqual
        <3>3. sum = byte /\ byte # right
            <4>1. size + 1 \in 1 .. size + 1
                OBVIOUS
            <4> QED  BY <1>5, <2>1, <2>2, <2>5, <4>1
        <3> QED  BY <1>1, <3>2, <3>3
    <2> QED  BY <1>5, <2>4, <2>5
<1> QED  BY <1>1, <1>3, <1>4, <1>6, <1>7

LEMMA ComingStep ==
    ASSUME TypeInv, NEW values \in Seq(Bytes), values # <<>>, Coming(values),
           state # "WAIT_SOF", Feed
    PROVE  \/ Coming(values)' /\ UNCHANGED <<state, fields, call>>
           \/ Coming(Tail(values))' /\ Take(Head(values))
<1>1. wire # <<>> /\ feed(Head(wire)) /\ wire' = Tail(wire) /\ escaped \in BOOLEAN
    BY DEF Feed, TypeInv, TypeOK
<1>2. PICK x \in Bytes, rest \in Seq(Bytes), after \in Seq(Bytes) :
            x = Head(values) /\ rest = Tail(values) /\ after = StuffAll(rest) \o <<EOF>>
    BY StuffFirst, RestOfFrame
<1>3. ASSUME wire = <<x>> \o after, ~StartsFrame(x), ~Escapes(x)
      PROVE  Coming(rest)' /\ Take(x)
    <2>1. Head(wire) = x /\ wire' = after
        BY <1>1, <1>3, HeadOfJoin
    <2>2. Take(x)
        BY <1>1, <1>3, <2>1 DEF feed
    <2> QED  BY <1>2, <2>1, <2>2, TakeUnescapes DEF Coming
<1>4. CASE ~escaped /\ wire = StuffAll(values) \o <<EOF>>
    <2>1. CASE x \notin Stuffed
        <3>1. wire = <<x>> \o after
            BY <1>2, <1>4, <2>1, RestOfFrame
        <3>2. ~StartsFrame(x) /\ ~Escapes(x)
            BY <2>1 DEF StartsFrame, Escapes, Stuffed
        <3> QED  BY <1>2, <1>3, <3>1, <3>2
    <2>2. CASE x \in Stuffed
        <3>1. PICK pair \in Seq(Bytes) : pair = <<x>> \o after
            BY OneByte, ConcatProperties
        <3>2. wire = <<ESC>> \o pair
            BY <1>2, <1>4, <2>2, <3>1, RestOfFrame
        <3>3. Head(wire) = ESC /\ wire' = pair
            BY <1>1, <3>2, ByteConstants, HeadOfJoin
        <3>4. ~StartsFrame(ESC) /\ Escapes(ESC)
            BY <1>4, ByteConstants DEF StartsFrame, Escapes
        <3>5. escaped' = TRUE /\ UNCHANGED <<state, fields, call>>
            BY <1>1, <3>3, <3>4 DEF feed
        <3> QED  BY <1>2, <2>2, <3>1, <3>3, <3>5 DEF Coming
    <2> QED  BY <2>1, <2>2
<1>5. CASE /\ escaped /\ Head(values) \in Stuffed
           /\ wire = <<Head(values)>> \o (StuffAll(Tail(values)) \o <<EOF>>)
    <2>1. ~StartsFrame(x) /\ ~Escapes(x)
        BY <1>5 DEF StartsFrame, Escapes
    <2> QED  BY <1>2, <1>3, <1>5, <2>1
<1> QED  BY <1>4, <1>5 DEF Coming

LEMMA ParseTake ==
    ASSUME TypeInv, NEW body \in Seq(Bytes), Len(body) = Len(packet.data) + 1,
           NEW values \in Seq(Bytes), values # <<>>, Parsed(body, values), packet \in Packets,
           Take(Head(values)), packet' = packet
    PROVE  Parsed(body, Tail(values))' /\ call' = call
<1>1. PICK x \in Bytes, rest \in Seq(Bytes) :
            x = Head(values) /\ rest = Tail(values) /\ values = <<x>> \o rest
    BY StuffFirst
<1>2. /\ data \in Seq(Bytes) /\ Len(data) \in Nat /\ length \in Nat
      /\ packet.type \in Bytes /\ packet.data \in Seq(Bytes) /\ Len(packet.data) \in Bytes
      /\ Len(packet.data) \in Nat /\ Len(values) \in Nat
    BY ByteConstants, PacketProperties, LenProperties DEF TypeInv, TypeOK
<1>3. CASE state = "LENGTH" /\ values = <<Len(packet.data), packet.type>> \o body
    <2>1. <<Len(packet.data), packet.type>> \o body
                = <<Len(packet.data)>> \o (<<packet.type>> \o body)
        <3>1. PICK n \in Bytes, t \in Bytes : n = Len(packet.data) /\ t = packet.type
            BY <1>2
        <3>2. PICK a \in Seq(Bytes), b \in Seq(Bytes) : a = <<n>> /\ b = <<t>>
            BY OneByte
        <3>3. <<n, t>> = <<n>> \o <<t>>
            BY TwoBytes
        <3>4. (a \o b) \o body = a \o (b \o body)
            BY Associative, SMTT(30)
        <3> QED  BY <3>1, <3>2, <3>3, <3>4
    <2>2. PICK one \in Seq(Bytes) : one = <<packet.type>>
        BY <1>2, OneByte
    <2>3. PICK after \in Seq(Bytes), n \in Bytes : after = one \o body /\ n = Len(packet.data)
        BY <1>2, ConcatProperties
    <2>4. x = Len(packet.data) /\ rest = <<packet.type>> \o body
        <3>1. values = <<n>> \o after
            BY <1>3, <2>1, <2>2, <2>3
        <3>2. Head(values) = n /\ Tail(values) = after
            BY <3>1, HeadOfJoin
        <3> QED  BY <1>1, <2>2, <2>3, <3>2
    <2>5. length' = x /\ state' = "TYPE" /\ call' = call
        BY <1>1, <1>3 DEF Take, Goto
    <2> QED  BY <1>1, <2>4, <2>5 DEF Parsed
<1>4. CASE state = "TYPE" /\ length = Len(packet.data) /\ values = <<packet.type>> \o body
    <2>1. x = packet.type /\ rest = body
        <3>1. PICK t \in Bytes : t = packet.type
            BY <1>2
        <3>2. values = <<t>> \o body
            BY <1>4, <3>1
        <3>3. Head(values) = t /\ Tail(values) = body
            BY <3>2, HeadOfJoin
        <3> QED  BY <1>1, <3>1, <3>3
    <2>2. /\ type' = x /\ data' = <<>> /\ UNCHANGED <<length, call>>
          /\ state' = IF length = 0 THEN "CHECKSUM" ELSE "DATA"
        BY <1>1, <1>4 DEF Take, Goto
    <2>3. Len(data') = 0 /\ data' \o rest = body
        BY <2>1, <2>2, ConcatEmptySeq
    <2>4. length' = Len(packet'.data) /\ type' = packet'.type /\ UNCHANGED call
        BY <1>4, <2>1, <2>2
    <2>5. CASE length = 0
        <3>1. state' = "CHECKSUM" /\ Len(data') = length'
            BY <2>2, <2>3, <2>5
        <3> QED  BY <1>1, <2>3, <2>4, <3>1 DEF Parsed
    <2>6. CASE length # 0
        <3>1. state' = "DATA" /\ Len(data') < length'
            BY <1>2, <2>2, <2>3, <2>6
        <3> QED  BY <1>1, <2>3, <2>4, <3>1 DEF Parsed
    <2> QED  BY <2>5, <2>6
<1>5. CASE /\ length = Len(packet.data) /\ type = packet.type /\ data \o values = body
           /\ state \in {"DATA", "CHECKSUM"}
    <2>1. PICK more \in Seq(Bytes) : more = Append(data, x)
        BY <1>2, AppendProperties
    <2>2. Len(more) = Len(data) + 1
        BY <1>2, <2>1, AppendProperties
    <2>3. more \o rest = body
        <3>1. PICK one \in Seq(Bytes) : one = <<x>>
            BY OneByte
        <3>2. more = data \o one
            BY <1>2, <2>1, <3>1, AppendIsConcat
        <3>3. PICK sofar \in Seq(Bytes) : sofar = data
            BY <1>2
        <3>4. (sofar \o one) \o rest = sofar \o (one \o rest)
            BY Associative
        <3> QED  BY <1>1, <1>5, <3>1, <3>2, <3>3, <3>4
    <2>4. CASE state = "DATA" /\ Len(data) < length
        <3>1. /\ data' = more /\ UNCHANGED <<length, type, call>>
              /\ state' = IF IsLastByte THEN "CHECKSUM" ELSE "DATA"
            BY <1>1, <2>1, <2>4 DEF Take, Goto
        <3>2. length' = Len(packet'.data) /\ type' = packet'.type /\ data' \o rest = body
            BY <1>5, <2>3, <3>1
        <3>3. CASE IsLastByte
            <4>1. Len(data') = length' /\ state' = "CHECKSUM"
                BY <1>2, <2>2, <2>4, <3>1, <3>3 DEF IsLastByte
            <4> QED  BY <1>1, <3>1, <3>2, <4>1 DEF Parsed
        <3>4. CASE ~IsLastByte
            <4>1. Len(data') < length' /\ state' = "DATA"
                BY <1>2, <2>2, <2>4, <3>1, <3>4 DEF IsLastByte
            <4> QED  BY <1>1, <3>1, <3>2, <4>1 DEF Parsed
        <3> QED  BY <3>3, <3>4
    <2>5. CASE state = "CHECKSUM" /\ Len(data) = length
        <3>1. /\ frame_checksum' = x /\ UNCHANGED <<length, type, data, call>>
              /\ state' = "EOF"
            BY <1>1, <2>5 DEF Take, Goto
        <3>2. Len(more) = Len(body)
            BY <1>2, <1>5, <2>2, <2>5
        <3>3. Len(rest) = 0
            <4>1. Len(body) = Len(more) + Len(rest)
                BY <2>3, ConcatProperties
            <4>2. Len(more) \in Nat /\ Len(rest) \in Nat
                BY LenProperties
            <4> QED  BY <3>2, <4>1, <4>2
        <3>4. rest = <<>>
            BY <3>3, EmptySeq
        <3>5. more = body
            BY <2>3, <3>4, ConcatEmptySeq
        <3>6. Append(data', frame_checksum') = body /\ Len(data') = length'
            BY <2>1, <2>5, <3>1, <3>5
        <3>7. length' = Len(packet'.data) /\ type' = packet'.type
            BY <1>5, <3>1
        <3> QED  BY <1>1, <3>1, <3>4, <3>6, <3>7 DEF Parsed
    <2> QED  BY <1>5, <2>4, <2>5 DEF Parsed
<1> QED  BY <1>3, <1>4, <1>5 DEF Parsed

\* The end of the frame comes when all of the body has been collected.
LEMMA ParsedAll ==
    ASSUME TypeInv, NEW body \in Seq(Bytes), Len(body) = Len(packet.data) + 1,
           packet \in Packets, Parsed(body, <<>>)
    PROVE  /\ state = "EOF" /\ type = packet.type /\ Len(data) = Len(packet.data)
           /\ Append(data, frame_checksum) = body
<1>1. /\ data \in Seq(Bytes) /\ Len(data) \in Nat /\ Len(packet.data) \in Nat
      /\ packet.type \in Bytes /\ Len(packet.data) \in Bytes
    BY PacketProperties, LenProperties DEF TypeInv, TypeOK
<1>2. <<Len(packet.data), packet.type>> \o body # <<>>
    <2>1. PICK two \in Seq(Bytes) : two = <<Len(packet.data), packet.type>>
        BY PacketProperties
    <2>2. Len(two) = 2 /\ Len(two \o body) = 2 + Len(body)
        BY <2>1, ConcatProperties
    <2> QED  BY <1>1, <2>1, <2>2
<1>3. <<packet.type>> \o body # <<>>
    BY <1>1, HeadOfJoin
<1>4. data \o <<>> = data
    BY <1>1, ConcatEmptySeq
<1>5. Len(data) <= length /\ length = Len(packet.data) => data # body
    BY <1>1
<1>6. Len(data) <= length
    BY DEF TypeInv, TypeOK
<1> QED  BY <1>2, <1>3, <1>4, <1>5, <1>6 DEF Parsed

LEMMA NotAtEnd ==
    ASSUME NEW values \in Seq(Bytes)
    PROVE  /\ StuffAll(values) \o <<EOF>> # <<>>
           /\ \A x \in Bytes : <<x>> \o (StuffAll(values) \o <<EOF>>) # <<>>
<1>1. PICK stuffed \in Seq(Bytes) : stuffed = StuffAll(values)
    BY StuffType
<1>2. PICK frame \in Seq(Bytes) : frame = stuffed \o <<EOF>> /\ frame # <<>>
    BY EndOfJoin DEF Ends
<1>3. \A x \in Bytes : <<x>> \o frame # <<>>
    BY HeadOfJoin
<1> QED  BY <1>1, <1>2, <1>3

LEMMA ComingMeansMore ==
    ASSUME NEW values \in Seq(Bytes), Coming(values)
    PROVE  wire # <<>>
<1>1. CASE wire = StuffAll(values) \o <<EOF>>
    BY <1>1, NotAtEnd
<1>2. CASE /\ values # <<>>
           /\ wire = <<Head(values)>> \o (StuffAll(Tail(values)) \o <<EOF>>)
    <2>1. Head(values) \in Bytes /\ Tail(values) \in Seq(Bytes)
        BY <1>2, StuffFirst
    <2> QED  BY <1>2, <2>1, NotAtEnd
<1> QED  BY <1>1, <1>2 DEF Coming

LEMMA ParseFeed ==
    ASSUME ParseInv, Feed, damage # "garbled", Whole
    PROVE  (\E body : Arriving(body)' /\ Progress(body)') /\ Outcome
<1>0. /\ TypeInv /\ packet \in Packets /\ escaped \in BOOLEAN
      /\ data \in Seq(Bytes) /\ frame_checksum \in Bytes
      /\ damage \in {"none", "misread"}
    BY DEF ParseInv, TypeInv, TypeOK
<1>1. /\ wire # <<>> /\ feed(Head(wire)) /\ wire' = Tail(wire)
      /\ packet' = packet /\ damage' = damage
    BY DEF Feed, line
<1>2. PICK body : Arriving(body) /\ Progress(body)
    BY DEF ParseInv
<1>3. body \in Seq(Bytes) /\ Len(body) = Len(packet.data) + 1
    BY <1>2 DEF Arriving
<1>4. Arriving(body)'
    BY <1>1, <1>2 DEF Arriving
<1> SUFFICES Progress(body)' /\ Outcome
    BY <1>4
<1>5. ASSUME NEW values \in Seq(Bytes), Coming(values)', Parsed(body, values)',
             packets' = packets
      PROVE  Progress(body)' /\ Outcome
    <2>1. wire' # <<>>
        <3>1. CASE wire' = StuffAll(values) \o <<EOF>>
            BY <3>1, NotAtEnd
        <3>2. CASE /\ values # <<>>
                   /\ wire' = <<Head(values)>> \o (StuffAll(Tail(values)) \o <<EOF>>)
            <4>1. Head(values) \in Bytes /\ Tail(values) \in Seq(Bytes)
                BY <3>2, StuffFirst
            <4> QED  BY <3>2, <4>1, NotAtEnd
        <3> QED  BY <1>5, <3>1, <3>2 DEF Coming
    <2> QED  BY <1>5, <2>1 DEF Progress, Outcome
<1>6. CASE ~escaped /\ wire = Frame(packet, body)
    <2>1. PICK values \in Seq(Bytes) :
                /\ values = <<Len(packet.data), packet.type>> \o body
                /\ wire = <<SOF>> \o (StuffAll(values) \o <<EOF>>)
        BY <1>0, <1>3, <1>6, FrameParts
    <2>2. Head(wire) = SOF /\ wire' = StuffAll(values) \o <<EOF>>
        <3>1. PICK after \in Seq(Bytes) : after = StuffAll(values) \o <<EOF>>
            BY RestOfFrame
        <3>2. wire = <<SOF>> \o after
            BY <2>1, <3>1
        <3> QED  BY <1>1, <3>1, <3>2, ByteConstants, HeadOfJoin
    <2>3. StartsFrame(SOF) /\ ~Escapes(SOF)
        BY <1>6, ByteConstants DEF StartsFrame, Escapes
    <2>4. state' = "LENGTH" /\ escaped' = FALSE /\ packets' = packets
        BY <1>1, <2>2, <2>3 DEF feed, Clear, call
    <2>5. Coming(values)'
        BY <2>2, <2>4 DEF Coming
    <2>6. Parsed(body, values)'
        BY <1>1, <2>1, <2>4 DEF Parsed
    <2> QED  BY <1>5, <2>4, <2>5, <2>6
<1>7. CASE \E values \in Seq(Bytes) : Coming(values) /\ Parsed(body, values)
    <2>1. PICK values \in Seq(Bytes) : Coming(values) /\ Parsed(body, values)
        BY <1>7
    <2>2. state # "WAIT_SOF"
        BY <2>1 DEF Parsed
    <2>3. CASE values # <<>>
        <3>1. CASE Coming(values)' /\ UNCHANGED <<state, fields, call>>
            <4>1. UNCHANGED <<state, length, type, data, frame_checksum, packets>>
                BY <3>1 DEF fields, call
            <4>2. Parsed(body, values)'
                BY <1>1, <2>1, <4>1 DEF Parsed
            <4> QED  BY <1>5, <3>1, <4>1, <4>2
        <3>2. CASE Coming(Tail(values))' /\ Take(Head(values))
            <4>1. Parsed(body, Tail(values))' /\ call' = call
                BY <1>0, <1>1, <1>3, <2>1, <2>3, <3>2, ParseTake
            <4>2. Tail(values) \in Seq(Bytes) /\ packets' = packets
                BY <2>3, <4>1, StuffFirst DEF call
            <4> QED  BY <1>5, <3>2, <4>1, <4>2
        <3> QED  BY <1>0, <2>1, <2>2, <2>3, <3>1, <3>2, ComingStep
    <2>4. CASE values = <<>>
        <3>1. ~escaped /\ wire = <<EOF>>
            BY <2>1, <2>4, RestOfFrame DEF Coming
        <3>2. Head(wire) = EOF /\ wire' = <<>>
            <4>1. Head(<<EOF>>) = EOF /\ Tail(<<EOF>>) = <<>>
                OBVIOUS
            <4> QED  BY <1>1, <3>1, <4>1
        <3>3. ~StartsFrame(EOF) /\ ~Escapes(EOF)
            BY <2>2, <3>1, ByteConstants DEF StartsFrame, Escapes
        <3>4. Take(EOF)
            BY <1>1, <2>2, <3>2, <3>3 DEF feed
        <3>5. /\ state = "EOF" /\ type = packet.type /\ Len(data) = Len(packet.data)
              /\ Append(data, frame_checksum) = body
            BY <1>0, <1>3, <2>1, <2>4, ParsedAll
        <3>6. _finish_frame
            BY <3>4, <3>5 DEF Take
        <3>7. escaped' = FALSE
            BY <3>4, TakeUnescapes
        <3>8. Outcome
            <4>1. CASE damage = "none"
                <5>1. data = packet.data /\ frame_checksum = checksum(type, data)
                    BY <1>0, <1>2, <3>5, <4>1, ChecksumDecides DEF Arriving
                <5>2. packets' = Append(packets, [type |-> type, data |-> data])
                    BY <3>6, <5>1 DEF _finish_frame
                <5>3. packet = [type |-> type, data |-> data]
                    BY <1>0, <3>5, <5>1, PacketProperties
                <5> QED  BY <3>2, <4>1, <5>2, <5>3 DEF Outcome
            <4>2. CASE damage = "misread"
                <5>1. checksum(type, data) # frame_checksum
                    BY <1>0, <1>2, <3>5, <4>2, ChecksumDecides DEF Arriving
                <5>2. packets' \in {packets, <<>>}
                    BY <3>6, <5>1 DEF _finish_frame, call
                <5> QED  BY <3>2, <4>2, <5>2 DEF Outcome
            <4> QED  BY <1>0, <4>1, <4>2
        <3> QED  BY <3>2, <3>7, <3>8 DEF Progress
    <2> QED  BY <2>3, <2>4
<1> QED  BY <1>1, <1>2, <1>6, <1>7 DEF Progress

\* What is due is what the call has.
LEMMA ParseOwes ==
    ASSUME ParseInv, Feed
    PROVE  packets' = due'
<1>1. wire # <<>> /\ wire \in Seq(Bytes) /\ wire' = Tail(wire) /\ Owe /\ packets = due
    BY DEF Feed, ParseInv, TypeInv, TypeOK
<1>2. Len(wire) = 1 <=> wire' = <<>>
    <2>1. /\ Tail(wire) \in Seq(Bytes) /\ Len(Tail(wire)) = Len(wire) - 1
          /\ Len(wire) \in Nat /\ Len(wire) # 0
        BY <1>1, HeadTailProperties, LenProperties, EmptySeq
    <2>2. Tail(wire) = <<>> <=> Len(Tail(wire)) = 0
        BY <2>1, EmptySeq
    <2> QED  BY <1>1, <2>1, <2>2
<1>3. CASE damage = "none" /\ Whole
    <2>1. Outcome
        BY <1>3, ParseFeed
    <2>2. IF wire' = <<>> THEN packets' = Append(packets, packet) ELSE packets' = packets
        BY <1>3, <2>1 DEF Outcome
    <2> QED  BY <1>1, <1>2, <1>3, <2>2 DEF Owe
<1>4. CASE ~(damage = "none" /\ Whole)
    BY <1>1, <1>4 DEF Owe
<1> QED  BY <1>3, <1>4

LEMMA ParseInit == Init => ParseInv
<1> SUFFICES ASSUME Init PROVE ParseInv
    OBVIOUS
<1>1. /\ packet \in Packets /\ wire = serialize(packet) /\ damage = "none"
      /\ packets = due /\ escaped = FALSE
    BY DEF Init
<1>2. Arriving(Body(packet)) /\ Progress(Body(packet))
    BY <1>1, BodyOfFrame, SerializedForm DEF Arriving, Progress
<1> QED  BY <1>1, <1>2, TypeInit DEF ParseInv

\* What changes neither the frame nor the parser leaves the parser where it is in
\* the frame.
LEMMA ParseStays ==
    ASSUME NEW body, Arriving(body), Progress(body), UNCHANGED <<parser, wire, line>>
    PROVE  Arriving(body)' /\ Progress(body)'
<1>1. /\ UNCHANGED <<state, escaped, length, type, data, frame_checksum>>
      /\ UNCHANGED <<wire, packet, damage>>
    BY DEF parser, fields, line
<1>2. \A values : Coming(values)' = Coming(values)
    BY <1>1 DEF Coming
<1>3. \A values : Parsed(body, values)' = Parsed(body, values)
    BY <1>1 DEF Parsed
<1> QED  BY <1>1, <1>2, <1>3 DEF Arriving, Progress

LEMMA ParseStep == ParseInv /\ [Next]_vars => ParseInv'
<1> SUFFICES ASSUME ParseInv, [Next]_vars
             PROVE  ParseInv'
    OBVIOUS
<1>0. TypeInv /\ TypeInv' /\ escaped \in BOOLEAN /\ dropped \in BOOLEAN /\ packets = due
    BY TypeStep DEF ParseInv, TypeInv, TypeOK
<1>1. ASSUME NEW p \in Packets, Send(p)
      PROVE  ParseInv'
    <2>1. escaped' = escaped /\ packet' = p /\ dangling' = escaped /\ packets' = due'
        BY <1>0, <1>1 DEF Send, Sent, parser, call
    <2>2. SUFFICES ASSUME damage' # "garbled", Whole'
                   PROVE  \E body : Arriving(body)' /\ Progress(body)'
        BY <1>0, <2>1 DEF ParseInv
    <2>3. escaped' = FALSE
        BY <1>0, <2>1, <2>2 DEF Whole
    <2>4. CASE damage' = "none" /\ wire' = serialize(p)
        BY <2>1, <2>3, <2>4, BodyOfFrame, SerializedForm DEF Arriving, Progress
    <2>5. CASE damage' = "misread" /\ wire' \in Misread(p)
        <3>1. PICK body : Differs(p, body) /\ wire' = Frame(p, body)
            BY <2>5, MisreadForm
        <3>2. Arriving(body)'
            BY <2>1, <2>5, <3>1, BodyOfFrame DEF Arriving
        <3>3. Progress(body)'
            BY <2>1, <2>3, <3>1 DEF Progress
        <3> QED  BY <3>2, <3>3
    <2> QED  BY <1>1, <2>2, <2>4, <2>5 DEF Send, Sent
<1>2. CASE Feed
    <2>1. UNCHANGED <<packet, damage, dangling, dropped>>
        BY <1>2 DEF Feed, line
    <2>2. Whole' = Whole /\ packets' = due'
        BY <1>2, <2>1, ParseOwes DEF Whole
    <2>3. damage # "garbled" /\ Whole => \E body : Arriving(body)' /\ Progress(body)'
        BY <1>2, ParseFeed
    <2> QED  BY <1>0, <2>1, <2>2, <2>3 DEF ParseInv
<1>3. CASE Drop
    <2>1. ~Whole' /\ packets' = due'
        BY <1>0, <1>3 DEF Drop, Whole, call
    <2> QED  BY <1>0, <2>1 DEF ParseInv
<1>4. CASE feed_many
    <2>1. /\ UNCHANGED <<parser, wire, line>> /\ packets' = due' /\ damage' = damage
          /\ Whole' = Whole
        BY <1>4 DEF feed_many, line, Whole
    <2> QED  BY <1>0, <2>1, ParseStays DEF ParseInv
<1>5. CASE UNCHANGED vars
    <2>1. /\ UNCHANGED <<parser, wire, line>> /\ packets' = due' /\ damage' = damage
          /\ Whole' = Whole
        BY <1>0, <1>5 DEF vars, line, call, Whole
    <2> QED  BY <1>0, <2>1, ParseStays DEF ParseInv
<1> QED  BY <1>1, <1>2, <1>3, <1>4, <1>5 DEF Next

\* A call of feed_many() returns every frame that arrives as it was sent, once, in
\* its place and as it was sent, whatever came before it, unless that ended in an
\* escape byte or the checksum of another frame made a strict parser raise.
THEOREM IntactDelivered == Spec => []IntactFrameDelivered
<1>1. ParseInv => IntactFrameDelivered
    BY DEF ParseInv, IntactFrameDelivered
<1> QED  BY <1>1, ParseInit, ParseStep, PTL DEF Spec

LEMMA MisreadStep ==
    ASSUME ParseInv, [Next]_vars, damage = "misread", Whole
    PROVE  packets' \in {packets, <<>>}
<1>1. ASSUME NEW p \in Packets, Send(p)
      PROVE  packets' = packets
    BY <1>1 DEF Send, call
<1>2. CASE Feed
    <2>1. Outcome
        BY <1>2, ParseFeed
    <2> QED  BY <2>1 DEF Outcome
<1>3. CASE Drop
    BY <1>3 DEF Drop, call
<1>4. CASE feed_many
    BY <1>4 DEF feed_many
<1>5. CASE UNCHANGED vars
    BY <1>5 DEF vars, call
<1> QED  BY <1>1, <1>2, <1>3, <1>4, <1>5 DEF Next

\* A frame with one misread byte in its payload or checksum is never delivered:
\* the checksum tells it from the frame that was sent, whatever the length.
THEOREM MisreadRejected == Spec => MisreadFrameRejected
<1>1. ParseInv /\ [Next]_vars => [damage = "misread" /\ Whole => packets' \in {packets, <<>>}]_vars
    BY MisreadStep
<1> QED  BY <1>1, ParseInit, ParseStep, PTL DEF Spec, MisreadFrameRejected

=============================================================================
