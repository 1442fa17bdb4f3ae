----------------------------- MODULE ReedSolomon -----------------------------
(***************************************************************************)
(* The code that repairs the tokens of a message: ReedSolomon.cpp.         *)
(*                                                                         *)
(* A symbol is an element of the field with 32 elements, in one of two     *)
(* forms: as a polynomial, a number of five bits, or as an index, the      *)
(* power of the primitive element 2 that it is (-1 for zero).  A message   *)
(* of 12 symbols is sent with 8 more; the code has words of 31 symbols,    *)
(* of which the 11 highest are zero and not sent.                          *)
(*                                                                         *)
(* Where the code has an array, this module has the sequence of its        *)
(* elements, the first of which is number 0.                               *)
(***************************************************************************)
EXTENDS Integers, Sequences, FiniteSets, FiniteSetsExt

mm == 5
nn == 31            \* 2 ^ mm - 1
tt == 4             \* How many errors can be corrected.
kk == nn - 2 * tt
msg_len == 12       \* What the encoder and the decoder both set.
Check == nn - kk

\* The array of f[0], f[1] and so on, and its element i.  (SubSeq has TLC compute
\* the elements once and not at every use.)
Array(f) ==
    LET n == Cardinality(DOMAIN f)
    IN SubSeq([i \in 1..n |-> f[i - 1]], 1, n)
At(a, i) == a[i + 1]

\* The sum of two elements of the field: the bits in which they differ.
xor[a, b \in 0..nn] ==
    IF a + b = 0 THEN 0 ELSE 2 * xor[a \div 2, b \div 2] + ((a + b) % 2)
PlusTable == Array([a \in 0..nn |-> Array([b \in 0..nn |-> xor[a, b]])])
Plus(a, b) == At(At(PlusTable, a), b)

\* The sum of f[m] to f[n].
Total(m, n, f) ==
    LET sum[i \in m - 1..n] == IF i = m - 1 THEN 0 ELSE Plus(sum[i - 1], f[i])
    IN IF n < m THEN 0 ELSE sum[n]

\* GenerateGaloisField(): 2 ^ i modulo the polynomial 1 + x^2 + x^5.
Twice(a) == IF 2 * a > nn THEN Plus(2 * a - (nn + 1), 5) ELSE 2 * a
power[i \in 0..nn - 1] == IF i = 0 THEN 1 ELSE Twice(power[i - 1])
alpha_to == Array(power)
indices ==
    Array([a \in 0..nn |-> IF a = 0 THEN -1 ELSE CHOOSE i \in 0..nn - 1 : At(alpha_to, i) = a])
index_of(a) == At(indices, a)

\* What every product of the code is: a power of 2, the index of which may
\* have grown beyond the field's.
Power(i) == At(alpha_to, i % nn)
Polynomial(i) == IF i = -1 THEN 0 ELSE Power(i)

\* GeneratePoly(): the product of X + 2^i for i from 1 to 2 * tt.
gg ==
    LET Times(g, i) ==      \* In polynomial form.
            Array([j \in 0..i |->
                Plus(IF j = 0 THEN 0 ELSE At(g, j - 1),
                     IF j = i \/ At(g, j) = 0 THEN 0 ELSE Power(index_of(At(g, j)) + i))])
        product[i \in 1..Check] == IF i = 1 THEN << 2, 1 >> ELSE Times(product[i - 1], i)
        g == product[Check]
    IN Array([j \in 0..Check |-> index_of(At(g, j))])
-----------------------------------------------------------------------------
\* SetMessage(), Encode() and GetCode(): the message and behind it the symbols
\* that are left in the feedback shift register.
Encode(message) ==
    LET Data(i) == IF i < Len(message) THEN At(message, i) ELSE 0
        Shift(b, i) ==
            LET feedback == index_of(Plus(Data(i), At(b, Check - 1)))
            IN Array([j \in 0..Check - 1 |->
                   Plus(IF j = 0 THEN 0 ELSE At(b, j - 1),
                        IF feedback = -1 \/ At(gg, j) = -1 THEN 0
                        ELSE Power(At(gg, j) + feedback))])
        bb[i \in 0..kk] ==      \* After the data from i on.
            IF i = kk THEN Array([j \in 0..Check - 1 |-> 0]) ELSE Shift(bb[i + 1], i)
    IN message \o bb[0]

\* SetCode(): the symbols of a codeword that were received, in index form.
SetCode(code) ==
    Array([j \in 0..nn - 1 |-> index_of(CASE j < Check -> At(code, msg_len + j)
                                    [] j >= Check /\ j < Check + msg_len -> At(code, j - Check)
                                    [] OTHER -> 0)])

GetMessage(recd) == SubSeq(recd, Check + 1, Check + msg_len)

\* The syndromes s[1] to s[2 * tt]: the word's values at the roots of gg.
Syndromes(recd) ==
    Array([i \in 0..Check |->
        index_of(IF i = 0 THEN 0
                 ELSE Total(0, nn - 1, [j \in 0..nn - 1 |->
                          IF At(recd, j) = -1 THEN 0 ELSE Power(At(recd, j) + i * j)]))])

\* The iteration of Berlekamp, step u of which finds row u + 1.  A row is a
\* polynomial and its discrepancy, both in index form, its degree and u_lu.
\* The rows of the code have room for a degree below 8; one of 8, in the last
\* step, is written behind its row, where nothing reads it.
Berlekamp(s) ==
    LET Row(elp, l, u) ==
            [elp |-> elp, l |-> l, u_lu |-> u - l,
             d |-> IF u = Check THEN -1
                   ELSE index_of(Plus(Polynomial(At(s, u + 1)),
                            Total(1, l, [i \in 1..l |->
                                IF At(s, u + 1 - i) = -1 \/ At(elp, i) = -1 THEN 0
                                ELSE Power(At(s, u + 1 - i) + At(elp, i))])))]
        \* The row before u with the greatest u_lu whose discrepancy is not zero.
        Best(rows, u) ==
            LET some == {q \in 0..u - 1 : At(rows, q).d # -1}
            IN CHOOSE q \in some : \A p \in some :
                  \/ At(rows, p).u_lu < At(rows, q).u_lu
                  \/ At(rows, p).u_lu = At(rows, q).u_lu /\ p <= q
        Following(rows, u) ==
            LET row == At(rows, u)
                q == Best(rows, u)
                best == At(rows, q)
                Old(i) == IF i <= row.l THEN Polynomial(At(row.elp, i)) ELSE 0
                Added(i) ==
                    IF i \in 0..best.l /\ At(best.elp, i) # -1
                      THEN Power(row.d + nn - best.d + At(best.elp, i))
                      ELSE 0
            IN IF row.d = -1
                 THEN Row(row.elp, row.l, u)
                 ELSE Row(Array([i \in 0..Check |-> index_of(Plus(Old(i), Added(i - (u - q))))]),
                          Max({row.l, best.l + u - q}), u)
        one == Array([i \in 0..Check |-> IF i = 0 THEN 0 ELSE -1])
        rows[u \in 1..Check + 1] ==     \* Up to row u, or to the first with l > tt.
            IF u = 1
              THEN << [elp |-> one, l |-> 0, u_lu |-> -1, d |-> 0],
                      [elp |-> one, l |-> 0, u_lu |-> 0, d |-> At(s, 1)] >>
              ELSE LET before == rows[u - 1]
                   IN IF before[Len(before)].l > tt
                        THEN before
                        ELSE Append(before, Following(before, u - 1))
        all == rows[Check + 1]
    IN all[Len(all)]

\* The roots of the polynomial of the errors; one for each place, if all is well.
Roots(elp, l) ==
    {i \in 1..nn : 1 = Total(1, l, [j \in 1..l |->
         IF At(elp, j) = -1 THEN 0 ELSE Power(At(elp, j) + i * j)])}

\* The polynomial z, from which the errors are computed.
ErrorPolynomial(s, elp, l) ==
    Array([i \in 0..l |->
        IF i = 0 THEN 0
        ELSE index_of(Plus(Plus(Polynomial(At(s, i)), Polynomial(At(elp, i))),
                 Total(1, i - 1, [j \in 1..i - 1 |->
                     IF At(s, j) = -1 \/ At(elp, i - j) = -1 THEN 0
                     ELSE Power(At(elp, i - j) + At(s, j))])))])

\* The product of 1 + 2 ^ (i - k) for the other roots k, as an index.
Denominator(i, root) ==
    LET sum[k \in 0..nn] ==
            IF k = 0 THEN 0
            ELSE sum[k - 1] + IF k \in root \ {i} THEN index_of(Plus(1, Power(nn - k + i))) ELSE 0
    IN sum[nn]

\* The error at the place that belongs to the root i.
Error(i, l, root, z) ==
    LET numerator == index_of(Plus(1, Total(1, l, [j \in 1..l |->
                         IF At(z, j) = -1 THEN 0 ELSE Power(At(z, j) + j * i)])))
        q == Denominator(i, root)
    IN IF numerator = -1 THEN 0 ELSE Power(numerator + nn - (q % nn))

Corrected(received, l, root, z) ==
    Array([j \in 0..nn - 1 |->
        Plus(At(received, j), IF nn - j \in root THEN Error(nn - j, l, root, z) ELSE 0)])

\* A word without an error, or with more than the polynomial can have or has
\* roots for, is left as it was received.
Repair(received, s, elp, l, root) ==
    IF (\A i \in 1..Check : At(s, i) = -1) \/ l > tt \/ Cardinality(root) # l
      THEN received
      ELSE Corrected(received, l, root, ErrorPolynomial(s, elp, l))

FoundErrors(recd, s, found) ==
    Repair(Array([j \in 0..nn - 1 |-> Polynomial(At(recd, j))]), s, found.elp, found.l,
           Roots(found.elp, found.l))

\* Decode(): the received word repaired, or as it is where it has no error or
\* is found to have too many.
DecodeWith(recd, s) == FoundErrors(recd, s, Berlekamp(s))
Decode(recd) == DecodeWith(recd, Syndromes(recd))

\* How GetDecodedData() of every decoder uses it.
Repaired(code) == GetMessage(Decode(SetCode(code)))
===============================================================================
