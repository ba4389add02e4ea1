------------------------------- MODULE Galois -------------------------------
(***************************************************************************)
(* Arithmetic on bytes as elements of a field (build.rs and galois.rs of   *)
(* utils/berkleamp-welch) and the matrices and polynomials over it         *)
(* (math.rs).  A matrix is a function of rows, a row one of columns, both  *)
(* from zero; a polynomial is a sequence of coefficients, the lowest       *)
(* first.  The slices are the portable ones: the build for vector units    *)
(* has its own mul_slice_in_place, which adds the old value (see README).  *)
(***************************************************************************)
EXTENDS Integers, Sequences, Bitwise, SequencesExt

CONSTANTS FieldBits, GENERATING_POLYNOMIAL

VARIABLES LOG_TABLE, EXP_TABLE, INV_TABLE

tables == <<LOG_TABLE, EXP_TABLE, INV_TABLE>>

FIELD_SIZE == 2 ^ FieldBits
Byte == 0 .. FIELD_SIZE - 1

\* One round of gen_log_table: b is multiplied by two.
Doubled(b) == IF 2 * b < FIELD_SIZE THEN 2 * b ELSE (2 * b - FIELD_SIZE) ^^ GENERATING_POLYNOMIAL

\* The values b takes in gen_log_table, the power 0 first.
PowersOfTwo == FoldLeft(LAMBDA s, i : Append(s, Doubled(Last(s))), <<1>>, [i \in 1 .. FIELD_SIZE - 2 |-> i])

gen_log_table ==
    LET powers == PowersOfTwo
    IN  [a \in Byte |-> IF a = 0 THEN 0 ELSE (CHOOSE n \in DOMAIN powers : powers[n] = a) - 1]

gen_exp_table ==
    LET powers == PowersOfTwo
    IN  [n \in 0 .. 2 * FIELD_SIZE - 3 |-> powers[1 + (n % (FIELD_SIZE - 1))]]

gen_inv_table(log_table, exp_table) ==
    [a \in Byte |-> IF a = 0 THEN 0 ELSE exp_table[FIELD_SIZE - log_table[a] - 1]]

\* The build script writes the tables.
GaloisInit == /\ LOG_TABLE = gen_log_table
              /\ EXP_TABLE = gen_exp_table
              /\ INV_TABLE = gen_inv_table(LOG_TABLE, EXP_TABLE)

Plus(a, b) == a ^^ b
Mul(a, b) == IF a = 0 \/ b = 0 THEN 0 ELSE EXP_TABLE[LOG_TABLE[a] + LOG_TABLE[b]]

\* b is not zero.
Div(a, b) == CASE a = 0 -> 0
               [] a = 1 -> INV_TABLE[b]
               [] OTHER -> EXP_TABLE[(LOG_TABLE[a] - LOG_TABLE[b]) % (FIELD_SIZE - 1)]

Pow(a, n) == CASE n = 0 -> 1
               [] n # 0 /\ a = 0 -> 0
               [] OTHER -> EXP_TABLE[(LOG_TABLE[a] * n) % (FIELD_SIZE - 1)]

\* The sum of a sequence of elements.
SumOf(terms) == FoldLeft(Plus, 0, terms)

-----------------------------------------------------------------------------
(* Matrices.                                                                *)

Identity(k) == [i \in 0 .. k - 1 |-> [j \in 0 .. k - 1 |-> IF i = j THEN 1 ELSE 0]]

ScaleRow(mx, a, fac) == [mx EXCEPT ![a] = [c \in DOMAIN @ |-> Mul(fac, @[c])]]
SwapRows(mx, a, b) == [mx EXCEPT ![a] = mx[b], ![b] = mx[a]]
AddMulRows(mx, a, b, fac) ==
    IF fac = 0 THEN mx ELSE [mx EXCEPT ![b] = [c \in DOMAIN @ |-> Plus(@[c], Mul(fac, mx[a][c]))]]

UpTo(n) == [i \in 1 .. n |-> i - 1]
DownFrom(n) == [i \in 1 .. n |-> n - i]

\* Column i is cleared below its pivot, or left alone when there is none.
Cleared(mx, r, i) ==
    LET rows == {j \in i .. r - 1 : mx[j][i] # 0}
        p    == CHOOSE j \in rows : \A l \in rows : j <= l
        top  == ScaleRow(SwapRows(mx, i, p), i, Div(1, mx[p][i]))
    IN  IF rows = {} THEN mx
        ELSE FoldLeft(LAMBDA m, j : IF j <= i THEN m ELSE AddMulRows(m, i, j, m[j][i]), top, UpTo(r))

\* standardize_matrix.  invert_matrix_with does the same to a second matrix beside mx.
Standardized(mx, r) ==
    LET lower == FoldLeft(LAMBDA m, i : Cleared(m, r, i), mx, UpTo(r))
    IN  FoldLeft(LAMBDA m, i : FoldLeft(LAMBDA n, j : AddMulRows(n, i, j, n[j][i]), m, DownFrom(i)),
                 lower, DownFrom(r))

Beside(mx, k) == [i \in 0 .. k - 1 |-> [j \in 0 .. 2 * k - 1 |->
                     IF j < k THEN mx[i][j] ELSE Identity(k)[i][j - k]]]

\* The matrix that invert_matrix_with leaves beside mx, and whether mx became the identity.
InvertedWith(mx, k) ==
    LET both == Standardized(Beside(mx, k), k)
    IN  [out |-> [i \in 0 .. k - 1 |-> [j \in 0 .. k - 1 |-> both[i][j + k]]],
         unit |-> \A i \in 0 .. k - 1 : both[i][i] = 1]

ParityMatrix(mx, r, c) ==
    [i \in 0 .. c - r - 1 |-> [j \in 0 .. c - 1 |-> IF j < r THEN mx[j][i + r]
                                                    ELSE IF j = i + r THEN 1 ELSE 0]]

\* One column of invert_matrix.  m is the matrix, the rows that were no pivot yet, the rows that
\* were swapped, and whether a pivot was missing.
InvertColumn(m, k, i) ==
    LET rows == {j \in m.unused : m.mx[j][i] # 0}
        p    == CHOOSE j \in rows : \A l \in rows : j <= l
        sw   == SwapRows(m.mx, i, p)
        c    == sw[i][i]
        row  == [q \in DOMAIN sw[i] |-> IF c = 1 THEN sw[i][q]
                                        ELSE Mul(Div(1, c), IF q = i THEN 1 ELSE sw[i][q])]
        bare == \A q \in DOMAIN row : q = i \/ row[q] = 0
        rest == [r \in DOMAIN sw |->
                    IF r = i THEN row
                    ELSE IF bare THEN sw[r]
                    ELSE [q \in DOMAIN row |-> Plus(IF q = i THEN 0 ELSE sw[r][q], Mul(sw[r][i], row[q]))]]
    IN  IF rows = {} \/ ~m.ok THEN [m EXCEPT !.ok = FALSE]
        ELSE [mx |-> rest, unused |-> m.unused \ {p}, ok |-> TRUE,
              swaps |-> IF p = i THEN m.swaps ELSE <<<<i, p>>>> \o m.swaps]

\* invert_matrix.
Inverted(mx, k) ==
    LET m == FoldLeft(LAMBDA n, i : InvertColumn(n, k, i),
                      [mx |-> mx, unused |-> 0 .. k - 1, swaps |-> <<>>, ok |-> TRUE], UpTo(k))
    IN  [ok |-> m.ok, mx |-> FoldLeft(LAMBDA n, s : SwapRows(n, s[1], s[2]), m.mx, m.swaps)]

\* create_inverted_vdm: the inverse of the matrix of the powers of 0, 2, 4, 8, ...
VdmCoefficients(k) ==
    FoldLeft(LAMBDA c, i : IF i = 0 THEN c ELSE
                 [j \in 0 .. k - 1 |-> CASE j = k - 1 -> Plus(c[j], EXP_TABLE[i])
                                         [] j < k - 1 /\ j >= k - i -> Plus(c[j], Mul(EXP_TABLE[i], c[j + 1]))
                                         [] OTHER -> c[j]],
             [j \in 0 .. k - 1 |-> 0], UpTo(k))

InvertedVdm(k) ==
    LET c == VdmCoefficients(k)
        point(row) == IF row = 0 THEN 0 ELSE EXP_TABLE[row]
        column(row) == LET b[i \in 0 .. k - 1] == IF i = k - 1 THEN 1
                                                 ELSE Plus(c[i + 1], Mul(point(row), b[i + 1]))
                           t == FoldLeft(LAMBDA acc, i : IF i = k - 1 THEN acc
                                                         ELSE Plus(b[i], Mul(point(row), acc)), 1, DownFrom(k))
                       IN  [i \in 0 .. k - 1 |-> Mul(INV_TABLE[t], b[i])]
        columns == [row \in 0 .. k - 1 |-> column(row)]
    IN  IF k = 1 THEN Identity(1) ELSE [i \in 0 .. k - 1 |-> [row \in 0 .. k - 1 |-> columns[row][i]]]

-----------------------------------------------------------------------------
(* Polynomials.                                                             *)

\* sanitize: no zeros at the end, but one coefficient.
Sanitized(p) ==
    LET used == {i \in DOMAIN p : p[i] # 0}
    IN  IF used = {} THEN <<0>> ELSE SubSeq(p, 1, CHOOSE i \in used : \A j \in used : j <= i)

IsZero(p) == \A i \in DOMAIN p : p[i] = 0

\* One coefficient of the quotient: the last one of p goes away.
DivStep(qp, b) ==
    LET p    == qp.p
        coef == Div(Last(p), Last(b))
        off  == Len(p) - Len(b)
    IN  [q |-> <<coef>> \o qp.q,
         p |-> [i \in 1 .. Len(p) - 1 |-> IF i <= off THEN p[i] ELSE Plus(p[i], Mul(coef, b[i - off]))]]

\* Quotient and remainder; b does not end with zero.
PolyDiv(a, b) ==
    LET p == Sanitized(a)
        end == FoldLeft(LAMBDA qp, i : IF Len(qp.p) < Len(b) THEN qp ELSE DivStep(qp, b),
                        [q |-> <<>>, p |-> p], UpTo(Len(p)))
    IN  [q |-> Sanitized(end.q), p |-> Sanitized(end.p)]

Eval(p, x) == SumOf([i \in 1 .. Len(p) |-> Mul(p[i], Pow(x, i - 1))])
=============================================================================
