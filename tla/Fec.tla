-------------------------------- MODULE Fec --------------------------------
(***************************************************************************)
(* The error correction of storage (fec.rs of utils/berkleamp-welch): data *)
(* is encoded into total shares, any of which may be lost, and some of     *)
(* which may come back changed.  rebuild makes the data of required shares *)
(* that are right; decode finds and corrects the wrong ones before.        *)
(*                                                                         *)
(* The shares that are at hand are a function of their numbers: all of one *)
(* length, and no number twice (the errors NotEqualLengths, InvalidLength  *)
(* and DuplicateShares do not occur).                                      *)
(***************************************************************************)
EXTENDS Galois, FiniteSets, FiniteSetsExt

CONSTANTS required, total,
          BlockLen,         \* bytes of a share
          Originals,        \* the data that is encoded
          Errors,           \* what is added to a byte that comes back changed
          MaxDamages        \* bound: bytes that are changed

ASSUME FecAssumption == 0 < required /\ required < total /\ total <= FIELD_SIZE

VARIABLES
    enc_matrix, vand_matrix,    \* fields of Fec
    original, shares,
    damaged,                    \* history: the bytes that are not as they were
    outcome

fecVars == <<tables, enc_matrix, vand_matrix, original, shares, damaged, outcome>>

-----------------------------------------------------------------------------

VdmRows == LET top == InvertedVdm(required)
           IN  [i \in 0 .. total - 1 |-> IF i < required THEN top[i]
                   ELSE [j \in 0 .. required - 1 |-> EXP_TABLE[(i * j) % (FIELD_SIZE - 1)]]]

\* Fec::new.  enc_matrix has the data as it is, and below it what the shares of parity are made
\* by.  Column n of vand_matrix has the powers of the point of share n: of 0, 1, 2, 4, ...
NewFec ==
    LET vdm == VdmRows
    IN  /\ enc_matrix = <<>>
        /\ enc_matrix' = [i \in 0 .. total - 1 |-> [j \in 0 .. required - 1 |->
               IF i < required THEN Identity(required)[i][j]
               ELSE SumOf([l \in 1 .. required |-> Mul(vdm[i][l - 1], vdm[l - 1][j])])]]
        /\ vand_matrix' = [i \in 0 .. required - 1 |-> [n \in 0 .. total - 1 |->
               IF n = 0 THEN IF i = 0 THEN 1 ELSE 0 ELSE Pow(Pow(2, i), n - 1)]]
        /\ UNCHANGED <<tables, original, shares, damaged, outcome>>

\* The sum of rows of bytes: each coefficient times the block of its index.
Combined(row, blocks, n) ==
    [p \in 1 .. BlockLen |-> SumOf([j \in 1 .. n |-> Mul(row[j - 1], blocks[j - 1][p])])]

EncodeShares ==
    /\ enc_matrix # <<>> /\ outcome.op = "new"
    /\ shares' = [n \in 0 .. total - 1 |->
           IF n < required THEN original[n] ELSE Combined(enc_matrix[n], original, required)]
    /\ outcome' = [op |-> "none"]
    /\ UNCHANGED <<tables, enc_matrix, vand_matrix, original, damaged>>

-----------------------------------------------------------------------------

Ended(kind) == [kind |-> kind, data |-> <<>>]

Ascending(S) == SetToSortSeq(S, <)

\* The data shares that are missing, those before the first one there is at the end.
Gaps(data) == LET first == IF data = {} THEN 0 ELSE Min(data)
                  gone  == (0 .. required - 1) \ data
              IN  Ascending({g \in gone : g >= first}) \o Ascending({g \in gone : g < first})

\* Each block of parity is replaced by the data it stands for, one after the other: the ones
\* that follow are made of what is there by then.
Restored(inv, blocks, parity) ==
    FoldLeft(LAMBDA now, i : IF i \notin parity THEN now
                 ELSE [now EXCEPT ![i] = Combined(inv[i], now, required)],
             blocks, UpTo(required))

\* rebuild: the first required shares are used.
Rebuilt(have) ==
    LET used   == SubSeq(Ascending(DOMAIN have), 1, required)
        data   == {n \in Range(used) : n < required}
        parity == SubSeq(used, Cardinality(data) + 1, required)
        gaps   == Gaps(data)
        At(i)  == IF i \in data THEN i ELSE parity[CHOOSE j \in DOMAIN gaps : gaps[j] = i]
        m      == Inverted([i \in 0 .. required - 1 |-> enc_matrix[At(i)]], required)
    IN  IF Cardinality(DOMAIN have) < required THEN Ended("NotEnoughShares")
        ELSE IF ~m.ok THEN Ended("InvertMatrix")
        ELSE [kind |-> "rebuilt",
              data |-> Restored(m.mx, [i \in 0 .. required - 1 |-> have[At(i)]], Range(gaps))]

-----------------------------------------------------------------------------

\* Mutant of EvalPoint: share 0 belongs to the point 1 too.
EvalPointOne(n) == IF n = 0 THEN 1 ELSE Pow(2, n - 1)

EvalPoint(n) == IF n = 0 THEN 0 ELSE Pow(2, n - 1)

\* The wrong shares that Resources::new makes room for; with none decode gives up.
MaxWrong(have) == (Cardinality(DOMAIN have) - required) \div 2

\* berklekamp_welch on byte p of each share: the values of a polynomial of degree below
\* required at all points, though up to e of the shares are wrong.
BerklekampWelch(have, p) ==
    LET ns   == Ascending(DOMAIN have)
        e    == MaxWrong(have)
        q    == e + required
        dim  == q + e
        x(i) == EvalPoint(ns[i + 1])
        r(i) == have[ns[i + 1]][p]
        s    == [i \in 0 .. dim - 1 |-> [k \in 0 .. dim - 1 |->
                    IF k < q THEN Pow(x(i), k) ELSE Mul(Pow(x(i), k - q), r(i))]]
        a    == InvertedWith(s, dim)
        f    == [i \in 0 .. dim - 1 |-> Mul(Pow(x(i), e), r(i))]
        u    == [i \in 0 .. dim - 1 |-> SumOf([j \in 1 .. dim |-> Mul(a.out[i][j - 1], f[j - 1])])]
        qr   == PolyDiv([i \in 1 .. q |-> u[i - 1]],
                        [i \in 1 .. e + 1 |-> IF i = e + 1 THEN 1 ELSE u[q + i - 1]])
    IN  [unit |-> a.unit, recovered |-> IsZero(qr.p),
         values |-> [n \in 0 .. total - 1 |-> Eval(qr.q, EvalPoint(n))]]

\* The bytes, in the order in which correct meets them, where the shares do not fit together.
Mismatches(have) ==
    LET ns   == Ascending(DOMAIN have)
        mx   == [i \in 0 .. required - 1 |-> [j \in 0 .. Len(ns) - 1 |-> vand_matrix[i][ns[j + 1]]]]
        synd == ParityMatrix(Standardized(mx, required), required, Len(ns))
        sums == [i \in DOMAIN synd |-> Combined(synd[i], [j \in 0 .. Len(ns) - 1 |-> have[ns[j + 1]]], Len(ns))]
    IN  FoldLeft(LAMBDA seen, i : seen \o SelectSeq([p \in 1 .. BlockLen |-> p],
                     LAMBDA p : sums[i][p] # 0 /\ p \notin Range(seen)), <<>>, UpTo(Len(ns) - required))

\* decode.  After the first byte has been corrected the shares have other numbers: for a
\* second one exp counts down from almost 2^64, and if it ends the points are wrong.  In a debug
\* build a matrix that has no inverse panics, otherwise what there is of it is used.  The shares
\* that are considered invalid, and reported as such, are all that are at hand.
Decoded(have, debug, report_invalid) ==
    LET wrong == Mismatches(have)
        p     == Head(wrong)
        bw    == BerklekampWelch(have, p)
        right == [n \in DOMAIN have |-> [have[n] EXCEPT ![p] = bw.values[n]]]
    IN  IF MaxWrong(have) <= 0 THEN Ended("NotEnoughShares")
        ELSE IF wrong = <<>> THEN Rebuilt(have)
        ELSE IF debug /\ ~bw.unit THEN Ended("panicked")
        ELSE IF ~bw.recovered THEN Ended("CannotRecover")
        ELSE IF Len(wrong) > 1 THEN Ended("hangs")
        ELSE IF report_invalid THEN [kind |-> "InvalidShares", data |-> DOMAIN have]
        ELSE Rebuilt(right)

-----------------------------------------------------------------------------

FecInit == /\ original \in Originals
           /\ enc_matrix = <<>> /\ vand_matrix = <<>>
           /\ shares = <<>> /\ damaged = {}
           /\ outcome = [op |-> "new"]

Undecided == outcome.op = "none"

\* A store does not answer.
LoseShare(n) ==
    /\ Undecided /\ n \in DOMAIN shares
    /\ shares' = [l \in DOMAIN shares \ {n} |-> shares[l]]
    /\ damaged' = {d \in damaged : d[1] # n}
    /\ UNCHANGED <<tables, enc_matrix, vand_matrix, original, outcome>>

\* A store answers something else.
DamageShare(n, p, x) ==
    /\ Undecided /\ n \in DOMAIN shares /\ <<n, p>> \notin damaged
    /\ Cardinality(damaged) < MaxDamages
    /\ shares' = [shares EXCEPT ![n][p] = Plus(@, x)]
    /\ damaged' = damaged \cup {<<n, p>>}
    /\ UNCHANGED <<tables, enc_matrix, vand_matrix, original, outcome>>

RebuildShares ==
    /\ Undecided
    /\ outcome' = [op |-> "rebuild", result |-> Rebuilt(shares)]
    /\ UNCHANGED <<tables, enc_matrix, vand_matrix, original, shares, damaged>>

DecodeShares(debug, report_invalid) ==
    /\ Undecided
    /\ outcome' = [op |-> IF report_invalid THEN "report" ELSE "decode",
                   result |-> Decoded(shares, debug, report_invalid), debug |-> debug]
    /\ UNCHANGED <<tables, enc_matrix, vand_matrix, original, shares, damaged>>

FecNext ==
    \/ NewFec \/ EncodeShares
    \/ \E n \in 0 .. total - 1 : LoseShare(n)
    \/ \E n \in 0 .. total - 1, p \in 1 .. BlockLen, x \in Errors : DamageShare(n, p, x)
    \/ RebuildShares
    \/ \E debug, report_invalid \in BOOLEAN : DecodeShares(debug, report_invalid)

-----------------------------------------------------------------------------

WrongShares == {d[1] : d \in damaged}
WrongBytes == {d[2] : d \in damaged}

\* Of the first required shares at most one is not data: rebuild replaces them in place, and
\* makes a second one of what the first has become.
OneGap == /\ Cardinality(DOMAIN shares) >= required
          /\ Cardinality(DOMAIN shares \cap 0 .. required - 1) >= required - 1

\* As many wrong shares as the ones beyond the required can point out.
Correctable == /\ Cardinality(DOMAIN shares) >= required + 2
               /\ 2 * Cardinality(WrongShares) <= Cardinality(DOMAIN shares) - required
               /\ Cardinality(WrongBytes) <= 1

\* What was encoded comes back from the shares of which at most one of the first required is
\* not data: from right ones through rebuild (Fec::rebuild), and with up to half of the spare
\* shares wrong in one byte through decode (Fec::decode), which in a debug build may panic
\* instead but never gives other data.  It says nothing of shares with two gaps, which rebuild
\* does not restore.
DataRestored ==
    /\ outcome.op = "rebuild" /\ OneGap /\ damaged = {} =>
           outcome.result = [kind |-> "rebuilt", data |-> original]
    /\ outcome.op = "decode" /\ OneGap /\ Correctable =>
           \/ outcome.result = [kind |-> "rebuilt", data |-> original]
           \/ outcome.debug /\ outcome.result.kind = "panicked"

\* The Berlekamp-Welch algorithm identifies the stores that provided incorrect pieces
\* (whitepaper/src/storage.md): find_cheaters of storage-spec, which is decode asked to report,
\* names the wrong shares and no others when they are few enough to be pointed out.
CheatersFound ==
    outcome.op = "report" /\ Correctable /\ ~outcome.debug /\ damaged # {} =>
        outcome.result = [kind |-> "InvalidShares", data |-> WrongShares]
=============================================================================
