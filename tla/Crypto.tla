------------------------------- MODULE Crypto --------------------------------
(***************************************************************************)
(* The three algorithms both ends of a connection share, as functions:     *)
(* power_mod of the key exchange (dh_crypto.c), the RC4 cipher             *)
(* (net_wrapper.c) and the 16-bit checksum (protocol.c).  Bytes are        *)
(* numbers, arrays are functions from 0 or sequences.                      *)
(*                                                                         *)
(* The assumptions at the end compare them with what they are meant to     *)
(* compute.  The code's modulus 2^31 - 1 is beyond TLC's integers; its     *)
(* products stay below 2^62 and so within long long.                       *)
(***************************************************************************)
EXTENDS Integers, Sequences, SequencesExt, Bitwise

-----------------------------------------------------------------------------
\* The loop of power_mod from its head: the exponent left, res and base.
PowerLoop(mod) ==
    LET loop[exp \in Nat] ==
          IF exp = 0 THEN [res, base \in 0..mod |-> res]
          ELSE [res, base \in 0..mod |->
                  loop[exp \div 2][IF exp % 2 = 1 THEN (res * base) % mod ELSE res,
                                   (base * base) % mod]]
    IN  loop

PowerMod(base, exp, mod) == PowerLoop(mod)[exp][1, base % mod]

DH_GENERATOR == 16807

CalculatePublicKey(private_key, prime) == PowerMod(DH_GENERATOR, private_key, prime)
CalculateSharedSecret(other_public_key, my_private_key, prime) ==
    PowerMod(other_public_key, my_private_key, prime)

-----------------------------------------------------------------------------
Byte == 0..255
Swap(S, i, j) == [S EXCEPT ![i] = S[j], ![j] = S[i]]

\* The permutation after key scheduling.  The 256 rounds come in 16 rows; the test
\* of j makes TLC complete a row before the next, which keeps its stack small.
Schedule(key) ==
    LET mix(st, i) == LET j == (st.j + st.S[i] + key[(i % Len(key)) + 1]) % 256
                      IN  [j |-> j, S |-> Swap(st.S, i, j)]
        row[r \in 0..16] ==
          IF r = 0 THEN [j |-> 0, S |-> [b \in Byte |-> b]]
          ELSE LET st == row[r - 1]
               IN  IF st.j \in Byte
                   THEN FoldLeft(mix, st, [n \in 1..16 |-> 16 * (r - 1) + n - 1]) ELSE st
    IN  row[16].S

\* The data enciphered, or deciphered, byte by byte.
Rc4Crypt(data, key) ==
    LET next(st, byte) ==
          LET i == (st.i + 1) % 256
              j == (st.j + st.S[i]) % 256
              S == Swap(st.S, i, j)
              k == S[(S[i] + S[j]) % 256]
          IN  [i |-> i, j |-> j, S |-> S, out |-> Append(st.out, byte ^^ k)]
    IN  FoldLeft(next, [i |-> 0, j |-> 0, S |-> Schedule(key), out |-> <<>>], data).out

-----------------------------------------------------------------------------
\* Carries are added back until 16 bits are left, and then complemented.
Fold[sum \in Nat] == IF sum < 65536 THEN sum ELSE Fold[(sum % 65536) + (sum \div 65536)]

CalculateChecksum(data) == 65535 - Fold[FoldLeft(+, 0, data)]

-----------------------------------------------------------------------------
(***************************************************************************)
(* What they are meant to compute.                                         *)
(***************************************************************************)
Primes == {17, 251, 31607, 46337}
Private == 1..12 \cup {63, 64, 65, 4096, 65535, 99999, 100000}

\* power_mod is exponentiation (dh_crypto.c:15).
Power(base, mod) == LET p[e \in Nat] == IF e = 0 THEN 1 % mod ELSE (p[e - 1] * base) % mod IN p
ASSUME PowerModIsPower ==
    \A mod \in Primes, base \in 0..20, exp \in 0..33 :
        PowerMod(base, exp, mod) = Power(base % mod, mod)[exp]

\* The two ends of an exchange compute the same secret (dh_crypto.c:34-36), and it is
\* never zero.  Private keys are in 1..100000.
ASSUME ExchangeAgrees ==
    \A p \in Primes : \A a, b \in Private :
        LET secret == CalculateSharedSecret(CalculatePublicKey(a, p), b, p)
        IN  secret = CalculateSharedSecret(CalculatePublicKey(b, p), a, p) /\ secret # 0

\* The cipher is RC4: the published vectors of "Key" / "Plaintext", "Wiki" / "pedia".
ASSUME Rc4Vectors ==
    /\ Rc4Crypt(<<80, 108, 97, 105, 110, 116, 101, 120, 116>>, <<75, 101, 121>>)
         = <<187, 243, 22, 232, 217, 64, 175, 10, 211>>
    /\ Rc4Crypt(<<112, 101, 100, 105, 97>>, <<87, 105, 107, 105>>) = <<16, 33, 191, 4, 32>>

Texts == {<<>>, <<0>>, <<255, 255>>, <<10, 0, 0, 0, 1, 57, 64>>}
Keys == {<<75>>, <<75, 69, 89, 95, 49>>, <<75, 69, 89, 95, 50>>}

\* Deciphering is enciphering again, and with another key the checksum of a text
\* longer than a byte does not come out right (dispatcher.c:184-187).
ASSUME Rc4Undone ==
    \A t \in Texts : \A k, l \in Keys :
        /\ Rc4Crypt(Rc4Crypt(t, k), k) = t
        /\ k # l /\ Len(t) > 1 =>
              CalculateChecksum(Rc4Crypt(Rc4Crypt(t, k), l)) # CalculateChecksum(t)

\* The checksum is the complement of a sum modulo 65535, also when adding the carry
\* gives another one (protocol.c:24-26); the largest sum is that of 1024 bytes of 255.
ASSUME FoldIsModulo ==
    \A sum \in (0..300) \cup (65500..65600) \cup (131000..131100) \cup (261000..261120) :
        Fold[sum] = IF sum = 0 THEN 0 ELSE ((sum - 1) % 65535) + 1

=============================================================================
