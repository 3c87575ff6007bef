------------------------------ MODULE MCFdlibm ------------------------------
(* Fdlibm on all doubles of 18 bits. *)
EXTENDS Fdlibm

\* To and fro across subnormal numbers, across all of them, to where the exponent
\* overflows, and a little.
MCShifts == {-255, -14, 13, 255, -1}

\* 0, a subnormal number, a number with many bits, infinity,
\* and no number.
MCDivisors ==
  {Double(FALSE, m) : m \in {0, 1023, 31 * 4096, 31 * 4096 + 1}}
    \union {Double(TRUE, 5 * 4096 + 853)}

MCMisread(d) == d

=============================================================================
