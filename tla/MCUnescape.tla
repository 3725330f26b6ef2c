----------------------------- MODULE MCUnescape -----------------------------
EXTENDS Unescape

MaxLen == 4

\* Texts of up to MaxLen characters; the joined content of a directive
\* does not end in a newline (docutils drops the trailing blank lines).
Texts(A, n) == {t \in UNION {[1..m -> A] : m \in 0..n} : t = << >> \/ t[Len(t)] # Lf}

MCInputs == Texts(Chars, MaxLen)

=============================================================================
