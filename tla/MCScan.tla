--------------------------------- MODULE MCScan ---------------------------------
EXTENDS Scan

\* Bytes of two bits.  The first two agree in three bits, the third differs from
\* them in the third; the fourth differs in the first.
MCUids == {<<{1}, {}>>, <<{1}, {0}>>, <<{1}, {1}>>, <<{}, {0, 1}>>}

===============================================================================
