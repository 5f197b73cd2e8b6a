------------------------- MODULE MC_FecCoordinator -------------------------
EXTENDS FecCoordinator

\* fmtp values: absent, "50000", "123456789" (fills the buffer),
\* "1000000000" (one digit too many), "x", "4", "-3", "12x", "2".
Absent == NoFmtp
Val(s) == [found |-> TRUE, chars |-> s]

MCFmtps ==
  [rw : {Absent, Val(<<5, 0, 0, 0, 0>>), Val(<<1, 2, 3, 4, 5, 6, 7, 8, 9>>),
         Val(<<1, 0, 0, 0, 0, 0, 0, 0, 0, 0>>), Val(<<Other>>)},
   L  : {Absent, Val(<<4>>), Val(<<Minus, 3>>), Val(<<1, 2, Other>>)},
   D  : {Absent, Val(<<2>>), Val(<<Other>>)}]

=============================================================================
