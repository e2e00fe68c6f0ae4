---------------------------- MODULE MCConsumerIr ----------------------------
(* Values of the constants of ConsumerIr for TLC.                          *)
EXTENDS ConsumerIr

Times(time, n) == [k \in 1 .. n |-> time]

\* Numbers of one, two, three and four digits, each often enough to make the
\* buffer grow, some of them so that a number would just fill it; two growths;
\* a remote's frame; and a pattern without any time
Remote == <<9000, 4500, 560, 560, 560, 1690, 560, 560, 560, 1690, 560, 39416, 9000, 2250>>
SomePatterns ==
  {<<>>, Times(20, 70), Times(260, 45), Times(560, 140), Times(9000, 35),
   Times(65000, 28), Remote \o Remote \o Remote}

=============================================================================
