----------------------------- MODULE MCToshiba -----------------------------
(* Values for the constants of Toshiba.tla that a configuration cannot write. *)
EXTENDS Toshiba

\* The commands, one that no handler knows, two lines that just fit into a buffer of
\* 6 bytes, one of them with a chapter of two digits, a chapter that is on no disc,
\* and lines that do not fit.
MCLines ==
  {<<"R", "E">>, <<"P", "L">>, <<"P", "U">>, <<"P", "L", "K">>,
   <<"W", "G", "1">>, <<"C", "S", "1", Comma, "1", "2">>, <<"C", "S", "1", Comma, "0">>,
   <<"C", "S", "1", Comma, "3">>,
   <<"C", "S", "1", Comma, "1", "K", "2", "1", "1">>, <<"P", "L", "1", "1", "1", "1">>}
=============================================================================
