---------------------------- MODULE MCConnection ----------------------------
(* Connection for TLC: lines that reach every branch of the parser, among  *)
(* them a blank line, one too long for the buffer, one the client leaves   *)
(* short of a value, and requests on the same key.                         *)
EXTENDS Connection

MCLines ==
    {<<"TAB", "CR", "LF">>, <<"GET", "SP", "LF">>,
     <<"PUT", "SP", "k", "SP", "v", "LF">>,
     <<"SET", "SP", "SP", "k", "SP", "TAB", "w", "CR", "LF">>,
     <<"PUT", "SP", "k", "TAB", "v", "LF">>,
     <<"PUT", "SP", "k", "TAB", "SP", "v", "SP", "w", "LF">>,
     <<"TAB", "GET", "SP", "TAB", "k", "SP", "LF">>,
     <<"DEL", "SP", "k", "LF">>, <<"STATUS", "LF">>, <<"QUIT", "CR", "LF">>}
=============================================================================
