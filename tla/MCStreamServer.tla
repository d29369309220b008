---------------------------- MODULE MCStreamServer ----------------------------
(* Clients that ask again after leaving, send what is unknown or empty,    *)
(* and end lines as lwnetdelay(1) does; and lwnetdelay(1) itself.          *)
EXTENDS StreamServer

MCScripts ==
  { <<"q", "!", "x", "!", "q", "!">>,
    <<"q", "q", "!", "!", "q", "!">>,
    <<"eol", "q", "!", "eol", "q", "!">>,
    AppletSends(Query) }
===============================================================================
