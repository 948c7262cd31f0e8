----------------------------- MODULE MCTlsFlows -----------------------------
(***************************************************************************)
(* Captures of one connection: packets with no hello, one or two.          *)
(***************************************************************************)
EXTENDS TlsFlows

CONSTANTS client, server

FewStreams ==
  {<<>>, <<"clientHello">>, <<"serverHello">>, <<"undecodable">>, <<"partial">>,
   <<"clientHello", "partial">>, <<"serverHello", "partial">>,
   <<"clientHello", "clientHello">>, <<"clientHello", "serverHello">>,
   <<"partial", "clientHello">>, <<"serverHello", "broken">>}
=============================================================================
