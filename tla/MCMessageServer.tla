--------------------------- MODULE MCMessageServer ---------------------------
(***************************************************************************)
(* Clients of the message server: one posts what would end a list, one     *)
(* terminates the server, one has another request code.                    *)
(***************************************************************************)
EXTENDS MessageServerInv

CONSTANTS poster, stopper, stranger

TextOf ==
  [c \in Clients |->
     CASE c = poster -> "BYE" [] c = stopper -> "TERMINATE" [] c = stranger -> "GET"]
=============================================================================
