--------------------------- MODULE TextTransferInv ---------------------------
(***************************************************************************)
(* The inductive invariant of TextTransfer.                                *)
(***************************************************************************)
EXTENDS TextTransfer

\* The text to be sent; how much of it the sender has read, and how much of that
\* the receiver has been given.
Original == OpenedAsText(file)
Sent == Len(Original) - Len(text)
Received == Sent - carried.length

SomeWide(string, n) == \E i \in 1 .. n : Width[string[i]] # 1

\* As long as every character took one byte the copy is what was received. After
\* the first that did not it is too short, and stays so: a packet of n characters
\* never adds more than n to it.
TextInv ==
  /\ file \in Seq(Chars)
  /\ text \in Seq(Chars)
  /\ copy \in Seq(Chars)
  /\ raised \in BOOLEAN
  /\ Sent \in Nat /\ Received \in Nat
  /\ text = SubSeq(Original, Sent + 1, Len(Original))
  /\ \/ carried = Nothing
     \/ carried.length > 0 /\ carried = Serialize(SubSeq(Original, Received + 1, Sent))
  /\ IF SomeWide(Original, Received)
     THEN Len(copy) < Received
     ELSE ~raised /\ copy = SubSeq(Original, 1, Received)
=============================================================================
