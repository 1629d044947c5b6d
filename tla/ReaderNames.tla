---------------------------- MODULE ReaderNames -----------------------------
(***************************************************************************)
(* Context.ListReaders (winscard.go): the names of the card readers come   *)
(* as one buffer of letters, each name ended by a zero and the whole by    *)
(* one more, and are cut apart again.                                      *)
(***************************************************************************)
EXTENDS Integers, Sequences, FiniteSets

Zeros(n) == [i \in 1 .. n |-> 0]

(* What SCardListReaders writes, in its two calls.                          *)

(* A name and the zero behind it take up one cell for each letter and one   *)
(* more.  The size asked for is that of all names and a last zero, and none *)
(* if there is no reader.                                                   *)
Cells(S) == UNION {{name} \X (1 .. Len(name) + 1) : name \in S}
RoomFor(S) == IF S = {} THEN 0 ELSE Cardinality(Cells(S)) + 1

(* The places the names may stand at, in whatever order: the pieces they    *)
(* take up fill the buffer but for its last zero, and none lies over        *)
(* another.                                                                 *)
Piece(name, p) == p .. p + Len(name)
Layouts(S) ==
  {place \in [S -> 1 .. RoomFor(S)] :
     /\ UNION {Piece(name, place[name]) : name \in S} = 1 .. RoomFor(S) - 1
     /\ \A name, other \in S : name # other =>
          Piece(name, place[name]) \cap Piece(other, place[other]) = {}}

(* Where no name has a letter there is a zero.                              *)
NamesOver(c, place) ==
  {name \in DOMAIN place : c \in place[name] .. place[name] + Len(name) - 1}
Buffer(length, place) ==
  [c \in 1 .. length |->
     IF NamesOver(c, place) = {} THEN 0
     ELSE LET name == CHOOSE over \in NamesOver(c, place) : TRUE
          IN  name[c - place[name] + 1]]

MultiStrings(S) == {Buffer(RoomFor(S), place) : place \in Layouts(S)}

(* A name runs from the start, or from behind a zero, to the next zero; the *)
(* last zero ends no name.  Cells beyond the length are not looked at.      *)
NameStart(buffer, i) ==
  CHOOSE start \in 1 .. i : /\ start = 1 \/ buffer[start - 1] = 0
                            /\ \A j \in start .. i - 1 : buffer[j] # 0

Ends(buffer, length) == {i \in 1 .. length : buffer[i] = 0}
NameEndsAny(buffer, length) == Ends(buffer, length)
NameEnds(buffer, length) ==
  {i \in Ends(buffer, length) : i > NameStart(buffer, i)}

Names(buffer, length) ==
  {SubSeq(buffer, NameStart(buffer, i), i - 1) : i \in NameEnds(buffer, length)}

(* The names listed when the readers A were there at the call that asks for *)
(* the size, and S at the one that fills the buffer: none if it is too      *)
(* small.  The buffer is as long as was asked for, the length what was      *)
(* written.                                                                 *)
Listings(A, S) ==
  IF RoomFor(S) > RoomFor(A) THEN {}
  ELSE {Names(b \o Zeros(RoomFor(A) - Len(b)), Len(b)) : b \in MultiStrings(S)}
=============================================================================
