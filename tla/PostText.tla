------------------------------ MODULE PostText ------------------------------
(***************************************************************************)
(* Cutting a welcome into pushes (proto/text.py, utf8_split and            *)
(* utf8_truncate): pieces of at most Budget bytes, at a space if that      *)
(* leaves the piece half full, and never inside a character.               *)
(*                                                                         *)
(* A text is a sequence of bytes, of which three kinds matter: a space,    *)
(* the first byte of another character, and those that continue one, at    *)
(* most three after a first.  A piece is where it lies in the text, and    *)
(* offset is how much of the text is behind what is left of it.            *)
(*                                                                         *)
(* An operator Bug_... is a plausible error in the operator that follows   *)
(* it: the properties are tested against it.                               *)
(***************************************************************************)
EXTENDS Naturals, Sequences, FiniteSets

CONSTANTS Budget,    \* push_text_budget(64)
          MaxText    \* bound: bytes of the text

(* 87 bytes; a character has at most MAX_UTF8_SEQUENCE.                    *)
ASSUME BudgetAssumption == Budget \in Nat /\ Budget >= 4 /\ MaxText \in Nat

VARIABLES text, offset, chunks

textVars == <<text, offset, chunks>>

ByteKinds == {"space", "first", "more"}

(* Between the n-th byte and the next a character ends.                    *)
Boundary(n) == n = Len(text) \/ text[n + 1] # "more"

(* len of what lies between two places, in characters                      *)
Chars(from, to) == Cardinality({i \in (from + 1)..to : text[i] # "more"})

(* utf8_truncate: where it ends.  It backs off from the byte after the     *)
(* last that fits to one that continues no character.                      *)
Bug_MidCharacter(from) == IF Len(text) <= from + Budget THEN Len(text) ELSE from + Budget
Truncated(from) ==
  IF Len(text) <= from + Budget THEN Len(text)
  ELSE CHOOSE n \in from..(from + Budget) :
         Boundary(n) /\ \A m \in (n + 1)..(from + Budget) : ~Boundary(m)

(* The last space of a candidate, if it is not its first character and     *)
(* past its half.                                                          *)
SpaceIn(from, to) ==
  {i \in (from + 2)..to :
     /\ text[i] = "space" /\ \A j \in (i + 1)..to : text[j] # "space"
     /\ Chars(from, i - 1) >= Chars(from, to) \div 2}

PieceEnd(from, to) ==
  IF to < Len(text) /\ SpaceIn(from, to) # {}
  THEN (CHOOSE i \in SpaceIn(from, to) : TRUE) - 1 ELSE to

(* lstrip: the end of the spaces that follow a place.                      *)
Stripped(from) ==
  CHOOSE n \in from..Len(text) : /\ \A i \in (from + 1)..n : text[i] = "space"
                                 /\ n < Len(text) => text[n + 1] # "space"

(* utf8_split: one turn of its loop.  Left out: the error for a budget   *)
(* that holds no character, which would show as an empty piece.            *)
Cut ==
  /\ offset < Len(text)
  /\ LET end == PieceEnd(offset, Truncated(offset))
     IN  /\ chunks' = Append(chunks, [from |-> offset + 1, to |-> end])
         /\ offset' = Stripped(end)
  /\ UNCHANGED text

(* split_welcome: a text of nothing but spaces is none.                    *)
TextInit ==
  /\ text \in UNION {[1..n -> ByteKinds] : n \in 1..MaxText}
  /\ \A i \in DOMAIN text : text[i] = "more" =>
       \E j \in DOMAIN text : /\ j < i /\ i <= j + 3 /\ text[j] = "first"
                              /\ \A k \in (j + 1)..i : text[k] = "more"
  /\ \E i \in DOMAIN text : text[i] # "space"
  /\ offset = 0 /\ chunks = <<>>

TextNext == Cut

TextSpec == TextInit /\ [][TextNext]_textVars

---------------------------------------------------------------------------
(* Properties                                                              *)

(* Safety: at every cut, whatever the mixture of wide characters and       *)
(* spaces, the pieces hold every letter of the text so far, once and in    *)
(* order, and each piece, which is pushed as it is, has something in it,   *)
(* fits a push over the longest path and holds whole characters.           *)
TextKept ==
  /\ \A i \in 1..offset : text[i] # "space" =>
       \E k \in DOMAIN chunks : chunks[k].from <= i /\ i <= chunks[k].to
  /\ \A k \in DOMAIN chunks :
       /\ chunks[k].from <= chunks[k].to /\ chunks[k].to < chunks[k].from + Budget
       /\ Boundary(chunks[k].from - 1) /\ Boundary(chunks[k].to)
       /\ chunks[k].to <= offset
       /\ \A l \in DOMAIN chunks : k < l => chunks[k].to < chunks[l].from
=============================================================================
