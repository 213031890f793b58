------------------------------ MODULE MCSubject ------------------------------
(* Constants of Subject for TLC.  Labels of at most four characters: two   *)
(* for the start, one for the dash and one for the digest.                 *)
EXTENDS Subject

Words == {"user", "serviceaccount"}

(* Both words, the two separators, and a character that labels may hold    *)
(* inside only; the separators are the characters they may not hold.       *)
Characters == Words \cup {":", "/", "."}

(* A digest that sees what a label does not show, and collides.            *)
Parity(s) ==
  IF Cardinality({i \in DOMAIN s : s[i] = ":"}) % 2 = 0
  THEN <<"user">> ELSE <<"serviceaccount">>
=============================================================================
