------------------------------- MODULE QueryWindow -------------------------------
(***************************************************************************)
(* The windows the model that reads a polyphonic character is shown: so    *)
(* many characters of the sentence about the one asked for, and of their   *)
(* tokens no more than the model takes.  Positions count from 0.           *)
(***************************************************************************)
EXTENDS Naturals

CONSTANTS WindowSize,   (* window_size: 32 *)
          MaxLen        (* max_len: 512    *)

ASSUME WindowAssumption == WindowSize \in Nat /\ WindowSize >= 2 /\ MaxLen \in Nat /\ MaxLen >= 3

Monus(a, b)  == IF a > b THEN a - b ELSE 0
Lesser(a, b) == IF a < b THEN a ELSE b

(* The characters from start up to, and without, end. *)
TruncateWindow(textLen, query) ==
  [start |-> Monus(query, WindowSize \div 2), end |-> Lesser(query + WindowSize \div 2, textLen)]

(* The model adds a token before and one after. *)
TruncateLen == MaxLen - 2

(* The first of the tokens that are kept. *)
TokenStart(tokens, position) ==
  IF tokens > TruncateLen
    THEN Lesser(Monus(position, TruncateLen \div 2), tokens - TruncateLen)
    ELSE 0

TokenEnd(tokens, position) == Lesser(TokenStart(tokens, position) + TruncateLen, tokens)

(* Slip: the tokens that were cut off before it are counted. *)
PositionIdUncut(tokens, position) == position + 1

(* Where the model is told to look, its own first token counted. *)
PositionId(tokens, position) == position - TokenStart(tokens, position) + 1
=============================================================================
