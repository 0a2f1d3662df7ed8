----------------------------- MODULE SpeechContract -----------------------------
(***************************************************************************)
(* What a caller of libdengjenSpeak may rely on, whatever the mode of the  *)
(* synthesis and whichever thread runs it.                                 *)
(*                                                                         *)
(* A session is asked for once.  Its caller hears the places of the text   *)
(* in the order they are spoken, none twice and none skipped, and then one *)
(* ending: "finished", "error", "stopped" (the callback asked to stop),    *)
(* "failed" (the call itself returned an error) or "rejected" (so did the  *)
(* call, before any synthesis).  Nothing follows an ending.  A session     *)
(* that nobody cancelled finishes only when everything was heard; one that *)
(* was cancelled lets at most one more item through.                       *)
(***************************************************************************)
EXTENDS Integers, Sequences

CONSTANTS
  Sessions,
  Places,          (* all the places items can have                          *)
  Before(_, _)     (* the order in which places are spoken                   *)

VARIABLES
  wanted,      (* wanted[s]: the places of the text of s                     *)
  asked,       (* the sessions that were asked for                           *)
  heard,       (* heard[s]: what the caller was given, in order              *)
  ending,      (* ending[s]: how s ended, or "none"                          *)
  cancelled,   (* the sessions a cancellation has reached                    *)
  late         (* late[s]: items heard since the cancellation of s           *)

contractVars == <<wanted, asked, heard, ending, cancelled, late>>

Heard(s) == {heard[s][k] : k \in DOMAIN heard[s]}

ContractInit ==
  /\ wanted    \in [Sessions -> SUBSET Places]
  /\ asked     = {}
  /\ heard     = [s \in Sessions |-> <<>>]
  /\ ending    = [s \in Sessions |-> "none"]
  /\ cancelled = {}
  /\ late      = [s \in Sessions |-> 0]

(* A call that is rejected is asked for and ended at once. *)
Ask(s, e) ==
  /\ s \notin asked
  /\ asked'  = asked \cup {s}
  /\ ending' = [ending EXCEPT ![s] = e]
  /\ UNCHANGED <<wanted, heard, cancelled, late>>

(* The caller hears the first place it has not heard, and may then end the *)
(* session by what its callback returns.                                   *)
Hear(s, p, e) ==
  /\ s \in asked /\ ending[s] = "none"
  /\ p \in wanted[s] \ Heard(s)
  /\ \A q \in wanted[s] : Before(q, p) => q \in Heard(s)
  /\ s \in cancelled => late[s] = 0
  /\ heard'  = [heard EXCEPT ![s] = Append(@, p)]
  /\ late'   = [late EXCEPT ![s] = IF s \in cancelled THEN @ + 1 ELSE @]
  /\ ending' = [ending EXCEPT ![s] = e]
  /\ UNCHANGED <<wanted, asked, cancelled>>

End(s, e) ==
  /\ s \in asked /\ ending[s] = "none"
  /\ e = "finished" => s \in cancelled \/ wanted[s] \subseteq Heard(s)
  /\ ending' = [ending EXCEPT ![s] = e]
  /\ UNCHANGED <<wanted, asked, heard, cancelled, late>>

(* A cancellation reaches a session that was asked for; it may come too    *)
(* late to matter.                                                         *)
Cancel(s) ==
  /\ s \in asked
  /\ cancelled' = cancelled \cup {s}
  /\ UNCHANGED <<wanted, asked, heard, ending, late>>

ContractNext ==
  \E s \in Sessions :
    \/ \E e \in {"none", "rejected"} : Ask(s, e)
    \/ \E p \in wanted[s], e \in {"none", "stopped"} : Hear(s, p, e)
    \/ \E e \in {"finished", "error", "failed"} : End(s, e)
    \/ Cancel(s)

ContractSpec == ContractInit /\ [][ContractNext]_contractVars
=============================================================================
