------------------------------ MODULE AtomicFile ------------------------------
(***************************************************************************)
(* A file that is written whole or not at all, by callers that may fail or *)
(* disappear: what whoever asks dengjen for a wave file may rely on.       *)
(***************************************************************************)
CONSTANTS
  Writers,
  Contents,
  Missing      (* no file, and no call                                       *)

VARIABLES
  file,      (* what a reader of the file would find                         *)
  call,      (* call[w]: what w is writing                                   *)
  result     (* result[w]: what the last call of w returned                  *)

fileVars == <<file, call, result>>

FileInit ==
  /\ file   \in Contents \cup {Missing}
  /\ call   = [w \in Writers |-> Missing]
  /\ result = [w \in Writers |-> "none"]

Start(w, c) ==
  /\ call[w] = Missing
  /\ call'   = [call EXCEPT ![w] = c]
  /\ result' = [result EXCEPT ![w] = "none"]
  /\ UNCHANGED file

(* The call succeeds, and at that moment the file is replaced. *)
Commit(w) ==
  /\ call[w] # Missing
  /\ file'   = call[w]
  /\ call'   = [call EXCEPT ![w] = Missing]
  /\ result' = [result EXCEPT ![w] = "ok"]

Fail(w) ==
  /\ call[w] # Missing
  /\ call'   = [call EXCEPT ![w] = Missing]
  /\ result' = [result EXCEPT ![w] = "failed"]
  /\ UNCHANGED file

Disappear(gone) ==
  /\ call'   = [w \in Writers |-> IF w \in gone THEN Missing ELSE call[w]]
  /\ result' = [w \in Writers |-> IF w \in gone THEN "none" ELSE result[w]]
  /\ UNCHANGED file

FileNext ==
  \/ \E w \in Writers : Commit(w) \/ Fail(w) \/ \E c \in Contents : Start(w, c)
  \/ \E gone \in SUBSET Writers : Disappear(gone)

FileSpec == FileInit /\ [][FileNext]_fileVars
=============================================================================
