---------------------------- MODULE MCSpeechSession ----------------------------
(***************************************************************************)
(* Instances of SpeechSession for TLC: two sessions on one voice, s1 with  *)
(* the longer text.                                                        *)
(***************************************************************************)
EXTENDS SpeechSession

CONSTANTS v1, s1, s2

MCTexts      == {<<1, 0>>, <<0>>}
MCShortTexts == {<<1>>}

(* The request of the shorter text asks for silence after each sentence. *)
MCSilent == {<<0>>}

(* Every mode, blocking or not. *)
MCRequests == [voice : {v1}, mode : Modes, nonblocking : BOOLEAN]

(* Requests for realtime speech only. *)
MCRealtimeRequests == [voice : {v1}, mode : {"realtime"}, nonblocking : BOOLEAN]

MCInit == Init /\ text[s1] = <<1, 0>> /\ text[s2] = <<0>>

MCSpec == MCInit /\ [][Next]_vars /\ Fairness
=============================================================================
