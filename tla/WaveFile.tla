------------------------------- MODULE WaveFile -------------------------------
(***************************************************************************)
(* synthesize_to_file of the synth crate and write_wave_samples_to_file of *)
(* the audio operations: writers, in the threads of one or more processes, *)
(* that write wave files to one destination.                               *)
(*                                                                         *)
(* A writer encodes its samples in memory, creates a temporary sibling of  *)
(* the destination, writes it and renames it.  The name of the sibling is  *)
(* made of the process id and a counter of the process.  Processes may die *)
(* at any point and come back, with the same id too, and processes of      *)
(* different containers may have the same id and share the directory.  The *)
(* file system is taken to be durable: a machine that loses power is not   *)
(* modelled.                                                               *)
(***************************************************************************)
EXTENDS Integers

CONSTANTS
  Writers,         (* threads                                                *)
  Processes,
  Pids,            (* process ids                                            *)
  Contents,        (* encoded wave files                                     *)
  MaxWrites,       (* bound: writes a process starts between two restarts    *)
  Missing,         (* no such file                                           *)
  Torn             (* a file that is not wholly written                      *)

Names == Pids \X (0 .. MaxWrites)

ASSUME MaxWritesAssumption == MaxWrites \in Nat
ASSUME ContentsAssumption  == Missing \notin Contents /\ Torn \notin Contents /\ Missing # Torn
ASSUME NamesAssumption     == Missing \notin Names

VARIABLES
  process,     (* process[w]: the process w is a thread of                   *)
  pid,         (* pid[p]: its id                                             *)
  counter,     (* counter[p]: TEMP_FILE_COUNTER                              *)
  dest,        (* the destination                                            *)
  temp,        (* temp[n]: the temporary sibling of that name                *)
  writer,      (* writer[w]: where w is, what it writes, and its sibling     *)
  result,      (* result[w]: what the last call of w returned                *)
  abandoned    (* names of siblings nobody will remove                       *)

vars == <<process, pid, counter, dest, temp, writer, result, abandoned>>

(***************************************************************************)
(* Program points of a writer.                                             *)
(*   idle     no call                                                      *)
(*   synth    synthesizing and encoding                                    *)
(*   name     about to choose the name of the sibling                      *)
(*   create   about to create it                                           *)
(*   write    has created it, is writing                                   *)
(*   rename   has written it                                               *)
(*   cleanup  a write or a rename failed: about to remove it               *)
(***************************************************************************)
Points == {"idle", "synth", "name", "create", "write", "rename", "cleanup"}

Idle == [pc |-> "idle", content |-> Missing, name |-> Missing]

In(w, pc) == writer[w].pc = pc
Go(w, pc) == writer' = [writer EXCEPT ![w].pc = pc]

(* w is the one that created its sibling, and it is still there for it to  *)
(* rename or remove.                                                       *)
Holds(w) == writer[w].pc \in {"write", "rename", "cleanup"}

Return(w, r) ==
  /\ writer' = [writer EXCEPT ![w] = Idle]
  /\ result' = [result EXCEPT ![w] = r]

Init ==
  /\ process   \in [Writers -> Processes]
  /\ pid       \in [Processes -> Pids]
  /\ counter   = [p \in Processes |-> 0]
  /\ dest      \in Contents \cup {Missing}
  /\ temp      = [n \in Names |-> Missing]
  /\ writer    = [w \in Writers |-> Idle]
  /\ result    = [w \in Writers |-> "none"]
  /\ abandoned = {}

-----------------------------------------------------------------------------
Call(w) ==
  /\ In(w, "idle")
  /\ \E c \in Contents :
       writer' = [writer EXCEPT ![w] = [pc |-> "synth", content |-> c, name |-> Missing]]
  /\ result' = [result EXCEPT ![w] = "none"]
  /\ UNCHANGED <<process, pid, counter, dest, temp, abandoned>>

(* All the speech is collected first: a sentence that fails, or no speech  *)
(* at all, ends the call.                                                  *)
Synthesize(w) ==
  /\ In(w, "synth")
  /\ \/ /\ Go(w, "name")
        /\ UNCHANGED result
     \/ Return(w, "failed")
  /\ UNCHANGED <<process, pid, counter, dest, temp, abandoned>>

(* Slip: the counter is read and not advanced. *)
NextTempSame(p) == UNCHANGED counter

NextTemp(p) == counter' = [counter EXCEPT ![p] = @ + 1]

ChooseName(w) ==
  /\ In(w, "name")
  /\ counter[process[w]] < MaxWrites
  /\ writer' = [writer EXCEPT ![w].pc = "create",
                              ![w].name = <<pid[process[w]], counter[process[w]]>>]
  /\ NextTemp(process[w])
  /\ UNCHANGED <<process, pid, dest, temp, result, abandoned>>

(* Slip: a sibling that is already there is truncated. *)
CreateOver(w) ==
  /\ In(w, "create")
  /\ \/ /\ temp' = [temp EXCEPT ![writer[w].name] = Torn]
        /\ Go(w, "write")
        /\ UNCHANGED result
     \/ /\ Return(w, "failed")
        /\ UNCHANGED temp
  /\ UNCHANGED <<process, pid, counter, dest, abandoned>>

(* create_new fails if the file exists; any creation may fail. *)
Create(w) ==
  /\ In(w, "create")
  /\ \/ /\ temp[writer[w].name] = Missing
        /\ temp' = [temp EXCEPT ![writer[w].name] = Torn]
        /\ Go(w, "write")
        /\ UNCHANGED result
     \/ /\ Return(w, "failed")
        /\ UNCHANGED temp
  /\ UNCHANGED <<process, pid, counter, dest, abandoned>>

Write(w) ==
  /\ In(w, "write")
  /\ \/ /\ temp' = [temp EXCEPT ![writer[w].name] = writer[w].content]
        /\ Go(w, "rename")
     \/ /\ Go(w, "cleanup")
        /\ UNCHANGED temp
  /\ UNCHANGED <<process, pid, counter, dest, result, abandoned>>

(* Slips: a rename that took place is reported as failed; the failure of   *)
(* one is reported and the sibling left where it is.                       *)
RenameFailsAnyway(w) ==
  /\ In(w, "rename")
  /\ \/ /\ temp[writer[w].name] # Missing
        /\ dest' = temp[writer[w].name]
        /\ temp' = [temp EXCEPT ![writer[w].name] = Missing]
        /\ Return(w, "failed")
     \/ /\ Go(w, "cleanup")
        /\ UNCHANGED <<dest, temp, result>>
  /\ UNCHANGED <<process, pid, counter, abandoned>>

RenameLeaves(w) ==
  /\ In(w, "rename")
  /\ \/ /\ temp[writer[w].name] # Missing
        /\ dest' = temp[writer[w].name]
        /\ temp' = [temp EXCEPT ![writer[w].name] = Missing]
        /\ Return(w, "ok")
     \/ /\ Return(w, "failed")
        /\ UNCHANGED <<dest, temp>>
  /\ UNCHANGED <<process, pid, counter, abandoned>>

Rename(w) ==
  /\ In(w, "rename")
  /\ \/ /\ temp[writer[w].name] # Missing
        /\ dest' = temp[writer[w].name]
        /\ temp' = [temp EXCEPT ![writer[w].name] = Missing]
        /\ Return(w, "ok")
     \/ /\ Go(w, "cleanup")
        /\ UNCHANGED <<dest, temp, result>>
  /\ UNCHANGED <<process, pid, counter, abandoned>>

(* The removal may fail as well; nobody looks. *)
Cleanup(w) ==
  /\ In(w, "cleanup")
  /\ \/ /\ temp' = [temp EXCEPT ![writer[w].name] = Missing]
        /\ UNCHANGED abandoned
     \/ /\ abandoned' = abandoned \cup {writer[w].name}
        /\ UNCHANGED temp
  /\ Return(w, "failed")
  /\ UNCHANGED <<process, pid, counter, dest>>

(* A process dies with its threads, and starts again. *)
Crash(p) ==
  /\ writer'    = [w \in Writers |-> IF process[w] = p THEN Idle ELSE writer[w]]
  /\ result'    = [w \in Writers |-> IF process[w] = p THEN "none" ELSE result[w]]
  /\ abandoned' = abandoned \cup {writer[w].name : w \in {v \in Writers : process[v] = p /\ Holds(v)}}
  /\ counter'   = [counter EXCEPT ![p] = 0]
  /\ \E i \in Pids : pid' = [pid EXCEPT ![p] = i]
  /\ UNCHANGED <<process, dest, temp>>

WriterStep(w) ==
  \/ Call(w)
  \/ Synthesize(w)
  \/ ChooseName(w)
  \/ Create(w)
  \/ Write(w)
  \/ Rename(w)
  \/ Cleanup(w)

Next ==
  \/ \E w \in Writers : WriterStep(w)
  \/ \E p \in Processes : Crash(p)

Spec == Init /\ [][Next]_vars

-----------------------------------------------------------------------------
(* Properties.                                                             *)

(* Every variable stays within its type; in particular the destination is  *)
(* never a file that was not wholly written.                               *)
TypeOK ==
  /\ process   \in [Writers -> Processes]
  /\ pid       \in [Processes -> Pids]
  /\ counter   \in [Processes -> 0 .. MaxWrites]
  /\ dest      \in Contents \cup {Missing}
  /\ temp      \in [Names -> Contents \cup {Missing, Torn}]
  /\ writer    \in [Writers -> [pc      : Points,
                                content : Contents \cup {Missing},
                                name    : Names \cup {Missing}]]
  /\ result    \in [Writers -> {"none", "ok", "failed"}]
  /\ abandoned \in SUBSET Names

(* The destination is replaced at one moment by what a call was asked to   *)
(* write, and that call succeeds; a call that fails, or whose process      *)
(* dies, leaves it as it was (the temporary sibling and the rename of      *)
(* write_wave_samples_to_file).                                            *)
File == INSTANCE AtomicFile WITH
  file <- dest,
  call <- [w \in Writers |-> writer[w].content]

WritesAtomically == File!FileSpec

(* No sibling is left behind: one that exists is in the hands of a writer, *)
(* unless the process of its writer died or its removal failed.            *)
NoLitter ==
  \A n \in Names :
    temp[n] # Missing =>
      n \in abandoned \/ \E w \in Writers : Holds(w) /\ writer[w].name = n

(* A name that is taken was taken by a process that died, or by one of the *)
(* same id: the writers of a process never stand in each other's way, and  *)
(* no two writers share a sibling (temp_sibling_path).                     *)
NamesApart ==
  \A v, w \in Writers :
    /\ Holds(v) /\ Holds(w) /\ v # w => writer[v].name # writer[w].name
    /\ Holds(v) /\ In(w, "create") /\ writer[v].name = writer[w].name
         => process[v] # process[w]
=============================================================================
