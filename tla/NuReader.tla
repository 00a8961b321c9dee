------------------------------ MODULE NuReader ------------------------------
(***************************************************************************)
(* What reading an archive promises, whatever the archive is read from and *)
(* whatever the application's callbacks answer: a call is given a job, a   *)
(* list of things to hand out; it hands out each of them once, in order,   *)
(* or passes over it because it was told to; it succeeds only after the    *)
(* last one, and no other call begins before it has come back.             *)
(***************************************************************************)
EXTENDS Naturals, Sequences

CONSTANT Items      \* what there is to hand out

VARIABLES job,      \* what the last call was asked for
          done,     \* what it has dealt with: pairs of an item and its fate
          status    \* "idle", "busy", "ok" or "failed"

vars == <<job, done, status>>

Init == job = <<>> /\ done = <<>> /\ status = "idle"

Begin == /\ status # "busy"
         /\ job' \in Seq(Items) /\ done' = <<>> /\ status' = "busy"

(* A call refused before it began to read *)
Refuse == /\ status # "busy"
          /\ job' \in Seq(Items) /\ done' = <<>> /\ status' = "failed"

Handle == /\ status = "busy"
          /\ Len(done) < Len(job)
          /\ \E fate \in {"given", "skipped"} :
                done' = Append(done, <<job[Len(done) + 1], fate>>)
          /\ UNCHANGED <<job, status>>

Succeed == /\ status = "busy"
           /\ Len(done) = Len(job)
           /\ status' = "ok"
           /\ UNCHANGED <<job, done>>

Fail == /\ status = "busy"
        /\ status' = "failed"
        /\ UNCHANGED <<job, done>>

(* A call to fetch one thread hands it out and comes back at once.         *)
HandleAndSucceed ==
    /\ status = "busy"
    /\ Len(job) = Len(done) + 1
    /\ \E fate \in {"given", "skipped"} :
          done' = Append(done, <<job[Len(done) + 1], fate>>)
    /\ status' = "ok"
    /\ UNCHANGED job

Next == Begin \/ Refuse \/ Handle \/ Succeed \/ Fail \/ HandleAndSucceed

Spec == Init /\ [][Next]_vars
=============================================================================
