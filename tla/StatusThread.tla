---------------------------- MODULE StatusThread ----------------------------
(***************************************************************************)
(* The progress display of a command, src/src/status.{h,cpp}.  Workers     *)
(* count cosets under a mutex; a thread shows the count, every five        *)
(* seconds; stop(), which the command calls when its workers are joined,   *)
(* sets done and notifies without the mutex, and joins the thread.  done   *)
(* is a plain bool: its accesses are single steps here, because every loop *)
(* of the thread passes calls of the mutex and has to load it again.       *)
(*                                                                         *)
(* The mutex is free but for the steps of one increment, the head of the   *)
(* thread's loop, which are one action each, and "go wait".                *)
(***************************************************************************)
EXTENDS Integers

VARIABLES
  progress, done,  \* fields of status
  display,         \* where the thread is: "loop", "show", "show last",
                   \* "go wait", "wait" or "returned"
  shown            \* the count that show_status has read last

status == <<progress, done, display, shown>>

InitStatus == progress = 0 /\ done = FALSE /\ display = "returned" /\ shown = 0

StartStatus == progress' = 0 /\ done' = FALSE /\ display' = "loop" /\ shown' = 0

(* increment, n times: the thread does not hold the mutex.                 *)
Increment(n) == (n = 0 \/ display # "go wait") /\ progress' = progress + n

(* while (!done), or the end, and show_status until its unlock.            *)
Loop ==
  /\ display = "loop"
  /\ shown' = progress
  /\ display' = IF done THEN "show last" ELSE "show"
  /\ UNCHANGED <<progress, done>>

(* The counts are printed, and the mutex is taken back; if (!done).        *)
Show ==
  /\ display \in {"show", "show last"}
  /\ display' = IF display = "show last" THEN "returned"
                ELSE IF done THEN "loop" ELSE "go wait"
  /\ UNCHANGED <<progress, done, shown>>

(* cv_stop.wait_for: gives the mutex back and waits.                       *)
Wait ==
  /\ display = "go wait"
  /\ display' = "wait"
  /\ UNCHANGED <<progress, done, shown>>

(* Mutant: a wait without a time limit.                                    *)
BugTimeout == FALSE /\ UNCHANGED status

(* The five seconds are over, or the wakeup is spurious.                   *)
Timeout ==
  /\ display = "wait"
  /\ display' = "loop"
  /\ UNCHANGED <<progress, done, shown>>

DisplayStep == Loop \/ Show \/ Wait \/ Timeout

(* stop(): the assignment, without the mutex, and cv_stop.notify_all(),    *)
(* which wakes the thread only if it waits already.                        *)
SetDone == done' = TRUE /\ UNCHANGED <<progress, display, shown>>
Notify ==
  /\ display' = IF display = "wait" THEN "loop" ELSE display
  /\ UNCHANGED <<progress, done, shown>>
=============================================================================
