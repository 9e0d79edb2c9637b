------------------------------- MODULE SerialBus -------------------------------
(***************************************************************************)
(* What the class comment of src/src/i2c/bus_executor.hpp promises: a bus  *)
(* that runs admitted jobs one at a time, in order, and tells each caller  *)
(* what became of its job.  A caller may give up at any moment: a job that *)
(* has not begun is then never begun, one that has begun runs on.          *)
(***************************************************************************)
EXTENDS Naturals, Sequences

CONSTANTS Tasks, NoTask

JobStatus == {"Ok", "InvalidArgument", "Unavailable", "Internal"}

VARIABLES
  open,     \* the bus is open
  line,     \* admitted tasks, in the order of admission
  next,     \* the task that left the line and has not begun, or NoTask
  onBus,    \* the task whose job has the bus, or NoTask
  fate,     \* fate[t]: what became of the job
  gaveUp,   \* gaveUp[t]: the caller stopped waiting
  answer    \* answer[t]: what the caller was told

vars == <<open, line, next, onBus, fate, gaveUp, answer>>

Init == /\ open = FALSE
        /\ line = <<>> /\ next = NoTask /\ onBus = NoTask
        /\ fate = [t \in Tasks |-> "new"]
        /\ gaveUp = [t \in Tasks |-> FALSE]
        /\ answer = [t \in Tasks |-> "none"]

Open == /\ ~open
        /\ open' = TRUE
        /\ UNCHANGED <<line, next, onBus, fate, gaveUp, answer>>

\* The bus is closed only when no job is on it and none is left to run.
Close == /\ line = <<>> /\ next = NoTask /\ onBus = NoTask
         /\ open' = FALSE
         /\ UNCHANGED <<line, next, onBus, fate, gaveUp, answer>>

Refuse(t) == /\ fate[t] = "new"
             /\ fate' = [fate EXCEPT ![t] = "refused"]
             /\ answer' = [answer EXCEPT ![t] = "Unavailable"]
             /\ UNCHANGED <<open, line, next, onBus, gaveUp>>

Admit(t) == /\ open
            /\ fate[t] = "new"
            /\ fate' = [fate EXCEPT ![t] = "queued"]
            /\ line' = Append(line, t)
            /\ UNCHANGED <<open, next, onBus, gaveUp, answer>>

Pick == /\ line # <<>> /\ next = NoTask /\ onBus = NoTask
        /\ next' = Head(line)
        /\ line' = Tail(line)
        /\ UNCHANGED <<open, onBus, fate, gaveUp, answer>>

Begin == /\ open
         /\ next # NoTask /\ onBus = NoTask
         /\ ~gaveUp[next]
         /\ onBus' = next
         /\ next' = NoTask
         /\ fate' = [fate EXCEPT ![next] = "running"]
         /\ UNCHANGED <<open, line, gaveUp, answer>>

Skip == /\ next # NoTask
        /\ gaveUp[next]
        /\ next' = NoTask
        /\ fate' = [fate EXCEPT ![next] = "dropped"]
        /\ UNCHANGED <<open, line, onBus, gaveUp, answer>>

Finish == /\ onBus # NoTask
          /\ onBus' = NoTask
          /\ \E s \in JobStatus : fate' = [fate EXCEPT ![onBus] = s]
          /\ UNCHANGED <<open, line, next, gaveUp, answer>>

\* Everything still in line is dropped when the bus is about to close.
DropLine ==
  /\ line' = <<>>
  /\ fate' = [t \in Tasks |-> IF \E i \in DOMAIN line : line[i] = t
                                THEN "dropped" ELSE fate[t]]
  /\ UNCHANGED <<open, next, onBus, gaveUp, answer>>

GiveUp(t) == /\ fate[t] \notin {"new", "refused"}
             /\ answer[t] = "none"
             /\ gaveUp' = [gaveUp EXCEPT ![t] = TRUE]
             /\ UNCHANGED <<open, line, next, onBus, fate, answer>>

Truth(t) == CASE gaveUp[t]            -> "DeadlineExceeded"
              [] ~gaveUp[t] /\ fate[t] = "dropped" -> "Cancelled"
              [] OTHER                -> fate[t]

Answer(t) == /\ answer[t] = "none"
             /\ gaveUp[t] \/ fate[t] \in JobStatus \cup {"dropped"}
             /\ answer' = [answer EXCEPT ![t] = Truth(t)]
             /\ UNCHANGED <<open, line, next, onBus, fate, gaveUp>>

Next == \/ Open \/ Close \/ Pick \/ Begin \/ Skip \/ Finish \/ DropLine
        \/ \E t \in Tasks : Refuse(t) \/ Admit(t) \/ GiveUp(t) \/ Answer(t)

Spec == Init /\ [][Next]_vars
================================================================================
