------------------------------- MODULE HomingMode ------------------------------
(***************************************************************************)
(* DefaultHomingMode: the handshake of executeHoming with a drive, through *)
(* the words that the run thread reads and writes for it.                  *)
(*                                                                         *)
(* Of the status word the bits Reached, Attained and Error are kept, of    *)
(* the control word the bit Start (CW_StartHoming); what the other modes   *)
(* use these bits for is left out.                                         *)
(***************************************************************************)

VARIABLES
  execute,  \* execute_
  status,   \* status_
  homer     \* the drive: the homing bits of its status word, it has seen Start rise

homingVars == <<execute, status, homer>>

StatusBits == {"Reached", "Attained", "Error"}

\* The drive is at home and stands still.
Completed == {"Attained", "Reached"}

HomingInit ==
  /\ execute = FALSE /\ status = {}
  /\ homer = [status |-> {"Reached"}, seen |-> FALSE]

HomingTypeOK ==
  /\ execute \in BOOLEAN /\ status \subseteq StatusBits
  /\ homer \in [status : SUBSET StatusBits, seen : BOOLEAN]

start == execute' = FALSE /\ status' = {}

read(bits) == status' = bits /\ UNCHANGED execute

\* The control word for the drive.
write(cw) == IF execute THEN cw \cup {"Start"} ELSE cw \ {"Start"}

-------------------------------------------------------------------------------
(* executeHoming                                                           *)

Waits == {"prepare", "start", "attain", "stop"}

Following == [prepare |-> "start", start |-> "attain", attain |-> "stop"]

\* What each wait of executeHoming waits for.
Awaited(wait) ==
  CASE wait = "prepare" -> status \cap {"Error", "Reached"} # {}
    [] wait = "start"   -> status # {"Reached"}
    [] wait = "attain"  -> status \cap {"Error", "Attained"} # {}
    [] wait = "stop"    -> status \cap {"Error", "Reached"} # {}

\* The step from a wait to the next one; the drive is told to start after the first.
Waited(wait) ==
  /\ Awaited(wait) /\ "Error" \notin status
  /\ execute' = TRUE
  /\ UNCHANGED <<status, homer>>

\* error(): a time limit has passed, or the drive reports an error.
HomingError == execute' = FALSE /\ UNCHANGED <<status, homer>>

\* MUTANT of Homed: a drive that has stopped after it had attained is home.
HomedWhereItStops == Awaited("stop") /\ "Error" \notin status

\* The last wait ends well.
Homed == Awaited("stop") /\ "Error" \notin status /\ Completed \subseteq status

-------------------------------------------------------------------------------
(* The drive's homing (CiA 402, external): the bits of a homing are          *)
(* Reached: not started or interrupted, none: in progress, Attained: at home *)
(* but still moving, Attained and Reached: completed, Error.                 *)

\* A frame with the word out comes after one with the word last.
SeesStart(last, out) ==
  homer' = [homer EXCEPT !.seen = "Start" \in out /\ ("Start" \notin last \/ @)]

\* The drive changes its mode: entering homing mode it may show what it attained
\* earlier.
EntersHoming ==
  \E s \in {{"Reached"}, Completed} : homer' = [status |-> s, seen |-> FALSE]

LeavesHoming == homer' = [status |-> {"Reached"}, seen |-> FALSE]

\* While the word tells it to home: it begins, goes on and ends.
Moves ==
  IF homer.seen THEN {{}}
  ELSE CASE homer.status = {}           -> {{"Attained"}, Completed, {"Error"}}
         [] homer.status = {"Attained"} -> {Completed, {"Error"}}
         [] OTHER                       -> {}

DriveHomes(told) ==
  /\ \/ /\ told
        /\ \E s \in Moves : homer' = [status |-> s, seen |-> FALSE]
     \/ /\ ~told /\ homer.status \in {{}, {"Attained"}}
        /\ homer' = [homer EXCEPT !.status = {"Reached"}]
  /\ UNCHANGED <<execute, status>>
===============================================================================
